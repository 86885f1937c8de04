--------------------------- MODULE ComputationProofs ---------------------------
(***************************************************************************)
(* What TLAPS proves of the components of Computations, which compute more   *)
(* than they keep: AnswerEvidence, TeamPlan and RetrievalJudgments.  What    *)
(* loops and sums return is shown for every input by induction over finite   *)
(* sets, which the first sections prepare; then a section per component      *)
(* states what its operators return, its invariant, and that the invariant   *)
(* implies the component's part of a property.                              *)
(***************************************************************************)
EXTENDS Computations, FiniteSetTheorems, SequenceTheorems, TLAPS

-----------------------------------------------------------------------------
(* Induction and recursion over finite sets                                *)

(* Every set of natural numbers has a least element, if it has any. *)
LEMMA LeastIn ==
  ASSUME NEW R, IsWellFoundedOn(R, Nat), \A x, y \in Nat : y < x => <<y, x>> \in R,
         NEW T, T \subseteq Nat, T # {}
  PROVE  \E x \in T : \A y \in T : x <= y
<1>1. PICK x \in T : \A y \in T : ~ (<<y, x>> \in R)
  BY WFMin
<1>2. x \in Nat /\ \A y \in T : y \in Nat /\ ~(y < x)
  BY <1>1
<1> QED
  BY <1>1, <1>2

(* Every set of natural numbers that is not empty has a least element. *)
LEMMA LeastElement ==
  ASSUME NEW T, T \subseteq Nat, T # {}
  PROVE  \E x \in T : \A y \in T : x <= y
<1>1. \A x, y \in Nat : y < x => <<y, x>> \in OpToRel(<, Nat)
  BY DEF OpToRel
<1> QED
  BY <1>1, LeastIn, NatLessThanWellFounded

(* Induction over the natural numbers, for a set instead of a predicate. *)
LEMMA NatSetInduction ==
  ASSUME NEW S, 0 \in S, \A n \in Nat : n \in S => n + 1 \in S
  PROVE  Nat \subseteq S
<1> SUFFICES ASSUME Nat \ S # {} PROVE FALSE
  OBVIOUS
<1>1. PICK x \in Nat \ S : \A y \in Nat \ S : x <= y
  BY LeastElement
<1>2. x # 0 /\ x - 1 \in Nat
  BY <1>1
<1>3. x - 1 \in S
  BY <1>1, <1>2
<1> QED
  BY <1>1, <1>2, <1>3

(* Induction over the size of the subsets of a finite set. *)
LEMMA CardinalityInduction ==
  ASSUME NEW S, IsFiniteSet(S), NEW F, {} \in F,
         \A n \in Nat : (\A T \in SUBSET S : Cardinality(T) = n => T \in F)
                        => \A T \in SUBSET S : Cardinality(T) = n + 1 => T \in F
  PROVE  \A T \in SUBSET S : T \in F
<1> DEFINE N == {n \in Nat : \A T \in SUBSET S : Cardinality(T) = n => T \in F}
<1>1. 0 \in N
  BY FS_EmptySet, FS_Subset
<1>2. \A n \in Nat : n \in N => n + 1 \in N
  OBVIOUS
<1>3. Nat \subseteq N
  <2> HIDE DEF N
  <2> QED BY <1>1, <1>2, NatSetInduction
<1>4. \A T \in SUBSET S : Cardinality(T) \in Nat
  BY FS_Subset, FS_CardinalityType
<1> QED
  BY <1>3, <1>4

(* Induction over the subsets of a finite set, an element at a time. *)
LEMMA FiniteSetInduction ==
  ASSUME NEW S, IsFiniteSet(S), NEW F, {} \in F,
         \A T \in SUBSET S, x \in S : T \in F /\ x \notin T => T \union {x} \in F
  PROVE  \A T \in SUBSET S : T \in F
<1> DEFINE N == {n \in Nat : \A T \in SUBSET S : Cardinality(T) = n => T \in F}
<1>1. 0 \in N
  BY FS_EmptySet, FS_Subset
<1>2. ASSUME NEW n \in Nat, n \in N PROVE n + 1 \in N
  <2> SUFFICES ASSUME NEW T \in SUBSET S, Cardinality(T) = n + 1 PROVE T \in F
    OBVIOUS
  <2>1. IsFiniteSet(T) /\ T # {}
    BY FS_Subset, FS_EmptySet
  <2>2. PICK x : x \in T
    BY <2>1
  <2>0. Cardinality(T \ {x}) = Cardinality(T) - 1
    BY <2>1, <2>2, FS_RemoveElement
  <2>3. Cardinality(T \ {x}) = n
    BY <2>0
  <2>4. T \ {x} \in F /\ T \ {x} \in SUBSET S /\ x \in S /\ x \notin T \ {x}
    BY <1>2, <2>2, <2>3
  <2>5. (T \ {x}) \union {x} = T
    BY <2>2
  <2> QED
    BY <2>4, <2>5
<1>3. Nat \subseteq N
  <2> HIDE DEF N
  <2> QED BY <1>1, <1>2, NatSetInduction
<1>4. \A T \in SUBSET S : Cardinality(T) \in Nat
  BY FS_Subset, FS_CardinalityType
<1> QED
  BY <1>3, <1>4

(* A recursion that takes an element away from a finite set at each step is   *)
(* well defined.                                                           *)
Recursion(it, S, X, base, step, pick) ==
  /\ it \in [SUBSET S -> X]
  /\ \A s \in SUBSET S : it[s] = IF s = {} THEN base ELSE step[<<pick[s], it[s \ {pick[s]}]>>]

(* A recursion that takes a picked element away at each call has a result for *)
(* every subset of a finite set.                                              *)
LEMMA RecursionOnSubsets ==
  ASSUME NEW S, IsFiniteSet(S), NEW X, NEW base \in X, NEW step \in [S \X X -> X],
         NEW pick, \A s \in SUBSET S : s # {} => pick[s] \in s
  PROVE  \E it : Recursion(it, S, X, base, step, pick)
<1> DEFINE Small(n) == {s \in SUBSET S : Cardinality(s) <= n}
           Good(g, n) == \A s \in Small(n) : g[s] = IF s = {} THEN base ELSE step[<<pick[s], g[s \ {pick[s]}]>>]
           N == {n \in Nat : \E g \in [SUBSET S -> X] : Good(g, n)}
<1>1. 0 \in N
  <2>1. \A s \in Small(0) : s = {}
    BY FS_Subset, FS_EmptySet, FS_CardinalityType
  <2>2. [s \in SUBSET S |-> base] \in [SUBSET S -> X] /\ Good([s \in SUBSET S |-> base], 0)
    BY <2>1
  <2> QED
    BY <2>2
<1>2. ASSUME NEW n \in Nat, n \in N PROVE n + 1 \in N
  <2>1. PICK g \in [SUBSET S -> X] : Good(g, n)
    BY <1>2
  <2> DEFINE h == [s \in SUBSET S |-> IF s = {} THEN base ELSE step[<<pick[s], g[s \ {pick[s]}]>>]]
  <2>2. h \in [SUBSET S -> X]
    <3> DEFINE next(s) == IF s = {} THEN base ELSE step[<<pick[s], g[s \ {pick[s]}]>>]
    <3>1. ASSUME NEW s \in SUBSET S, s # {} PROVE next(s) \in X
      <4>1. pick[s] \in S /\ g[s \ {pick[s]}] \in X
        BY <3>1
      <4>2. <<pick[s], g[s \ {pick[s]}]>> \in S \X X
        BY <4>1
      <4> QED
        BY <3>1, <4>2
    <3>2. \A s \in SUBSET S : next(s) \in X
      BY <3>1
    <3> QED
      BY <3>2
  <2>3. ASSUME NEW s \in Small(n + 1) PROVE h[s] = IF s = {} THEN base ELSE step[<<pick[s], h[s \ {pick[s]}]>>]
    <3>1. CASE s = {}
      BY <3>1
    <3>2. CASE s # {}
      <4> DEFINE t == s \ {pick[s]}
      <4>1. IsFiniteSet(s) /\ pick[s] \in s
        BY <3>2, FS_Subset
      <4>2. Cardinality(t) = Cardinality(s) - 1 /\ Cardinality(s) \in Nat
        BY <4>1, FS_RemoveElement, FS_CardinalityType
      <4>3. t \in Small(n) /\ t \in SUBSET S
        BY <4>2
      <4>4. g[t] = IF t = {} THEN base ELSE step[<<pick[t], g[t \ {pick[t]}]>>]
        BY <2>1, <4>3
      <4>5. h[t] = g[t]
        BY <4>3, <4>4
      <4> QED
        BY <3>2, <4>5
    <3> QED
      BY <3>1, <3>2
  <2>4. Good(h, n + 1)
    BY <2>3
  <2> HIDE DEF Good, h
  <2> QED
    BY <2>2, <2>4
<1>3. Nat \subseteq N
  <2> HIDE DEF N
  <2> QED BY <1>1, <1>2, NatSetInduction
<1>4. Cardinality(S) \in Nat /\ \A s \in SUBSET S : Cardinality(s) <= Cardinality(S)
  BY FS_Subset, FS_CardinalityType
<1>5. PICK g \in [SUBSET S -> X] : Good(g, Cardinality(S))
  BY <1>3, <1>4
<1> QED
  BY <1>4, <1>5 DEF Recursion

(* Whatever follows the steps of a recursion as long as it keeps its type     *)
(* keeps its type, and is that recursion.                                  *)
LEMMA RecursionKeepsType ==
  ASSUME NEW S, IsFiniteSet(S), NEW X, NEW base \in X, NEW step \in [S \X X -> X],
         NEW pick, \A s \in SUBSET S : s # {} => pick[s] \in s,
         NEW it, it = [s \in SUBSET S |-> it[s]], it[{}] = base,
         \A s \in SUBSET S : s # {} /\ it[s \ {pick[s]}] \in X => it[s] = step[<<pick[s], it[s \ {pick[s]}]>>]
  PROVE  Recursion(it, S, X, base, step, pick)
<1> DEFINE F == {s \in SUBSET S : it[s] \in X}
<1>1. {} \in F
  OBVIOUS
<1>2. ASSUME NEW n \in Nat, \A s \in SUBSET S : Cardinality(s) = n => s \in F
      PROVE  \A s \in SUBSET S : Cardinality(s) = n + 1 => s \in F
  <2> SUFFICES ASSUME NEW s \in SUBSET S, Cardinality(s) = n + 1 PROVE it[s] \in X
    OBVIOUS
  <2>1. IsFiniteSet(s) /\ s # {}
    BY FS_Subset, FS_EmptySet
  <2>2. pick[s] \in s
    BY <2>1
  <2>3. Cardinality(s \ {pick[s]}) = Cardinality(s) - 1
    BY <2>1, <2>2, FS_RemoveElement
  <2>a. s \ {pick[s]} \in SUBSET S /\ Cardinality(s \ {pick[s]}) = n
    BY <2>3
  <2>b. s \ {pick[s]} \in F
    BY <1>2, <2>a
  <2>4. it[s \ {pick[s]}] \in X
    BY <2>b
  <2>5. it[s] = step[<<pick[s], it[s \ {pick[s]}]>>]
    BY <2>1, <2>4
  <2> QED
    BY <2>2, <2>4, <2>5
<1>3. \A s \in SUBSET S : s \in F
  <2> HIDE DEF F
  <2> QED BY <1>1, <1>2, CardinalityInduction
<1>4. \A s \in SUBSET S : it[s] \in X /\ (s # {} => s \ {pick[s]} \in SUBSET S)
  BY <1>3
<1>5. it \in [SUBSET S -> X]
  BY <1>4
<1>6. ASSUME NEW s \in SUBSET S PROVE it[s] = IF s = {} THEN base ELSE step[<<pick[s], it[s \ {pick[s]}]>>]
  <2>1. CASE s = {}
    BY <2>1
  <2>2. CASE s # {}
    BY <1>4, <2>2
  <2> QED
    BY <2>1, <2>2
<1> QED
  BY <1>5, <1>6 DEF Recursion

(* The largest of finitely many positions *)
Largest(s) == CHOOSE x \in s : \A y \in s : x >= y
(* The least of a set of numbers. *)
Smallest(s) == CHOOSE x \in s : \A y \in s : x =< y

(* What Largest picks is an element no other exceeds. *)
LEMMA LargestIs ==
  ASSUME NEW n \in Nat, NEW T, T \subseteq 0..n, T # {}
  PROVE  Largest(T) \in T /\ \A x \in T : x <= Largest(T)
<1> DEFINE U == {n - x : x \in T}
<1>1. \A x \in T : x \in Int /\ n - x \in Nat
  OBVIOUS
<1>2. U \subseteq Nat /\ U # {}
  BY <1>1
<1>3. PICK u \in U : \A v \in U : u <= v
  BY <1>2, LeastElement
<1>4. PICK y \in T : u = n - y
  OBVIOUS
<1>5. \A x \in T : n - x \in U
  OBVIOUS
<1>6. \A x \in T : y >= x
  BY <1>1, <1>3, <1>4, <1>5
<1>7. Largest(T) \in T /\ \A x \in T : Largest(T) >= x
  BY <1>6 DEF Largest
<1> QED
  BY <1>1, <1>7

(* What Smallest picks is an element no other is below. *)
LEMMA SmallestIs ==
  ASSUME NEW T, T \subseteq Nat, T # {}
  PROVE  Smallest(T) \in T /\ \A x \in T : Smallest(T) <= x
<1>1. PICK x \in T : \A y \in T : x <= y
  BY LeastElement
<1> QED
  BY <1>1 DEF Smallest

(* A fold from left to right takes the positions in their order. *)
Latest(n) == [s \in SUBSET (1..n) |-> Largest(s)]

(* The latest of some places is one of them. *)
LEMMA LatestIsIn ==
  ASSUME NEW n \in Nat
  PROVE  \A s \in SUBSET (1..n) : s # {} => Latest(n)[s] \in s
<1> SUFFICES ASSUME NEW s \in SUBSET (1..n), s # {} PROVE Latest(n)[s] \in s
  OBVIOUS
<1>1. s \subseteq 0..n
  OBVIOUS
<1> QED
  BY <1>1, LargestIs DEF Latest

(* Taking the latest place away from the first i leaves the first i - 1. *)
LEMMA LatestOfPrefix ==
  ASSUME NEW n \in Nat, NEW i \in 1..n
  PROVE  /\ 1..i \in SUBSET (1..n) /\ 1..i # {} /\ 1..(i - 1) \in SUBSET (1..n)
         /\ Latest(n)[1..i] = i /\ Largest(1..i) = i /\ (1..i) \ {i} = 1..(i - 1)
<1>1. 1..i \in SUBSET (1..n) /\ i \in 1..i /\ 1..i \subseteq 0..n /\ 1..i # {}
  OBVIOUS
<1>2. Largest(1..i) \in 1..i /\ i <= Largest(1..i)
  BY <1>1, LargestIs
<1> QED
  BY <1>1, <1>2 DEF Latest

(* Of no element the recursion gives its base. *)
LEMMA RecursionBegins ==
  ASSUME NEW S, NEW X, NEW base, NEW step, NEW pick, NEW it, Recursion(it, S, X, base, step, pick)
  PROVE  it[{}] = base
  BY DEF Recursion

(* A recursion over the places 1..n is a run: it starts with the base and     *)
(* takes a step per place.                                                    *)
LEMMA RunOfRecursion ==
  ASSUME NEW n \in Nat, NEW X, NEW base \in X, NEW step \in [(1..n) \X X -> X],
         NEW it, Recursion(it, 1..n, X, base, step, Latest(n))
  PROVE  \E run \in [0..n -> X] :
           /\ run[0] = base /\ run[n] = it[1..n]
           /\ \A i \in 1..n : run[i] = step[<<i, run[i - 1]>>]
<1> DEFINE run == [i \in 0..n |-> it[1..i]]
<1>1. \A i \in 0..n : 1..i \in SUBSET (1..n)
  OBVIOUS
<1>2. run \in [0..n -> X]
  BY <1>1 DEF Recursion
<1>3. run[0] = base
  <2>1. 1..0 = {}
    OBVIOUS
  <2>2. run[0] = it[1..0]
    OBVIOUS
  <2> QED
    BY <2>1, <2>2, RecursionBegins
<1>4. ASSUME NEW i \in 1..n PROVE run[i] = step[<<i, run[i - 1]>>]
  <2>1. run[i] = it[1..i] /\ run[i - 1] = it[1..(i - 1)]
    OBVIOUS
  <2>2. 1..i \subseteq 1..n /\ 1..i # {} /\ Latest(n)[1..i] = i /\ (1..i) \ {i} = 1..(i - 1)
    BY LatestOfPrefix
  <2>3. \A s \in SUBSET (1..n) : s # {} => it[s] = step[<<Latest(n)[s], it[s \ {Latest(n)[s]}]>>]
    BY DEF Recursion
  <2>4. it[1..i] = step[<<Latest(n)[1..i], it[(1..i) \ {Latest(n)[1..i]}]>>]
    BY <2>2, <2>3
  <2>5. it[1..i] = step[<<i, it[(1..i) \ {i}]>>]
    BY <2>2, <2>4
  <2> QED
    BY <2>1, <2>2, <2>5
<1>5. run[n] = it[1..n]
  OBVIOUS
<1> HIDE DEF run
<1> QED
  BY <1>2, <1>3, <1>4, <1>5

-----------------------------------------------------------------------------

(* The element that MapThenFoldSet takes next. *)
Any(s) == CHOOSE x \in s : TRUE

(* It is an element. *)
LEMMA AnyIsIn ==
  ASSUME NEW s, s # {}
  PROVE  Any(s) \in s
  BY DEF Any

(* The sums of f over the subsets of S, as the community modules' folds       *)
(* define them.                                                               *)
PartialSums(f, S) ==
  CHOOSE it : it = [s \in SUBSET S |-> IF s = {} THEN 0 ELSE LET x == Any(s) IN f[x] + it[s \ {x}]]

(* Over a finite set there are such sums. *)
LEMMA PartialSumsExist ==
  ASSUME NEW S, IsFiniteSet(S), NEW f, \A x \in S : f[x] \in Int
  PROVE  PartialSums(f, S) =
           [s \in SUBSET S |-> IF s = {} THEN 0 ELSE f[Any(s)] + PartialSums(f, S)[s \ {Any(s)}]]
<1> DEFINE pick == [s \in SUBSET S |-> Any(s)]
           step == [p \in S \X Int |-> f[p[1]] + p[2]]
           Rec(it) == it = [s \in SUBSET S |-> IF s = {} THEN 0 ELSE f[Any(s)] + it[s \ {Any(s)}]]
           sum == CHOOSE it : Rec(it)
<1>1. \A s \in SUBSET S : s # {} => pick[s] \in s
  BY AnyIsIn
<1>2. step \in [S \X Int -> Int]
  OBVIOUS
<1>3. PICK g : Recursion(g, S, Int, 0, step, pick)
  <2> HIDE DEF pick, step, Rec, sum
  <2>1. 0 \in Int
    OBVIOUS
  <2> QED BY <1>1, <1>2, <2>1, RecursionOnSubsets
<1>4. Rec(g)
  <2>1. \A s \in SUBSET S : g[s] = IF s = {} THEN 0 ELSE f[Any(s)] + g[s \ {Any(s)}]
    BY <1>1, <1>3 DEF Recursion
  <2> QED BY <1>3, <2>1 DEF Recursion
<1>5. Rec(sum)
  BY <1>4
<1>6. sum = [s \in SUBSET S |-> IF s = {} THEN 0 ELSE f[Any(s)] + sum[s \ {Any(s)}]]
  <2> HIDE DEF sum
  <2> QED BY <1>5
<1>7. sum = PartialSums(f, S)
  BY DEF PartialSums
<1> QED
  BY <1>6, <1>7

(* The sum over nothing is 0. *)
LEMMA PartialEmpty ==
  ASSUME NEW S, IsFiniteSet(S), NEW f, \A x \in S : f[x] \in Int
  PROVE  PartialSums(f, S)[{}] = 0
<1> DEFINE it == PartialSums(f, S)
<1>1. it = [s \in SUBSET S |-> IF s = {} THEN 0 ELSE f[Any(s)] + it[s \ {Any(s)}]]
  BY PartialSumsExist
<1> HIDE DEF it
<1>2. it[{}] = 0
  BY <1>1
<1> QED
  BY <1>2 DEF it

(* A sum is that of any element and of the rest. *)
LEMMA PartialStep ==
  ASSUME NEW S, IsFiniteSet(S), NEW f, \A x \in S : f[x] \in Int, NEW U, U \subseteq S, U # {}
  PROVE  PartialSums(f, S)[U] = f[Any(U)] + PartialSums(f, S)[U \ {Any(U)}]
<1> DEFINE it == PartialSums(f, S)
<1>1. it = [s \in SUBSET S |-> IF s = {} THEN 0 ELSE f[Any(s)] + it[s \ {Any(s)}]]
  BY PartialSumsExist
<1> HIDE DEF it
<1>2. it[U] = f[Any(U)] + it[U \ {Any(U)}]
  BY <1>1
<1> QED
  BY <1>2 DEF it

(* A sum of integers is one. *)
LEMMA PartialSum ==
  ASSUME NEW S, IsFiniteSet(S), NEW f, \A x \in S : f[x] \in Int, NEW U, U \subseteq S
  PROVE  PartialSums(f, S)[U] \in Int
<1> DEFINE F == {s \in SUBSET S : PartialSums(f, S)[s] \in Int}
<1>1. {} \in F
  BY PartialEmpty
<1>2. ASSUME NEW n \in Nat, \A s \in SUBSET S : Cardinality(s) = n => s \in F
      PROVE  \A s \in SUBSET S : Cardinality(s) = n + 1 => s \in F
  <2> SUFFICES ASSUME NEW s \in SUBSET S, Cardinality(s) = n + 1 PROVE PartialSums(f, S)[s] \in Int
    OBVIOUS
  <2>1. IsFiniteSet(s) /\ s # {}
    BY FS_Subset, FS_EmptySet
  <2>2. Any(s) \in s
    BY <2>1, AnyIsIn
  <2>3. Cardinality(s \ {Any(s)}) = Cardinality(s) - 1
    BY <2>1, <2>2, FS_RemoveElement
  <2>4. PartialSums(f, S)[s \ {Any(s)}] \in Int
    BY <1>2, <2>3
  <2>5. PartialSums(f, S)[s] = f[Any(s)] + PartialSums(f, S)[s \ {Any(s)}]
    BY <2>1, PartialStep
  <2>6. f[Any(s)] \in Int
    BY <2>2
  <2> QED
    BY <2>4, <2>5, <2>6
<1> HIDE DEF F
<1>3. U \in F
  BY <1>1, <1>2, CardinalityInduction
<1> QED
  BY <1>3 DEF F

(* What is summed up does not depend on the set that the recursion began from. *)
LEMMA SumOfPart ==
  ASSUME NEW S, IsFiniteSet(S), NEW f, \A x \in S : f[x] \in Int, NEW T \in SUBSET S
  PROVE  PartialSums(f, S)[T] = PartialSums(f, T)[T]
<1> DEFINE F == {U \in SUBSET S : \A V \in SUBSET S : U \subseteq V => PartialSums(f, V)[U] = PartialSums(f, S)[U]}
<1>1. {} \in F
  <2> SUFFICES ASSUME NEW V \in SUBSET S PROVE PartialSums(f, V)[{}] = PartialSums(f, S)[{}]
    OBVIOUS
  <2>1. IsFiniteSet(V) /\ \A x \in V : f[x] \in Int
    BY FS_Subset
  <2>2. PartialSums(f, V)[{}] = 0
    BY <2>1, PartialEmpty
  <2>3. PartialSums(f, S)[{}] = 0
    BY PartialEmpty
  <2> QED
    BY <2>2, <2>3
<1>2. ASSUME NEW n \in Nat, \A U \in SUBSET S : Cardinality(U) = n => U \in F
      PROVE  \A U \in SUBSET S : Cardinality(U) = n + 1 => U \in F
  <2> SUFFICES ASSUME NEW U \in SUBSET S, Cardinality(U) = n + 1, NEW V \in SUBSET S, U \subseteq V
               PROVE  PartialSums(f, V)[U] = PartialSums(f, S)[U]
    OBVIOUS
  <2>1. IsFiniteSet(U) /\ IsFiniteSet(V) /\ U # {}
    BY FS_Subset, FS_EmptySet
  <2> DEFINE x == Any(U)
  <2>2. x \in U
    BY <2>1, AnyIsIn
  <2>3. Cardinality(U \ {x}) = Cardinality(U) - 1
    BY <2>1, <2>2, FS_RemoveElement
  <2>4. PartialSums(f, V)[U \ {x}] = PartialSums(f, S)[U \ {x}]
    BY <1>2, <2>3
  <2>5. \A y \in V : f[y] \in Int
    OBVIOUS
  <2>6. PartialSums(f, V)[U] = f[x] + PartialSums(f, V)[U \ {x}]
    BY <2>1, <2>2, <2>5, PartialStep
  <2>7. PartialSums(f, S)[U] = f[x] + PartialSums(f, S)[U \ {x}]
    BY <2>2, PartialStep
  <2> QED
    BY <2>4, <2>6, <2>7
<1> HIDE DEF F
<1>3. T \in F
  BY <1>1, <1>2, CardinalityInduction
<1> QED
  BY <1>3 DEF F

(* The sum of the numbers f[x] for x in S *)
Total(f, S) == PartialSums(f, S)[S]

(* The total over nothing is 0. *)
LEMMA SumEmpty ==
  ASSUME NEW f
  PROVE  Total(f, {}) = 0
<1>1. IsFiniteSet({})
  BY FS_EmptySet
<1>2. PartialSums(f, {})[{}] = 0
  BY <1>1, PartialEmpty
<1> QED
  BY <1>2 DEF Total

(* A total of integers is one. *)
LEMMA SumInt ==
  ASSUME NEW S, IsFiniteSet(S), NEW f, \A x \in S : f[x] \in Int
  PROVE  Total(f, S) \in Int
  BY PartialSum DEF Total

(* A total is one element's and the total of the rest. *)
LEMMA SumChosen ==
  ASSUME NEW S, IsFiniteSet(S), S # {}, NEW f, \A x \in S : f[x] \in Int
  PROVE  \E x \in S : Total(f, S) = f[x] + Total(f, S \ {x})
<1> DEFINE x == Any(S)
<1>1. x \in S
  BY AnyIsIn
<1>2. PartialSums(f, S)[S] = f[x] + PartialSums(f, S)[S \ {x}]
  BY <1>1, PartialStep
<1>3. PartialSums(f, S)[S \ {x}] = PartialSums(f, S \ {x})[S \ {x}]
  BY SumOfPart
<1> QED
  BY <1>1, <1>2, <1>3 DEF Total

(* An element may be taken out of a sum first, whichever it is. *)
LEMMA SumRemove ==
  ASSUME NEW S, IsFiniteSet(S), NEW f, \A x \in S : f[x] \in Int, NEW a \in S
  PROVE  Total(f, S) = f[a] + Total(f, S \ {a})
<1> DEFINE F == {U \in SUBSET S : \A x \in U : Total(f, U) = f[x] + Total(f, U \ {x})}
<1>1. {} \in F
  OBVIOUS
<1>2. ASSUME NEW n \in Nat, \A U \in SUBSET S : Cardinality(U) = n => U \in F
      PROVE  \A U \in SUBSET S : Cardinality(U) = n + 1 => U \in F
  <2> SUFFICES ASSUME NEW U \in SUBSET S, Cardinality(U) = n + 1, NEW x \in U
               PROVE  Total(f, U) = f[x] + Total(f, U \ {x})
    OBVIOUS
  <2>1. IsFiniteSet(U) /\ \A y \in U : f[y] \in Int
    BY FS_Subset
  <2>2. PICK y \in U : Total(f, U) = f[y] + Total(f, U \ {y})
    BY <2>1, SumChosen
  <2>3. CASE x = y
    BY <2>2, <2>3
  <2>4. CASE x # y
    <3>1. /\ Cardinality(U \ {x}) = Cardinality(U) - 1
          /\ Cardinality(U \ {y}) = Cardinality(U) - 1
      BY <2>1, FS_RemoveElement
    <3>2. U \ {x} \in F /\ U \ {y} \in F
      BY <1>2, <3>1
    <3>3. Total(f, U \ {x}) = f[y] + Total(f, (U \ {x}) \ {y})
      BY <3>2, <2>4
    <3>4. Total(f, U \ {y}) = f[x] + Total(f, (U \ {y}) \ {x})
      BY <3>2, <2>4
    <3>5. (U \ {y}) \ {x} = (U \ {x}) \ {y}
      OBVIOUS
    <3> DEFINE W == (U \ {x}) \ {y}
    <3>6. Total(f, W) \in Int /\ f[x] \in Int /\ f[y] \in Int
      BY <2>1, FS_Subset, SumInt
    <3>7. Total(f, U) = f[y] + (f[x] + Total(f, W))
      BY <2>2, <3>4, <3>5
    <3>8. Total(f, U \ {x}) = f[y] + Total(f, W)
      BY <3>3
    <3> HIDE DEF W
    <3> QED
      BY <3>6, <3>7, <3>8
  <2> QED
    BY <2>3, <2>4
<1> HIDE DEF F
<1>3. S \in F
  BY <1>1, <1>2, CardinalityInduction
<1> QED
  BY <1>3 DEF F

(* Sums of larger numbers, or of more, are larger. *)
LEMMA SumMonotone ==
  ASSUME NEW S, IsFiniteSet(S), NEW f, NEW g, \A x \in S : f[x] \in Int /\ g[x] \in Int /\ f[x] <= g[x]
  PROVE  Total(f, S) <= Total(g, S)
<1> DEFINE F == {U \in SUBSET S : Total(f, U) <= Total(g, U)}
<1>1. {} \in F
  BY SumEmpty
<1>2. \A T \in SUBSET S, x \in S : T \in F /\ x \notin T => T \union {x} \in F
  <2> SUFFICES ASSUME NEW T \in SUBSET S, NEW x \in S, T \in F, x \notin T
               PROVE  Total(f, T \union {x}) <= Total(g, T \union {x})
    OBVIOUS
  <2> DEFINE V == T \union {x}
  <2>1. IsFiniteSet(V) /\ V \ {x} = T /\ \A y \in V : f[y] \in Int /\ g[y] \in Int
    BY FS_Subset
  <2>2. Total(f, V) = f[x] + Total(f, V \ {x})
    BY <2>1, SumRemove
  <2>3. Total(g, V) = g[x] + Total(g, V \ {x})
    BY <2>1, SumRemove
  <2>4. Total(f, T) \in Int /\ Total(g, T) \in Int
    BY FS_Subset, SumInt
  <2>5. Total(f, T) <= Total(g, T)
    OBVIOUS
  <2>6. f[x] \in Int /\ g[x] \in Int /\ f[x] <= g[x]
    OBVIOUS
  <2>7. Total(f, V) = f[x] + Total(f, T) /\ Total(g, V) = g[x] + Total(g, T)
    BY <2>1, <2>2, <2>3
  <2> QED
    BY <2>4, <2>5, <2>6, <2>7
<1> HIDE DEF F
<1>3. S \in F
  BY <1>1, <1>2, FiniteSetInduction
<1> QED
  BY <1>3 DEF F

(* One more element adds its own. *)
LEMMA SumAdd ==
  ASSUME NEW S, IsFiniteSet(S), NEW f, NEW a, a \notin S, \A x \in S \union {a} : f[x] \in Int
  PROVE  Total(f, S \union {a}) = f[a] + Total(f, S)
<1>1. IsFiniteSet(S \union {a}) /\ (S \union {a}) \ {a} = S
  BY FS_AddElement
<1> QED
  BY <1>1, SumRemove

-----------------------------------------------------------------------------
(* Sorting: what is finite and ordered by R has a last element, so it can be    *)
(* listed in order.                                                        *)
Orders(R, S) ==
  /\ \A x \in S : <<x, x>> \notin R
  /\ \A x, y \in S : x # y => <<x, y>> \in R \/ <<y, x>> \in R
  /\ \A x, y, z \in S : <<x, y>> \in R /\ <<y, z>> \in R => <<x, z>> \in R

(* A finite set that is ordered has a last element. *)
LEMMA LastExists ==
  ASSUME NEW S, IsFiniteSet(S), NEW R, Orders(R, S), S # {}
  PROVE  \E m \in S : \A y \in S : y # m => <<y, m>> \in R
<1> DEFINE F == {U \in SUBSET S : U # {} => \E m \in U : \A y \in U : y # m => <<y, m>> \in R}
<1>1. {} \in F
  OBVIOUS
<1>2. \A T \in SUBSET S, x \in S : T \in F /\ x \notin T => T \union {x} \in F
  <2> SUFFICES ASSUME NEW T \in SUBSET S, NEW x \in S, T \in F, x \notin T
               PROVE  \E m \in T \union {x} : \A y \in T \union {x} : y # m => <<y, m>> \in R
    OBVIOUS
  <2>1. CASE T = {}
    BY <2>1
  <2>2. CASE T # {}
    <3>1. PICK m \in T : \A y \in T : y # m => <<y, m>> \in R
      BY <2>2
    <3>2. CASE <<x, m>> \in R
      BY <3>1, <3>2
    <3>3. CASE <<m, x>> \in R
      BY <3>1, <3>3 DEF Orders
    <3> QED
      BY <3>1, <3>2, <3>3 DEF Orders
  <2> QED
    BY <2>1, <2>2
<1> HIDE DEF F
<1>3. S \in F
  BY <1>1, <1>2, FiniteSetInduction
<1> QED
  BY <1>3 DEF F

(* s lists S, each element once and in the order of R. *)
Listing(s, R, S) ==
  /\ s \in [1..Cardinality(S) -> S]
  /\ \A i, j \in 1..Cardinality(S) : i # j => s[i] # s[j]
  /\ \A i, j \in 1..Cardinality(S) : i < j => <<s[i], s[j]>> \in R

(* A finite set that is ordered can be listed in that order. *)
LEMMA ListingExists ==
  ASSUME NEW S, IsFiniteSet(S), NEW R, Orders(R, S)
  PROVE  \E s : Listing(s, R, S)
<1> DEFINE F == {U \in SUBSET S : \E s : Listing(s, R, U)}
<1>1. {} \in F
  <2>1. Cardinality({}) = 0
    BY FS_EmptySet
  <2>2. Listing(<<>>, R, {})
    BY <2>1 DEF Listing
  <2> QED
    BY <2>2
<1>2. ASSUME NEW n \in Nat, \A U \in SUBSET S : Cardinality(U) = n => U \in F
      PROVE  \A U \in SUBSET S : Cardinality(U) = n + 1 => U \in F
  <2> SUFFICES ASSUME NEW U \in SUBSET S, Cardinality(U) = n + 1 PROVE \E s : Listing(s, R, U)
    OBVIOUS
  <2>1. IsFiniteSet(U) /\ U # {} /\ Orders(R, U)
    BY FS_Subset, FS_EmptySet DEF Orders
  <2>2. PICK m \in U : \A y \in U : y # m => <<y, m>> \in R
    BY <2>1, LastExists
  <2>3. Cardinality(U \ {m}) = Cardinality(U) - 1
    BY <2>1, FS_RemoveElement
  <2>4. Cardinality(U \ {m}) = n /\ U \ {m} \in SUBSET S
    BY <2>3
  <2>5. PICK s : Listing(s, R, U \ {m})
    BY <1>2, <2>4
  <2> DEFINE t == [i \in 1..(n + 1) |-> IF i = n + 1 THEN m ELSE s[i]]
  <2>6. s \in [1..n -> U \ {m}]
    BY <2>4, <2>5 DEF Listing
  <2>7. t \in [1..(n + 1) -> U]
    BY <2>6
  <2>8. ASSUME NEW i \in 1..(n + 1), NEW j \in 1..(n + 1), i < j PROVE <<t[i], t[j]>> \in R
    <3>1. i \in 1..n /\ t[i] = s[i] /\ s[i] \in U \ {m}
      BY <2>6, <2>8
    <3>2. CASE j = n + 1
      BY <2>2, <3>1, <3>2
    <3>3. CASE j # n + 1
      <4>1. j \in 1..n /\ t[j] = s[j]
        BY <3>3
      <4> QED
        BY <2>4, <2>5, <2>8, <3>1, <4>1 DEF Listing
    <3> QED
      BY <3>2, <3>3
  <2>9. ASSUME NEW i \in 1..(n + 1), NEW j \in 1..(n + 1), i # j PROVE t[i] # t[j]
    <3>1. t[i] \in U /\ t[j] \in U
      BY <2>7
    <3> HIDE DEF t
    <3>2. i < j \/ j < i
      BY <2>9
    <3> QED
      BY <2>1, <2>8, <3>1, <3>2 DEF Orders
  <2>10. Listing(t, R, U)
    <3> HIDE DEF t
    <3> QED
      BY <2>7, <2>8, <2>9 DEF Listing
  <2> QED
    BY <2>10
<1> HIDE DEF F
<1>3. S \in F
  BY <1>1, <1>2, CardinalityInduction
<1> QED
  BY <1>3 DEF F

(* A listing leaves nothing out, as there are as many places as elements. *)
LEMMA ListingIsComplete ==
  ASSUME NEW S, IsFiniteSet(S), NEW s \in [1..Cardinality(S) -> S],
         \A i, j \in 1..Cardinality(S) : i # j => s[i] # s[j]
  PROVE  \A x \in S : \E i \in 1..Cardinality(S) : s[i] = x
<1> DEFINE N == 1..Cardinality(S)
           T == {s[i] : i \in N}
<1>1. Cardinality(S) \in Nat
  BY FS_CardinalityType
<1>2. IsFiniteSet(N) /\ Cardinality(N) = Cardinality(S)
  BY <1>1, FS_Interval
<1>3. s \in Bijection(N, T)
  BY DEF Bijection, Injection, Surjection, IsInjective
<1>4. IsFiniteSet(T) /\ Cardinality(T) = Cardinality(N)
  BY <1>2, <1>3, FS_Bijection DEF ExistsBijection
<1>5. T \subseteq S
  OBVIOUS
<1>6. T = S
  BY <1>2, <1>4, <1>5, FS_Subset
<1> QED
  BY <1>6
-----------------------------------------------------------------------------
(* Folds from left to right *)

Stepwise(step, n, X, base) == n \in Nat /\ base \in X /\ step \in [(1..n) \X X -> X]

(* g is a fold of such a loop over sets of places, the latest place last. *)
Folds(g, step, n, X, base) ==
  /\ g \in [SUBSET (1..n) -> X]
  /\ \A s \in SUBSET (1..n) : g[s] = IF s = {} THEN base ELSE step[<<Largest(s), g[s \ {Largest(s)}]>>]

(* it is defined as a fold of such a loop is. *)
Follows(it, step, n, X, base) ==
  /\ it = [s \in SUBSET (1..n) |-> it[s]] /\ it[{}] = base
  /\ \A s \in SUBSET (1..n) :
       s # {} /\ it[s \ {Largest(s)}] \in X => it[s] = step[<<Largest(s), it[s \ {Largest(s)}]>>]

(* The loop run from the first place to the last gives end. *)
RunsTo(end, step, n, X, base) ==
  \E run \in [0..n -> X] :
    /\ run[0] = base /\ run[n] = end
    /\ \A i \in 1..n : run[i] = step[<<i, run[i - 1]>>]

(* A recursion over places is a run of its loop. *)
LEMMA RunsOf ==
  ASSUME NEW n \in Nat, NEW X, NEW base \in X, NEW step \in [(1..n) \X X -> X],
         NEW it, Recursion(it, 1..n, X, base, step, Latest(n))
  PROVE  RunsTo(it[1..n], step, n, X, base)
<1>1. \E run \in [0..n -> X] :
        /\ run[0] = base /\ run[n] = it[1..n]
        /\ \A i \in 1..n : run[i] = step[<<i, run[i - 1]>>]
  BY RunOfRecursion
<1> QED
  BY <1>1 DEF RunsTo

(* Every such loop has a fold. *)
LEMMA FoldExists ==
  ASSUME NEW n, NEW X, NEW base, NEW step, Stepwise(step, n, X, base)
  PROVE  \E g : Folds(g, step, n, X, base)
<1> DEFINE pick == Latest(n)
<1>0. n \in Nat /\ base \in X /\ step \in [(1..n) \X X -> X]
  BY DEF Stepwise
<1>1. IsFiniteSet(1..n)
  BY <1>0, FS_Interval
<1>2. \A s \in SUBSET (1..n) : s # {} => pick[s] \in s
  BY <1>0, LatestIsIn
<1>3. \A s \in SUBSET (1..n) : pick[s] = Largest(s)
  BY DEF Latest
<1> HIDE DEF pick
<1>4. PICK g : Recursion(g, 1..n, X, base, step, pick)
  BY <1>0, <1>1, <1>2, RecursionOnSubsets
<1> QED
  BY <1>3, <1>4 DEF Recursion, Folds

(* What is defined as a fold runs the loop. *)
LEMMA FoldRuns ==
  ASSUME NEW n, NEW X, NEW base, NEW step, Stepwise(step, n, X, base),
         NEW it, Follows(it, step, n, X, base)
  PROVE  RunsTo(it[1..n], step, n, X, base)
<1> DEFINE pick == Latest(n)
<1>0. n \in Nat /\ base \in X /\ step \in [(1..n) \X X -> X]
  BY DEF Stepwise
<1>1. IsFiniteSet(1..n)
  BY <1>0, FS_Interval
<1>2. \A s \in SUBSET (1..n) : s # {} => pick[s] \in s
  BY <1>0, LatestIsIn
<1>3. \A s \in SUBSET (1..n) : pick[s] = Largest(s)
  BY DEF Latest
<1>4. /\ it = [s \in SUBSET (1..n) |-> it[s]] /\ it[{}] = base
      /\ \A s \in SUBSET (1..n) :
           s # {} /\ it[s \ {pick[s]}] \in X => it[s] = step[<<pick[s], it[s \ {pick[s]}]>>]
  BY <1>3 DEF Follows
<1> HIDE DEF pick
<1>5. Recursion(it, 1..n, X, base, step, pick)
  BY <1>0, <1>1, <1>2, <1>4, RecursionKeepsType
<1>6. Recursion(it, 1..n, X, base, step, Latest(n))
  BY <1>5 DEF pick
<1> QED
  BY <1>0, <1>6, RunsOf
(* More numbers that are not negative sum up to no less. *)
LEMMA SumOfMore ==
  ASSUME NEW S, IsFiniteSet(S), NEW f, \A x \in S : f[x] \in Nat, NEW T, T \subseteq S
  PROVE  Total(f, T) <= Total(f, S)
<1> DEFINE F == {U \in SUBSET S : \A V \in SUBSET U : Total(f, V) <= Total(f, U)}
<1>0. \A U \in SUBSET S : IsFiniteSet(U) /\ Total(f, U) \in Int
  <2> SUFFICES ASSUME NEW U \in SUBSET S PROVE IsFiniteSet(U) /\ Total(f, U) \in Int
    OBVIOUS
  <2>1. IsFiniteSet(U) /\ \A x \in U : f[x] \in Int
    BY FS_Subset
  <2> QED
    BY <2>1, SumInt
<1>1. {} \in F
  <2>1. \A V \in SUBSET {} : V = {}
    OBVIOUS
  <2> QED
    BY <1>0, <2>1
<1>2. \A U \in SUBSET S, x \in S : U \in F /\ x \notin U => U \union {x} \in F
  <2> SUFFICES ASSUME NEW U \in SUBSET S, NEW x \in S, U \in F, x \notin U,
                      NEW V \in SUBSET (U \union {x})
               PROVE  Total(f, V) <= Total(f, U \union {x})
    OBVIOUS
  <2>1. /\ Total(f, U \union {x}) = f[x] + Total(f, U)
        /\ f[x] \in Nat /\ Total(f, U) \in Int
    <3>1. \A y \in U \union {x} : f[y] \in Int
      OBVIOUS
    <3> QED
      BY <1>0, <3>1, SumAdd
  <2>2. CASE x \notin V
    <3>1. V \in SUBSET U
      BY <2>2
    <3>2. Total(f, V) <= Total(f, U) /\ Total(f, V) \in Int
      BY <1>0, <3>1
    <3> QED
      BY <2>1, <3>2
  <2>3. CASE x \in V
    <3>1. V \ {x} \in SUBSET U /\ V \in SUBSET S
      OBVIOUS
    <3>2. Total(f, V \ {x}) <= Total(f, U) /\ Total(f, V \ {x}) \in Int
      BY <1>0, <3>1
    <3>3. \A y \in V : f[y] \in Int
      OBVIOUS
    <3>4. Total(f, V) = f[x] + Total(f, V \ {x})
      BY <1>0, <2>3, <3>1, <3>3, SumRemove
    <3> QED
      BY <2>1, <3>2, <3>4
  <2> QED
    BY <2>2, <2>3
<1> HIDE DEF F
<1>3. S \in F
  BY <1>1, <1>2, FiniteSetInduction
<1> QED
  BY <1>3 DEF F
-----------------------------------------------------------------------------
(* Lists *)

Entries(s) == {s[i] : i \in DOMAIN s}

(* No entry of s is there twice. *)
OnceEach(s) == \A i, j \in DOMAIN s : s[i] = s[j] => i = j

(* The places and entries of a sequence. *)
LEMMA ListIs ==
  ASSUME NEW X, NEW s \in Seq(X)
  PROVE  /\ Len(s) \in Nat /\ DOMAIN s = 1..Len(s)
         /\ \A i \in DOMAIN s : s[i] \in Entries(s) /\ s[i] \in X
         /\ \A x \in Entries(s) : \E i \in DOMAIN s : s[i] = x
         /\ s = <<>> <=> Entries(s) = {}
<1>1. Len(s) \in Nat /\ DOMAIN s = 1..Len(s) /\ \A i \in DOMAIN s : s[i] \in X
  OBVIOUS
<1>2. /\ \A i \in DOMAIN s : s[i] \in Entries(s)
      /\ \A x \in Entries(s) : \E i \in DOMAIN s : s[i] = x
  BY DEF Entries
<1>3. ASSUME Entries(s) = {} PROVE s = <<>>
  <2>1. DOMAIN s = {}
    BY <1>2, <1>3
  <2>2. Len(s) = 0
    BY <1>1, <2>1
  <2> QED
    BY <2>2
<1>4. ASSUME s = <<>> PROVE Entries(s) = {}
  <2>1. DOMAIN s = {}
    BY <1>4
  <2> QED
    BY <1>2, <2>1
<1> QED
  BY <1>1, <1>2, <1>3, <1>4

(* Appending adds one entry. *)
LEMMA AppendEntries ==
  ASSUME NEW X, NEW s \in Seq(X), NEW x \in X
  PROVE  /\ Entries(Append(s, x)) = Entries(s) \union {x}
         /\ Len(Append(s, x)) = Len(s) + 1 /\ Append(s, x) \in Seq(X)
<1> DEFINE t == Append(s, x)
<1>1. /\ t \in Seq(X) /\ Len(t) = Len(s) + 1 /\ Len(s) \in Nat
      /\ DOMAIN t = 1..(Len(s) + 1) /\ DOMAIN s = 1..Len(s)
      /\ \A i \in 1..Len(s) : t[i] = s[i]
      /\ t[Len(s) + 1] = x
  OBVIOUS
<1> HIDE DEF t
<1>2. \A y \in Entries(s) : y \in Entries(t)
  <2> SUFFICES ASSUME NEW i \in DOMAIN s PROVE s[i] \in Entries(t)
    BY DEF Entries
  <2>1. i \in DOMAIN t /\ t[i] = s[i]
    BY <1>1
  <2> QED
    BY <2>1 DEF Entries
<1>3. x \in Entries(t)
  <2>1. Len(s) + 1 \in DOMAIN t
    BY <1>1
  <2> QED
    BY <1>1, <2>1 DEF Entries
<1>4. \A y \in Entries(t) : y \in Entries(s) \union {x}
  <2> SUFFICES ASSUME NEW i \in DOMAIN t PROVE t[i] \in Entries(s) \union {x}
    BY DEF Entries
  <2>1. CASE i = Len(s) + 1
    BY <1>1, <2>1
  <2>2. CASE i # Len(s) + 1
    <3>1. i \in DOMAIN s /\ t[i] = s[i]
      BY <1>1, <2>2
    <3> QED
      BY <3>1 DEF Entries
  <2> QED
    BY <2>1, <2>2
<1> QED
  BY <1>1, <1>2, <1>3, <1>4 DEF t

(* Appending what is not there keeps entries single. *)
LEMMA AppendOnce ==
  ASSUME NEW X, NEW s \in Seq(X), NEW x \in X, x \notin Entries(s), OnceEach(s)
  PROVE  OnceEach(Append(s, x))
<1> DEFINE t == Append(s, x)
<1>1. /\ t \in Seq(X) /\ Len(t) = Len(s) + 1 /\ Len(s) \in Nat
      /\ DOMAIN t = 1..(Len(s) + 1) /\ DOMAIN s = 1..Len(s)
      /\ \A i \in 1..Len(s) : t[i] = s[i]
      /\ t[Len(s) + 1] = x
  OBVIOUS
<1> HIDE DEF t
<1>2. \A i \in DOMAIN s : s[i] # x
  BY DEF Entries
<1>3. ASSUME NEW i \in DOMAIN t, NEW j \in DOMAIN t, t[i] = t[j] PROVE i = j
  <2>1. CASE i = Len(s) + 1 /\ j # Len(s) + 1
    BY <1>1, <1>2, <1>3, <2>1
  <2>2. CASE i # Len(s) + 1 /\ j = Len(s) + 1
    BY <1>1, <1>2, <1>3, <2>2
  <2>3. CASE i # Len(s) + 1 /\ j # Len(s) + 1
    BY <1>1, <1>3, <2>3 DEF OnceEach
  <2> QED
    BY <2>1, <2>2, <2>3
<1> QED
  BY <1>3 DEF OnceEach, t

(* A loop that takes what it has not seen yet takes everything once, the      *)
(* first thing first.                                                      *)
TakenOnce(i, list, s) ==
  /\ OnceEach(list) /\ Entries(list) = {s[j] : j \in 1..i}
  /\ i > 0 => Len(list) > 0 /\ list[1] = s[1]

(* Appending an entry that is new, and only then, keeps what TakenOnce says. *)
LEMMA TakeOnce ==
  ASSUME NEW X, NEW s \in Seq(X), NEW i \in 1..Len(s), NEW list \in Seq(X), TakenOnce(i - 1, list, s),
         NEW next, next = IF s[i] \in Entries(list) THEN list ELSE Append(list, s[i])
  PROVE  TakenOnce(i, next, s)
<1>1. /\ i \in Nat /\ i > 0 /\ 1..i = 1..(i - 1) \union {i} /\ s[i] \in X
      /\ Len(list) \in Nat /\ DOMAIN list = 1..Len(list)
  OBVIOUS
<1>2. {s[j] : j \in 1..i} = {s[j] : j \in 1..(i - 1)} \union {s[i]}
  BY <1>1
<1>3. /\ OnceEach(list) /\ Entries(list) = {s[j] : j \in 1..(i - 1)}
      /\ i - 1 > 0 => Len(list) > 0 /\ list[1] = s[1]
  BY DEF TakenOnce
<1>4. CASE s[i] \in Entries(list)
  <2>1. next = list /\ Entries(list) = {s[j] : j \in 1..i}
    BY <1>2, <1>3, <1>4
  <2>2. i # 1
    BY <1>3, <1>4
  <2>3. Len(list) > 0 /\ list[1] = s[1]
    BY <1>1, <1>3, <2>2
  <2> QED
    BY <1>3, <2>1, <2>3 DEF TakenOnce
<1>5. CASE s[i] \notin Entries(list)
  <2>1. next = Append(list, s[i])
    BY <1>5
  <2>2. OnceEach(next)
    BY <1>1, <1>3, <1>5, <2>1, AppendOnce
  <2>3. Entries(next) = {s[j] : j \in 1..i}
    BY <1>1, <1>2, <1>3, <2>1, AppendEntries
  <2>4. Len(next) = Len(list) + 1 /\ Len(next) > 0
    BY <1>1, <2>1
  <2>5. next[1] = s[1]
    <3>1. CASE i = 1
      <4>1. Entries(list) = {}
        BY <1>3, <3>1
      <4>2. list = <<>>
        BY <4>1, ListIs
      <4>3. Len(list) = 0
        BY <4>2
      <4>4. next[Len(list) + 1] = s[i]
        BY <1>1, <2>1
      <4> QED
        BY <3>1, <4>3, <4>4
    <3>2. CASE i # 1
      <4>1. Len(list) > 0 /\ list[1] = s[1]
        BY <1>1, <1>3, <3>2
      <4> QED
        BY <1>1, <2>1, <4>1
    <3> QED
      BY <3>1, <3>2
  <2> QED
    BY <2>2, <2>3, <2>4, <2>5 DEF TakenOnce
<1> QED
  BY <1>4, <1>5

(* A loop that appends what is new keeps all entries, each once, the first in *)
(* front.                                                                     *)
LEMMA Deduplicated ==
  ASSUME NEW X, NEW s \in Seq(X), NEW n, n = Len(s),
         NEW run \in [0..n -> Seq(X)], run[0] = <<>>,
         \A i \in 1..n : run[i] = IF s[i] \in Entries(run[i - 1]) THEN run[i - 1] ELSE Append(run[i - 1], s[i])
  PROVE  /\ run[n] \in Seq(X) /\ OnceEach(run[n]) /\ Entries(run[n]) = Entries(s)
         /\ n > 0 => Len(run[n]) > 0 /\ run[n][1] = s[1]
<1> DEFINE N == {i \in Nat : i <= n => TakenOnce(i, run[i], s)}
<1>1. n \in Nat /\ DOMAIN s = 1..n /\ run[n] \in Seq(X)
  OBVIOUS
<1>2. 0 \in N
  <2>1. OnceEach(<<>>) /\ Entries(<<>>) = {} /\ {s[j] : j \in 1..0} = {}
    BY DEF OnceEach, Entries
  <2>2. TakenOnce(0, run[0], s)
    BY <2>1 DEF TakenOnce
  <2> QED
    BY <2>2
<1>3. ASSUME NEW i \in Nat, i \in N PROVE i + 1 \in N
  <2> SUFFICES ASSUME i + 1 <= n PROVE TakenOnce(i + 1, run[i + 1], s)
    OBVIOUS
  <2>1. i + 1 \in 1..n /\ i \in 0..n /\ i <= n /\ (i + 1) - 1 = i
    BY <1>1
  <2>2. TakenOnce(i, run[i], s) /\ run[i] \in Seq(X)
    BY <1>3, <2>1
  <2>3. run[i + 1] = IF s[i + 1] \in Entries(run[i]) THEN run[i] ELSE Append(run[i], s[i + 1])
    BY <2>1
  <2> QED
    BY <2>1, <2>2, <2>3, TakeOnce
<1>4. Nat \subseteq N
  <2> HIDE DEF N
  <2> QED BY <1>2, <1>3, NatSetInduction
<1>5. TakenOnce(n, run[n], s)
  BY <1>1, <1>4
<1>6. Entries(s) = {s[j] : j \in 1..n}
  BY <1>1 DEF Entries
<1> QED
  BY <1>1, <1>5, <1>6 DEF TakenOnce

(* What is listed once each is as many as the list is long. *)
LEMMA OnceEachCounts ==
  ASSUME NEW X, NEW s \in Seq(X), OnceEach(s)
  PROVE  Cardinality(Entries(s)) = Len(s)
<1> DEFINE N == 1..Len(s)
           T == Entries(s)
<1>1. Len(s) \in Nat /\ DOMAIN s = N
  OBVIOUS
<1>2. IsFiniteSet(N) /\ Cardinality(N) = Len(s)
  BY <1>1, FS_Interval
<1>3. T = {s[i] : i \in N}
  BY <1>1 DEF Entries
<1>4. s \in [N -> T]
  BY <1>1, <1>3
<1> HIDE DEF N, T
<1>5. s \in Bijection(N, T)
  BY <1>1, <1>3, <1>4 DEF Bijection, Injection, Surjection, IsInjective, OnceEach
<1>6. Cardinality(T) = Cardinality(N)
  BY <1>2, <1>5, FS_Bijection DEF ExistsBijection
<1> QED
  BY <1>2, <1>6 DEF T
-----------------------------------------------------------------------------
(* A list of lists that splits the elements of S between them *)

Splits(w, S, X, size) ==
  /\ w \in Seq(Seq(X))
  /\ \A i \in DOMAIN w : OnceEach(w[i]) /\ Len(w[i]) \in 1..size /\ Entries(w[i]) \subseteq S
  /\ \A i, j \in DOMAIN w : i # j => Entries(w[i]) \cap Entries(w[j]) = {}
  /\ \A x \in S : \E i \in DOMAIN w : x \in Entries(w[i])

(* The places and entries of two sequences joined. *)
LEMMA JoinIs ==
  ASSUME NEW Y, NEW u \in Seq(Y), NEW v \in Seq(Y)
  PROVE  /\ u \o v \in Seq(Y) /\ Len(u \o v) = Len(u) + Len(v) /\ DOMAIN (u \o v) = 1..(Len(u) + Len(v))
         /\ Len(u) \in Nat /\ Len(v) \in Nat /\ DOMAIN u = 1..Len(u) /\ DOMAIN v = 1..Len(v)
         /\ \A i \in DOMAIN u : (u \o v)[i] = u[i]
         /\ \A j \in DOMAIN v : (u \o v)[Len(u) + j] = v[j]
         /\ \A i \in DOMAIN (u \o v) : i \in DOMAIN u \/ \E j \in DOMAIN v : i = Len(u) + j
<1>1. /\ u \o v \in Seq(Y) /\ Len(u \o v) = Len(u) + Len(v)
      /\ Len(u) \in Nat /\ Len(v) \in Nat /\ DOMAIN u = 1..Len(u) /\ DOMAIN v = 1..Len(v)
  OBVIOUS
<1>2. DOMAIN (u \o v) = 1..(Len(u) + Len(v))
  BY <1>1
<1>3. ASSUME NEW i \in DOMAIN u PROVE (u \o v)[i] = u[i]
  OBVIOUS
<1>4. ASSUME NEW j \in DOMAIN v PROVE (u \o v)[Len(u) + j] = v[j]
  OBVIOUS
<1>5. ASSUME NEW i \in DOMAIN (u \o v), i \notin DOMAIN u PROVE \E j \in DOMAIN v : i = Len(u) + j
  <2>1. i - Len(u) \in DOMAIN v /\ i = Len(u) + (i - Len(u))
    BY <1>1, <1>2, <1>5
  <2> QED
    BY <2>1
<1> QED
  BY <1>1, <1>2, <1>3, <1>4, <1>5

(* Splits of two sets that are apart make a split of both. *)
LEMMA SplitsJoin ==
  ASSUME NEW X, NEW size, NEW u, NEW v, NEW S, NEW T,
         Splits(u, S, X, size), Splits(v, T, X, size), S \cap T = {}
  PROVE  Splits(u \o v, S \union T, X, size)
<1> DEFINE w == u \o v
<1>1. u \in Seq(Seq(X)) /\ v \in Seq(Seq(X))
  BY DEF Splits
<1>2. /\ w \in Seq(Seq(X)) /\ DOMAIN w = 1..(Len(u) + Len(v))
      /\ Len(u) \in Nat /\ Len(v) \in Nat /\ DOMAIN u = 1..Len(u) /\ DOMAIN v = 1..Len(v)
      /\ \A i \in DOMAIN u : w[i] = u[i]
      /\ \A j \in DOMAIN v : w[Len(u) + j] = v[j]
      /\ \A i \in DOMAIN w : i \in DOMAIN u \/ \E j \in DOMAIN v : i = Len(u) + j
  BY <1>1, JoinIs
<1> HIDE DEF w
<1>3. /\ \A i \in DOMAIN u : OnceEach(u[i]) /\ Len(u[i]) \in 1..size /\ Entries(u[i]) \subseteq S
      /\ \A i, j \in DOMAIN u : i # j => Entries(u[i]) \cap Entries(u[j]) = {}
      /\ \A x \in S : \E i \in DOMAIN u : x \in Entries(u[i])
  BY DEF Splits
<1>4. /\ \A i \in DOMAIN v : OnceEach(v[i]) /\ Len(v[i]) \in 1..size /\ Entries(v[i]) \subseteq T
      /\ \A i, j \in DOMAIN v : i # j => Entries(v[i]) \cap Entries(v[j]) = {}
      /\ \A x \in T : \E i \in DOMAIN v : x \in Entries(v[i])
  BY DEF Splits
<1>5. ASSUME NEW i \in DOMAIN w
      PROVE  OnceEach(w[i]) /\ Len(w[i]) \in 1..size /\ Entries(w[i]) \subseteq S \union T
  <2>1. CASE i \in DOMAIN u
    BY <1>2, <1>3, <2>1
  <2>2. ASSUME NEW j \in DOMAIN v, i = Len(u) + j
        PROVE  OnceEach(w[i]) /\ Len(w[i]) \in 1..size /\ Entries(w[i]) \subseteq S \union T
    BY <1>2, <1>4, <2>2
  <2> QED
    BY <1>2, <2>1, <2>2
<1>6. ASSUME NEW i \in DOMAIN u, NEW j \in DOMAIN v PROVE Entries(w[i]) \cap Entries(w[Len(u) + j]) = {}
  BY <1>2, <1>3, <1>4
<1>7. ASSUME NEW i \in DOMAIN w, NEW j \in DOMAIN w, i # j PROVE Entries(w[i]) \cap Entries(w[j]) = {}
  <2>1. CASE i \in DOMAIN u /\ j \in DOMAIN u
    BY <1>2, <1>3, <1>7, <2>1
  <2>2. CASE i \in DOMAIN u /\ j \notin DOMAIN u
    BY <1>2, <1>6, <2>2
  <2>3. CASE i \notin DOMAIN u /\ j \in DOMAIN u
    BY <1>2, <1>6, <2>3
  <2>4. CASE i \notin DOMAIN u /\ j \notin DOMAIN u
    <3>1. PICK k \in DOMAIN v : i = Len(u) + k
      BY <1>2, <2>4
    <3>2. PICK l \in DOMAIN v : j = Len(u) + l
      BY <1>2, <2>4
    <3>3. k # l
      BY <1>7, <3>1, <3>2
    <3> QED
      BY <1>2, <1>4, <3>1, <3>2, <3>3
  <2> QED
    BY <2>1, <2>2, <2>3, <2>4
<1>8. ASSUME NEW x \in S \union T PROVE \E i \in DOMAIN w : x \in Entries(w[i])
  <2>1. ASSUME NEW i \in DOMAIN u PROVE i \in DOMAIN w
    BY <1>2
  <2>2. ASSUME NEW j \in DOMAIN v PROVE Len(u) + j \in DOMAIN w
    BY <1>2
  <2>3. CASE x \in S
    BY <1>2, <1>3, <2>1, <2>3
  <2>4. CASE x \in T
    BY <1>2, <1>4, <2>2, <2>4
  <2> QED
    BY <2>3, <2>4
<1> QED
  BY <1>2, <1>5, <1>7, <1>8 DEF Splits, w

(* Joining sequences without a common entry keeps entries single. *)
LEMMA JoinOnce ==
  ASSUME NEW X, NEW s \in Seq(X), NEW t \in Seq(X), OnceEach(s), OnceEach(t), Entries(s) \cap Entries(t) = {}
  PROVE  s \o t \in Seq(X) /\ OnceEach(s \o t) /\ Entries(s \o t) = Entries(s) \union Entries(t)
<1> DEFINE w == s \o t
<1>1. /\ w \in Seq(X) /\ DOMAIN w = 1..(Len(s) + Len(t))
      /\ Len(s) \in Nat /\ Len(t) \in Nat /\ DOMAIN s = 1..Len(s) /\ DOMAIN t = 1..Len(t)
      /\ \A i \in DOMAIN s : w[i] = s[i]
      /\ \A j \in DOMAIN t : w[Len(s) + j] = t[j]
      /\ \A i \in DOMAIN w : i \in DOMAIN s \/ \E j \in DOMAIN t : i = Len(s) + j
  BY JoinIs
<1> HIDE DEF w
<1>2. \A i \in DOMAIN s, j \in DOMAIN t : s[i] # t[j]
  BY DEF Entries
<1>3. ASSUME NEW i \in DOMAIN w, NEW j \in DOMAIN w, w[i] = w[j] PROVE i = j
  <2>1. CASE i \in DOMAIN s /\ j \in DOMAIN s
    BY <1>1, <1>3, <2>1 DEF OnceEach
  <2>2. CASE i \in DOMAIN s /\ j \notin DOMAIN s
    BY <1>1, <1>2, <1>3, <2>2
  <2>3. CASE i \notin DOMAIN s /\ j \in DOMAIN s
    BY <1>1, <1>2, <1>3, <2>3
  <2>4. CASE i \notin DOMAIN s /\ j \notin DOMAIN s
    <3>1. PICK k \in DOMAIN t : i = Len(s) + k
      BY <1>1, <2>4
    <3>2. PICK l \in DOMAIN t : j = Len(s) + l
      BY <1>1, <2>4
    <3>3. k = l
      BY <1>1, <1>3, <3>1, <3>2 DEF OnceEach
    <3> QED
      BY <3>1, <3>2, <3>3
  <2> QED
    BY <2>1, <2>2, <2>3, <2>4
<1>4. Entries(w) = Entries(s) \union Entries(t)
  <2>1. \A i \in DOMAIN w : w[i] \in Entries(s) \union Entries(t)
    BY <1>1 DEF Entries
  <2>2. \A i \in DOMAIN s : i \in DOMAIN w
    BY <1>1
  <2>3. \A j \in DOMAIN t : Len(s) + j \in DOMAIN w
    BY <1>1
  <2>4. \A i \in DOMAIN s : s[i] \in Entries(w)
    BY <1>1, <2>2 DEF Entries
  <2>5. \A j \in DOMAIN t : t[j] \in Entries(w)
    BY <1>1, <2>3 DEF Entries
  <2> QED
    BY <2>1, <2>4, <2>5 DEF Entries
<1> QED
  BY <1>1, <1>3, <1>4 DEF OnceEach, w

(* Every loop comes to an end. *)
LEMMA StepsExist ==
  ASSUME NEW n, NEW X, NEW base, NEW step, Stepwise(step, n, X, base)
  PROVE  \E end : RunsTo(end, step, n, X, base)
<1>1. n \in Nat /\ base \in X /\ step \in [(1..n) \X X -> X]
  BY DEF Stepwise
<1>2. IsFiniteSet(1..n)
  BY <1>1, FS_Interval
<1>3. \A s \in SUBSET (1..n) : s # {} => Latest(n)[s] \in s
  BY <1>1, LatestIsIn
<1>4. PICK it : Recursion(it, 1..n, X, base, step, Latest(n))
  BY <1>1, <1>2, <1>3, RecursionOnSubsets
<1> QED
  BY <1>1, <1>4, RunsOf

(* Joined one after the other, the lists hold each element of S once. *)
Joined(w, flat) == flat = [i \in 1..Len(w) |-> IF i = 1 THEN w[i] ELSE flat[i - 1] \o w[i]]

(* The waves can be joined one after the other. *)
LEMMA JoinedExists ==
  ASSUME NEW X, NEW w \in Seq(Seq(X))
  PROVE  \E flat : Joined(w, flat)
<1> DEFINE n == Len(w)
           Y == Seq(X)
           step == [p \in (1..n) \X Y |-> p[2] \o w[p[1]]]
<1>1. n \in Nat /\ \A i \in 1..n : w[i] \in Y
  OBVIOUS
<1>2. step \in [(1..n) \X Y -> Y] /\ <<>> \in Y
  BY <1>1
<1>3. Stepwise(step, n, Y, <<>>)
  BY <1>1, <1>2 DEF Stepwise
<1>4. PICK end : RunsTo(end, step, n, Y, <<>>)
  <2> HIDE DEF step, Y, n
  <2> QED BY <1>3, StepsExist
<1>5. PICK run \in [0..n -> Y] : run[0] = <<>> /\ \A i \in 1..n : run[i] = step[<<i, run[i - 1]>>]
  <2> HIDE DEF step, Y, n
  <2> QED BY <1>4 DEF RunsTo
<1> DEFINE flat == [i \in 1..n |-> run[i]]
<1>6. ASSUME NEW i \in 1..n PROVE run[i] = IF i = 1 THEN w[i] ELSE flat[i - 1] \o w[i]
  <2>a. i \in 1..n /\ i - 1 \in 0..n
    <3> HIDE DEF n
    <3> QED BY <1>1
  <2>1. run[i - 1] \in Y /\ w[i] \in Y
    <3> HIDE DEF n, Y
    <3> QED BY <1>1, <2>a
  <2>2. run[i] = run[i - 1] \o w[i]
    <3>1. step[<<i, run[i - 1]>>] = run[i - 1] \o w[i]
      <4> HIDE DEF n, Y
      <4> QED BY <2>1, <2>a
    <3> QED
      BY <1>5, <3>1
  <2>3. CASE i = 1
    <3>1. run[i - 1] = <<>>
      BY <1>5, <2>3
    <3>2. <<>> \o w[i] = w[i]
      BY <2>1
    <3> QED
      BY <2>2, <2>3, <3>1, <3>2
  <2>4. CASE i # 1
    <3>1. i - 1 \in 1..n
      <4> HIDE DEF n
      <4> QED BY <1>1, <2>a, <2>4
    <3>2. flat[i - 1] = run[i - 1]
      <4> HIDE DEF n
      <4> QED BY <3>1
    <3> HIDE DEF flat, n, Y
    <3> QED
      BY <2>2, <2>4, <3>2
  <2> QED
    BY <2>3, <2>4
<1> QED
  BY <1>6 DEF Joined

(* Joined waves hold what the waves hold, each once. *)
LEMMA JoinedHoldsAll ==
  ASSUME NEW X, NEW size, NEW w, NEW S, Splits(w, S, X, size), Len(w) > 0, NEW flat, Joined(w, flat)
  PROVE  flat[Len(w)] \in Seq(X) /\ OnceEach(flat[Len(w)]) /\ Entries(flat[Len(w)]) = S
<1> DEFINE n == Len(w)
           Upto(i) == UNION {Entries(w[j]) : j \in 1..i}
           Good(i) == flat[i] \in Seq(X) /\ OnceEach(flat[i]) /\ Entries(flat[i]) = Upto(i)
           N == {i \in Nat : i + 1 <= n => Good(i + 1)}
<1>1. w \in Seq(Seq(X)) /\ n \in Nat /\ DOMAIN w = 1..n /\ \A i \in 1..n : w[i] \in Seq(X)
  BY DEF Splits
<1>2. /\ \A i \in 1..n : OnceEach(w[i]) /\ Entries(w[i]) \subseteq S
      /\ \A i, j \in 1..n : i # j => Entries(w[i]) \cap Entries(w[j]) = {}
      /\ \A x \in S : \E i \in 1..n : x \in Entries(w[i])
  BY <1>1 DEF Splits
<1>3. n > 0
  OBVIOUS
<1> HIDE DEF n
<1>4. \A i \in 1..n : flat[i] = IF i = 1 THEN w[i] ELSE flat[i - 1] \o w[i]
  <2> DEFINE f == flat
  <2>1. f = [i \in 1..n |-> IF i = 1 THEN w[i] ELSE f[i - 1] \o w[i]]
    BY DEF Joined, n
  <2> HIDE DEF f
  <2>2. \A i \in 1..n : f[i] = IF i = 1 THEN w[i] ELSE f[i - 1] \o w[i]
    BY <2>1
  <2> QED
    BY <2>2 DEF f
<1>5. 0 \in N
  <2>1. flat[1] = w[1] /\ 1 \in 1..n
    BY <1>1, <1>3, <1>4
  <2>2. Upto(1) = Entries(w[1])
    <3>1. 1..1 = {1}
      OBVIOUS
    <3> QED
      BY <3>1
  <2> HIDE DEF Upto
  <2>3. Good(0 + 1)
    BY <1>1, <1>2, <2>1, <2>2
  <2> HIDE DEF Good
  <2> QED
    BY <2>3
<1>6. ASSUME NEW k \in Nat, k \in N PROVE k + 1 \in N
  <2> SUFFICES ASSUME (k + 1) + 1 <= n PROVE Good((k + 1) + 1)
    OBVIOUS
  <2> DEFINE i == k + 1
  <2>1. i \in 1..n /\ i + 1 \in 1..n /\ i + 1 # 1 /\ (i + 1) - 1 = i /\ i <= n
    BY <1>1
  <2>2. Good(i)
    <3> HIDE DEF Good
    <3> QED BY <1>6, <2>1
  <2> HIDE DEF i
  <2>3. flat[i + 1] = flat[i] \o w[i + 1]
    BY <1>4, <2>1
  <2>4. 1..(i + 1) = 1..i \union {i + 1}
    BY <2>1
  <2>5. Upto(i + 1) = Upto(i) \union Entries(w[i + 1])
    BY <2>4
  <2>6. \A j \in 1..i : j \in 1..n /\ j # i + 1
    BY <1>1, <2>1
  <2>7. Upto(i) \cap Entries(w[i + 1]) = {}
    <3>1. \A j \in 1..i : Entries(w[j]) \cap Entries(w[i + 1]) = {}
      BY <1>2, <2>1, <2>6
    <3> QED
      BY <3>1
  <2>8. flat[i] \in Seq(X) /\ OnceEach(flat[i]) /\ Entries(flat[i]) = Upto(i)
    BY <2>2
  <2> HIDE DEF Upto, Good
  <2>9. Entries(flat[i]) \cap Entries(w[i + 1]) = {}
    BY <2>7, <2>8
  <2>10. /\ flat[i + 1] \in Seq(X) /\ OnceEach(flat[i + 1])
         /\ Entries(flat[i + 1]) = Entries(flat[i]) \union Entries(w[i + 1])
    BY <1>1, <1>2, <2>1, <2>3, <2>8, <2>9, JoinOnce
  <2> QED
    BY <2>5, <2>8, <2>10 DEF Good, i
<1>7. Nat \subseteq N
  <2> HIDE DEF N
  <2> QED BY <1>5, <1>6, NatSetInduction
<1>8. Good(n)
  <2> HIDE DEF Good
  <2>1. n - 1 \in Nat /\ (n - 1) + 1 = n /\ n <= n
    BY <1>1, <1>3
  <2>2. n - 1 \in N
    BY <1>7, <2>1
  <2>3. Good((n - 1) + 1)
    BY <2>1, <2>2
  <2> QED
    BY <2>1, <2>3
<1>9. Upto(n) = S
  BY <1>2
<1> HIDE DEF Upto
<1> QED
  BY <1>8, <1>9 DEF n

-----------------------------------------------------------------------------
(* AnswerEvidence                                                          *)

LEMMA AnswersTotal ==
  ASSUME NEW f, NEW S
  PROVE  Answers!SumFunctionOnSet(f, S) = Total(f, S)
  BY DEF Answers!SumFunctionOnSet, Answers!FoldFunctionOnSet, Answers!MapThenFoldSet, Total, PartialSums, Any

(* What a row of the table says of a claim *)
ClaimRows ==
  [size : Nat, usable : BOOLEAN, match : Nat, claim_type : {"verified-fact", "estimate", "inference"},
   confidence : {"high", "medium", "low"}]

(* Every key has such a row. *)
ClaimsTyped == claims \in [Answers!Keys -> ClaimRows]

(* There are finitely many keys. *)
LEMMA KeysFinite ==
  ASSUME NEW S, S \subseteq Answers!Keys
  PROVE  IsFiniteSet(S) /\ Cardinality(S) \in Nat
<1>1. IsFiniteSet(1..4)
  <2>1. \A a, b \in Int : IsFiniteSet(a..b)
    BY FS_Interval
  <2>2. 1 \in Int /\ 4 \in Int
    OBVIOUS
  <2> QED
    BY <2>1, <2>2
<1> QED
  BY <1>1, FS_Subset, FS_CardinalityType DEF Answers!Keys

(* The cardinality the component uses is the module's. *)
LEMMA AnswersCardinality ==
  ASSUME NEW S
  PROVE  Answers!Cardinality(S) = Cardinality(S)
  BY DEF Answers!Cardinality, Cardinality

(* Size is a sum: 0 of no claim, and more by a claim's own size with each     *)
(* claim.                                                                     *)
LEMMA SizeIsSum ==
  ASSUME ClaimsTyped, NEW S, S \subseteq Answers!Keys
  PROVE  /\ Answers!Size({}) = 0 /\ Answers!Size(S) \in Int
         /\ \A k \in Answers!Keys \ S : Answers!Size(S \union {k}) = Answers!Size(S) + claims[k].size
<1> DEFINE f == [k \in Answers!Keys |-> claims[k].size]
<1>1. \A T : Answers!Size(T) = Total(f, T)
  BY AnswersTotal DEF Answers!Size
<1>2. \A k \in Answers!Keys : f[k] = claims[k].size /\ f[k] \in Int
  BY DEF ClaimsTyped, ClaimRows
<1> HIDE DEF f
<1>3. Total(f, {}) = 0
  BY SumEmpty
<1>4. Total(f, S) \in Int
  BY <1>2, KeysFinite, SumInt
<1>5. ASSUME NEW k \in Answers!Keys, k \notin S PROVE Total(f, S \union {k}) = f[k] + Total(f, S)
  <2>1. \A x \in S \union {k} : f[x] \in Int
    BY <1>2
  <2> QED
    BY <1>5, <2>1, KeysFinite, SumAdd
<1>6. ASSUME NEW k \in Answers!Keys, k \notin S
      PROVE  Answers!Size(S \union {k}) = Answers!Size(S) + claims[k].size
  <2>1. Total(f, S \union {k}) = f[k] + Total(f, S)
    BY <1>5, <1>6
  <2>2. f[k] \in Int /\ f[k] = claims[k].size
    BY <1>2
  <2> QED
    BY <1>1, <1>4, <2>1, <2>2
<1> QED
  BY <1>1, <1>3, <1>4, <1>6

(* Relevance puts claims in one order. *)
LEMMA RelevanceOrders ==
  ASSUME ClaimsTyped
  PROVE  \A j, k, l \in Answers!Keys :
           /\ ~Answers!Before(j, j)
           /\ j # k => Answers!Before(j, k) \/ Answers!Before(k, j)
           /\ Answers!Before(j, k) /\ Answers!Before(k, l) => Answers!Before(j, l)
<1> DEFINE rank == [k \in Answers!Keys |-> Answers!ConfidenceRank[claims[k].confidence]]
           match == [k \in Answers!Keys |-> claims[k].match]
<1>1. ASSUME NEW k \in Answers!Keys
      PROVE  k \in Nat /\ rank[k] \in Nat /\ match[k] \in Nat
  BY DEF ClaimsTyped, ClaimRows, Answers!ConfidenceRank, Answers!Keys
<1>2. \A j, k \in Answers!Keys : rank[j] = rank[k] <=> claims[j].confidence = claims[k].confidence
  <2>1. \A x, y \in {"high", "medium", "low"} :
          Answers!ConfidenceRank[x] = Answers!ConfidenceRank[y] <=> x = y
    BY DEF Answers!ConfidenceRank
  <2> QED
    BY <2>1 DEF ClaimsTyped, ClaimRows
<1>3. \A j, k \in Answers!Keys : Answers!Before(j, k) <=>
        \/ match[j] > match[k]
        \/ match[j] = match[k] /\ (rank[j] < rank[k] \/ (rank[j] = rank[k] /\ j < k))
  BY <1>2 DEF Answers!Before
<1> HIDE DEF rank, match
<1> QED
  BY <1>1, <1>3

(* s lists S once, by relevance, and all of it. *)
Sorted(s, S) ==
  /\ s \in [1..Cardinality(S) -> S]
  /\ \A i, j \in 1..Cardinality(S) : i # j => s[i] # s[j]
  /\ \A i, j \in 1..Cardinality(S) : i < j => Answers!Before(s[i], s[j])
  /\ \A k \in S : \E i \in 1..Cardinality(S) : s[i] = k

(* The order in which the claims of an item are tried is by relevance, and    *)
(* complete.                                                                  *)
LEMMA SortedByRelevance ==
  ASSUME ClaimsTyped, NEW S, S \subseteq Answers!Keys
  PROVE  Sorted(Answers!ByRelevance(S), S)
<1> DEFINE n == Cardinality(S)
           R == {p \in S \X S : Answers!Before(p[1], p[2])}
           Q(s) == s \in Answers!SetToSeqs(S) /\ \A i, j \in DOMAIN s : i < j => Answers!Before(s[i], s[j])
<1>1. IsFiniteSet(S) /\ n \in Nat
  BY KeysFinite
<1>2. Orders(R, S)
  BY RelevanceOrders DEF Orders
<1>3. PICK t : Listing(t, R, S)
  <2> HIDE DEF R
  <2> QED BY <1>1, <1>2, ListingExists
<1>a. Answers!SetToSeqs(S) = {f \in [1..n -> S] : \A i, j \in 1..n : i # j => f[i] # f[j]}
  BY AnswersCardinality DEF Answers!SetToSeqs
<1>b. /\ t \in [1..n -> S]
      /\ \A i, j \in 1..n : i # j => t[i] # t[j]
      /\ \A i, j \in 1..n : i < j => <<t[i], t[j]>> \in R
  BY <1>3 DEF Listing
<1>4. Q(t)
  BY <1>a, <1>b
<1>5. Q(CHOOSE s : Q(s))
  BY <1>4
<1>6. Answers!ByRelevance(S) = CHOOSE s : Q(s)
  BY DEF Answers!ByRelevance
<1> DEFINE s == Answers!ByRelevance(S)
<1>7. s \in [1..n -> S] /\ (\A i, j \in 1..n : i # j => s[i] # s[j])
  BY <1>5, <1>6, <1>a
<1>8. \A i, j \in 1..n : i < j => Answers!Before(s[i], s[j])
  BY <1>5, <1>6, <1>7
<1> HIDE DEF s
<1>9. \A k \in S : \E i \in 1..n : s[i] = k
  BY <1>1, <1>7, ListingIsComplete
<1> QED
  BY <1>7, <1>8, <1>9 DEF Sorted, s

-----------------------------------------------------------------------------

(* The loop over the claims of an item, one claim at a time *)
LEMMA BoundedRun ==
  ASSUME ClaimsTyped, NEW item,
         NEW U, U = Answers!Usable(item), NEW order, order = Answers!ByRelevance(U),
         NEW n, n = Cardinality(U)
  PROVE  \E run \in [0..n -> Seq(U)] :
           /\ run[0] = <<>> /\ run[n] = Answers!BoundedClaims(item)
           /\ \A i \in 1..n : run[i] = IF Answers!Fits(run[i - 1], order[i])
                                       THEN Append(run[i - 1], order[i]) ELSE run[i - 1]
<1> DEFINE step == [p \in (1..n) \X Seq(U) |->
                      IF Answers!Fits(p[2], order[p[1]]) THEN Append(p[2], order[p[1]]) ELSE p[2]]
           Rec(it) == it = [s \in SUBSET (1..n) |->
                              IF s = {} THEN <<>>
                              ELSE IF Answers!Fits(it[s \ {Largest(s)}], order[Largest(s)])
                                   THEN Append(it[s \ {Largest(s)}], order[Largest(s)])
                                   ELSE it[s \ {Largest(s)}]]
           chosen == CHOOSE it : Rec(it)
<1>1. U \subseteq Answers!Keys
  BY DEF Answers!Usable
<1>2. n \in Nat /\ order \in [1..n -> U] /\ DOMAIN order = 1..n
  BY <1>1, KeysFinite, SortedByRelevance DEF Sorted
<1>3. step \in [(1..n) \X Seq(U) -> Seq(U)] /\ <<>> \in Seq(U)
  BY <1>2
<1>4. \A s \in SUBSET (1..n) : s # {} => Largest(s) \in s /\ Largest(s) \in 1..n
  <2>1. \A s \in SUBSET (1..n) : s \subseteq 0..n
    BY <1>2
  <2> QED
    BY <1>2, <2>1, LargestIs
<1>f. Stepwise(step, n, Seq(U), <<>>)
  BY <1>2, <1>3 DEF Stepwise
<1>e. PICK g : Folds(g, step, n, Seq(U), <<>>)
  <2> HIDE DEF step
  <2> QED BY <1>f, FoldExists
<1>5. /\ g \in [SUBSET (1..n) -> Seq(U)]
      /\ \A s \in SUBSET (1..n) : g[s] = IF s = {} THEN <<>> ELSE step[<<Largest(s), g[s \ {Largest(s)}]>>]
  <2> HIDE DEF step
  <2> QED BY <1>e DEF Folds
<1>6. Rec(g)
  <2>1. \A s \in SUBSET (1..n) : s # {} =>
          step[<<Largest(s), g[s \ {Largest(s)}]>>]
            = IF Answers!Fits(g[s \ {Largest(s)}], order[Largest(s)])
              THEN Append(g[s \ {Largest(s)}], order[Largest(s)]) ELSE g[s \ {Largest(s)}]
    BY <1>4, <1>5
  <2> HIDE DEF step
  <2> QED BY <1>5, <2>1
<1>7. Rec(chosen)
  BY <1>6
<1>8. Answers!BoundedClaims(item) = chosen[1..n]
  BY <1>2 DEF Answers!BoundedClaims, Answers!FoldLeft, Answers!MapThenFoldSet, Answers!Max, Largest
<1> HIDE DEF chosen
<1>9. chosen = [s \in SUBSET (1..n) |-> chosen[s]] /\ chosen[{}] = <<>>
  BY <1>7
<1>10. ASSUME NEW s \in SUBSET (1..n), s # {}, chosen[s \ {Largest(s)}] \in Seq(U)
       PROVE  chosen[s] = step[<<Largest(s), chosen[s \ {Largest(s)}]>>]
  BY <1>4, <1>7, <1>10
<1>g. Follows(chosen, step, n, Seq(U), <<>>)
  <2> HIDE DEF step
  <2> QED BY <1>9, <1>10 DEF Follows
<1>h. RunsTo(chosen[1..n], step, n, Seq(U), <<>>)
  <2> HIDE DEF step
  <2> QED BY <1>f, <1>g, FoldRuns
<1>11. PICK run \in [0..n -> Seq(U)] :
         /\ run[0] = <<>> /\ run[n] = chosen[1..n]
         /\ \A i \in 1..n : run[i] = step[<<i, run[i - 1]>>]
  <2> HIDE DEF step
  <2> QED BY <1>h DEF RunsTo
<1>12. \A i \in 1..n : run[i] = IF Answers!Fits(run[i - 1], order[i])
                                THEN Append(run[i - 1], order[i]) ELSE run[i - 1]
  <2> SUFFICES ASSUME NEW i \in 1..n
               PROVE  run[i] = IF Answers!Fits(run[i - 1], order[i])
                               THEN Append(run[i - 1], order[i]) ELSE run[i - 1]
    OBVIOUS
  <2>1. run[i - 1] \in Seq(U)
    BY <1>2
  <2> QED BY <1>11, <2>1
<1> QED
  BY <1>8, <1>11, <1>12
-----------------------------------------------------------------------------
(* Why a claim may be left out of what is kept *)
LeftOut(k, kept) ==
  LET better == {j \in kept : Answers!Before(j, k)}
  IN  Cardinality(better) = MaxClaims \/ Answers!Size(better) + claims[k].size > MaxEvidence

(* After i rounds of the loop over the claims *)
LoopInv(i, kept, order, U) ==
  /\ kept \in Seq(U)
  /\ \A k \in Entries(kept) : \E j \in 1..i : order[j] = k
  /\ Cardinality(Entries(kept)) = Len(kept) /\ Len(kept) <= MaxClaims
  /\ Answers!Size(Entries(kept)) <= MaxEvidence
  /\ \A j \in 1..i : order[j] \in Entries(kept) \/ LeftOut(order[j], Entries(kept))

(* Trying one more claim keeps what LoopInv says. *)
LEMMA LoopStep ==
  ASSUME ClaimsTyped, NEW U, U \subseteq Answers!Keys, NEW order, Sorted(order, U),
         NEW i \in 1..Cardinality(U), NEW kept, LoopInv(i - 1, kept, order, U),
         NEW next, next = IF Answers!Fits(kept, order[i]) THEN Append(kept, order[i]) ELSE kept
  PROVE  LoopInv(i, next, order, U)
<1> DEFINE n == Cardinality(U)
           k == order[i]
           old == Entries(kept)
<1>0. n \in Nat /\ IsFiniteSet(U)
  BY KeysFinite
<1>1. order \in [1..n -> U] /\ k \in U /\ k \in Answers!Keys /\ i \in 1..n /\ i \in Nat
  BY <1>0 DEF Sorted
<1>2. \A a, b \in 1..n : (a # b => order[a] # order[b]) /\ (a < b => Answers!Before(order[a], order[b]))
  BY DEF Sorted
<1>3. kept \in Seq(U) /\ old \subseteq U /\ (\A x \in old : \E j \in 1..(i - 1) : order[j] = x)
  <2>1. kept \in Seq(U) /\ \A x \in Entries(kept) : \E j \in 1..(i - 1) : order[j] = x
    BY DEF LoopInv
  <2>2. \A j \in DOMAIN kept : kept[j] \in U
    BY <2>1
  <2>3. old \subseteq U
    BY <2>2 DEF Entries
  <2> QED
    BY <2>1, <2>3
<1>4. Cardinality(old) = Len(kept) /\ Len(kept) <= MaxClaims /\ Answers!Size(old) <= MaxEvidence
  BY DEF LoopInv
<1>5. \A j \in 1..(i - 1) : order[j] \in old \/ LeftOut(order[j], old)
  BY DEF LoopInv
<1>6. k \notin old /\ \A x \in old : Answers!Before(x, k)
  <2> HIDE DEF n, old
  <2> SUFFICES ASSUME NEW j \in 1..(i - 1) PROVE order[j] # k /\ Answers!Before(order[j], k)
    BY <1>3
  <2>1. j \in 1..n /\ j < i
    BY <1>0, <1>1
  <2> QED
    BY <1>1, <1>2, <2>1
<1>7. 1..i = 1..(i - 1) \union {i}
  BY <1>1
<1>8. MaxClaims \in Nat /\ MaxEvidence \in Nat /\ claims[k].size \in Nat
  BY <1>1, ComputationsAssumption DEF ClaimsTyped, ClaimRows
<1>9. CASE Answers!Fits(kept, k)
  <2>1. /\ Entries(next) = old \union {k} /\ next \in Seq(U)
        /\ Len(next) = Len(kept) + 1 /\ Len(kept) \in Nat
    BY <1>1, <1>3, <1>9, AppendEntries
  <2>2. Len(kept) < MaxClaims /\ Answers!Size(old) + claims[k].size <= MaxEvidence
    BY <1>9 DEF Answers!Fits, Answers!Range, Entries
  <2>3. Cardinality(old \union {k}) = Cardinality(old) + 1
    BY <1>0, <1>3, <1>6, FS_AddElement, FS_Subset
  <2>4. Answers!Size(old \union {k}) = Answers!Size(old) + claims[k].size
    BY <1>1, <1>3, <1>6, SizeIsSum
  <2>5. \A x \in old \union {k} : \E j \in 1..i : order[j] = x
    BY <1>3, <1>7
  <2>6. ASSUME NEW j \in 1..(i - 1), LeftOut(order[j], old) PROVE LeftOut(order[j], old \union {k})
    <3>1. j \in 1..n /\ j < i
      BY <1>0, <1>1
    <3>2. Answers!Before(order[j], k) /\ order[j] \in Answers!Keys
      BY <1>1, <1>2, <3>1
    <3>3. ~Answers!Before(k, order[j])
      BY <1>1, <3>2, RelevanceOrders
    <3>4. {x \in old \union {k} : Answers!Before(x, order[j])} = {x \in old : Answers!Before(x, order[j])}
      BY <3>3
    <3> QED
      BY <2>6, <3>4 DEF LeftOut
  <2>7. \A j \in 1..i : order[j] \in old \union {k} \/ LeftOut(order[j], old \union {k})
    BY <1>5, <1>7, <2>6
  <2> DEFINE new == Entries(next)
  <2>8. new = old \union {k}
    BY <2>1
  <2> HIDE DEF old, k, n, new
  <2>9. Cardinality(new) = Len(next) /\ Len(next) <= MaxClaims
    BY <1>4, <1>8, <2>1, <2>2, <2>3, <2>8
  <2>10. Answers!Size(new) <= MaxEvidence
    BY <2>2, <2>4, <2>8
  <2>11. \A x \in new : \E j \in 1..i : order[j] = x
    BY <2>5, <2>8
  <2>12. \A j \in 1..i : order[j] \in new \/ LeftOut(order[j], new)
    BY <2>7, <2>8
  <2> QED
    BY <2>1, <2>9, <2>10, <2>11, <2>12 DEF LoopInv, new
<1>10. CASE ~Answers!Fits(kept, k)
  <2>1. next = kept /\ Len(kept) \in Nat
    BY <1>3, <1>10
  <2>2. {x \in old : Answers!Before(x, k)} = old
    BY <1>6
  <2>3. Len(kept) = MaxClaims \/ Answers!Size(old) + claims[k].size > MaxEvidence
    <3>1. Answers!Size(old) \in Int
      BY <1>1, <1>3, SizeIsSum
    <3>2. ~(Len(kept) < MaxClaims /\ Answers!Size(old) + claims[k].size <= MaxEvidence)
      BY <1>10 DEF Answers!Fits, Answers!Range, Entries
    <3> HIDE DEF old, k
    <3> QED
      BY <1>4, <1>8, <2>1, <3>1, <3>2
  <2>4. LeftOut(k, old)
    BY <1>4, <2>2, <2>3 DEF LeftOut
  <2>5. \A j \in 1..i : order[j] \in old \/ LeftOut(order[j], old)
    BY <1>5, <1>7, <2>4
  <2>6. \A x \in old : \E j \in 1..i : order[j] = x
    BY <1>3, <1>7
  <2> HIDE DEF old, k, n
  <2> QED
    BY <1>3, <1>4, <2>1, <2>5, <2>6 DEF LoopInv, old
<1> QED
  BY <1>9, <1>10

(* What is kept of an item *)
KeptWell(kept, U) ==
  /\ kept \subseteq U
  /\ Cardinality(kept) <= MaxClaims /\ Answers!Size(kept) <= MaxEvidence
  /\ \A k \in U \ kept : LeftOut(k, kept)

(* The claims kept of an item are usable and within the budgets, and what is  *)
(* left out did not fit next to those before it.                              *)
LEMMA ClaimsBounded ==
  ASSUME ClaimsTyped, NEW item
  PROVE  /\ Answers!BoundedClaims(item) \in Seq(Answers!Usable(item))
         /\ KeptWell(Entries(Answers!BoundedClaims(item)), Answers!Usable(item))
<1> DEFINE U == Answers!Usable(item)
           order == Answers!ByRelevance(U)
           n == Cardinality(U)
<1>1. U \subseteq Answers!Keys
  BY DEF Answers!Usable
<1>2. n \in Nat /\ Sorted(order, U)
  BY <1>1, KeysFinite, SortedByRelevance
<1>3. PICK run \in [0..n -> Seq(U)] :
         /\ run[0] = <<>> /\ run[n] = Answers!BoundedClaims(item)
         /\ \A i \in 1..n : run[i] = IF Answers!Fits(run[i - 1], order[i])
                                     THEN Append(run[i - 1], order[i]) ELSE run[i - 1]
  BY BoundedRun
<1> HIDE DEF U, order, n
<1> DEFINE N == {i \in Nat : i <= n => LoopInv(i, run[i], order, U)}
<1>4. 0 \in N
  <2>1. run[0] = <<>> /\ <<>> \in Seq(U) /\ Entries(<<>>) = {} /\ Len(<<>>) = 0
    BY <1>3 DEF Entries
  <2>2. Cardinality({}) = 0
    BY FS_EmptySet
  <2>3. Answers!Size({}) = 0
    BY SizeIsSum
  <2>4. MaxClaims \in Nat /\ MaxEvidence \in Nat
    BY ComputationsAssumption
  <2> DEFINE none == run[0]
  <2>5. Entries(none) = {} /\ none \in Seq(U) /\ Len(none) = 0
    BY <2>1
  <2> HIDE DEF none
  <2>6. \A j \in 1..0 : FALSE
    OBVIOUS
  <2>7. LoopInv(0, none, order, U)
    BY <2>2, <2>3, <2>4, <2>5, <2>6 DEF LoopInv
  <2> QED
    BY <2>7 DEF none
<1>5. ASSUME NEW i \in Nat, i \in N PROVE i + 1 \in N
  <2> SUFFICES ASSUME i + 1 <= n PROVE LoopInv(i + 1, run[i + 1], order, U)
    OBVIOUS
  <2>1. i + 1 \in 1..n /\ i <= n /\ (i + 1) - 1 = i
    BY <1>2
  <2>2. LoopInv((i + 1) - 1, run[i], order, U)
    BY <1>5, <2>1
  <2>3. run[i + 1] = IF Answers!Fits(run[i], order[i + 1])
                     THEN Append(run[i], order[i + 1]) ELSE run[i]
    BY <1>3, <2>1
  <2> QED
    BY <1>1, <1>2, <2>1, <2>2, <2>3, LoopStep DEF n
<1>6. Nat \subseteq N
  <2> HIDE DEF N
  <2> QED BY <1>4, <1>5, NatSetInduction
<1>7. LoopInv(n, run[n], order, U)
  BY <1>2, <1>6
<1> DEFINE kept == Entries(run[n])
<1>8. /\ run[n] \in Seq(U) /\ Cardinality(kept) <= MaxClaims /\ Answers!Size(kept) <= MaxEvidence
      /\ \A j \in 1..n : order[j] \in kept \/ LeftOut(order[j], kept)
  BY <1>7 DEF LoopInv
<1>9. kept \subseteq U
  BY <1>8 DEF Entries
<1>10. ASSUME NEW k \in U \ kept PROVE LeftOut(k, kept)
  <2>1. PICK j \in 1..n : order[j] = k
    BY <1>2 DEF Sorted, n
  <2> QED
    BY <1>8, <1>10, <2>1
<1> QED
  BY <1>3, <1>8, <1>9, <1>10 DEF KeptWell, U
-----------------------------------------------------------------------------
(* The same with the table of the claims as a parameter: what was said of a   *)
(* selection stays true while the claims are those.                        *)
WeightOf(c, S) == Total([k \in Answers!Keys |-> c[k].size], S)

(* Claim j is more relevant than claim k. *)
Precedes(c, j, k) ==
  \/ c[j].match > c[k].match
  \/ c[j].match = c[k].match
     /\ \/ Answers!ConfidenceRank[c[j].confidence] < Answers!ConfidenceRank[c[k].confidence]
        \/ c[j].confidence = c[k].confidence /\ j < k

(* The usable claims of an item. *)
UsableOf(c, item) == {k \in Answers!Keys : Answers!ItemOf(k) = item /\ c[k].usable}

(* The size of a selection: that of its claims, and 1 for each item. *)
Weight(c, items) ==
  Total([i \in DOMAIN items |-> 1 + WeightOf(c, Entries(items[i].claims))], DOMAIN items)

(* Those kept before k fill the cap, or k does not fit next to them. *)
Omitted(c, k, kept) ==
  LET better == {j \in kept : Precedes(c, j, k)}
  IN  Cardinality(better) = MaxClaims \/ WeightOf(c, better) + c[k].size > MaxEvidence

(* What is kept of an item is usable, within the budgets, and lacks only what *)
(* did not fit.                                                               *)
KeptOf(c, kept, item) ==
  /\ kept \subseteq UsableOf(c, item)
  /\ Cardinality(kept) <= MaxClaims /\ WeightOf(c, kept) <= MaxEvidence
  /\ \A k \in UsableOf(c, item) \ kept : Omitted(c, k, kept)

(* An item of evidence: which one, and the claims sent with it. *)
EvidenceRows == [item : {1, 2}, claims : Seq(Answers!Keys)]

(* A selection of evidence within every budget, no item twice and none empty. *)
SelectionOf(c, items, limit) ==
  /\ items \in Seq(EvidenceRows) /\ Len(items) <= limit /\ Weight(c, items) <= MaxInput
  /\ \A i, j \in DOMAIN items : items[i].item = items[j].item => i = j
  /\ \A i \in DOMAIN items :
       /\ Entries(items[i].claims) # {}
       /\ KeptOf(c, Entries(items[i].claims), items[i].item)

(* These are the component's operators, of the claims of the state. *)
LEMMA ClaimsNamed ==
  /\ \A S : Answers!Size(S) = WeightOf(claims, S)
  /\ \A j, k : Answers!Before(j, k) <=> Precedes(claims, j, k)
  /\ \A item : Answers!Usable(item) = UsableOf(claims, item)
<1>1. \A S : Answers!Size(S) = WeightOf(claims, S)
  BY AnswersTotal DEF Answers!Size, WeightOf
<1>2. \A j, k : Answers!Before(j, k) <=> Precedes(claims, j, k)
  BY DEF Answers!Before, Precedes
<1>3. \A item : Answers!Usable(item) = UsableOf(claims, item)
  BY DEF Answers!Usable, UsableOf
<1> QED
  BY <1>1, <1>2, <1>3

(* Serialized is the weight of a selection. *)
LEMMA SerializedNamed ==
  ASSUME NEW items
  PROVE  Answers!Serialized(items) = Weight(claims, items)
<1> DEFINE f == [i \in DOMAIN items |-> 1 + Answers!Size(Entries(items[i].claims))]
           g == [i \in DOMAIN items |-> 1 + WeightOf(claims, Entries(items[i].claims))]
<1>1. Answers!Serialized(items) = Answers!SumFunctionOnSet(f, DOMAIN f)
  BY DEF Answers!Serialized, Answers!SumFunction, Answers!SumFunctionOnSet, Answers!FoldFunction, Answers!Range, Entries
<1>2. f = g /\ DOMAIN f = DOMAIN items
  BY ClaimsNamed
<1>3. Answers!SumFunctionOnSet(f, DOMAIN f) = Total(f, DOMAIN f)
  BY AnswersTotal
<1> HIDE DEF f
<1>4. Answers!Serialized(items) = Total(g, DOMAIN items)
  BY <1>1, <1>2, <1>3
<1> QED
  BY <1>4 DEF Weight

(* What the loop over claims keeps is what KeptOf asks of it. *)
LEMMA KeptNamed ==
  ASSUME NEW kept, NEW item, KeptWell(kept, Answers!Usable(item))
  PROVE  KeptOf(claims, kept, item)
<1>1. \A k : LeftOut(k, kept) => Omitted(claims, k, kept)
  <2> SUFFICES ASSUME NEW k, LeftOut(k, kept) PROVE Omitted(claims, k, kept)
    OBVIOUS
  <2>1. {j \in kept : Answers!Before(j, k)} = {j \in kept : Precedes(claims, j, k)}
    BY ClaimsNamed
  <2>2. \A S : Answers!Size(S) = WeightOf(claims, S)
    BY ClaimsNamed
  <2> QED
    BY <2>1, <2>2 DEF LeftOut, Omitted
<1>2. Answers!Usable(item) = UsableOf(claims, item) /\ Answers!Size(kept) = WeightOf(claims, kept)
  BY ClaimsNamed
<1> QED
  BY <1>1, <1>2 DEF KeptWell, KeptOf
-----------------------------------------------------------------------------
(* The items that rank_items returns: each once *)
RankedOnce ==
  /\ ranked \in Seq({1, 2})
  /\ \A i, j \in DOMAIN ranked : ranked[i] = ranked[j] => i = j

(* The evidence offered for the i-th ranked item. *)
Offer(i) == [item |-> ranked[i], claims |-> Answers!BoundedClaims(ranked[i])]

(* An offer is of its item and keeps what KeptOf asks. *)
LEMMA OffersTyped ==
  ASSUME ClaimsTyped, RankedOnce, NEW i \in DOMAIN ranked
  PROVE  /\ Offer(i) \in EvidenceRows /\ Offer(i).item = ranked[i]
         /\ KeptOf(claims, Entries(Offer(i).claims), ranked[i])
         /\ Offer(i).claims # <<>> => Entries(Offer(i).claims) # {}
<1>1. ranked[i] \in {1, 2}
  BY DEF RankedOnce
<1> DEFINE kept == Answers!BoundedClaims(ranked[i])
<1>2. kept \in Seq(Answers!Usable(ranked[i])) /\ KeptWell(Entries(kept), Answers!Usable(ranked[i]))
  BY ClaimsBounded
<1>3. Answers!Usable(ranked[i]) \subseteq Answers!Keys
  BY DEF Answers!Usable
<1> HIDE DEF kept
<1>4. kept \in Seq(Answers!Keys)
  BY <1>2, <1>3
<1>5. KeptOf(claims, Entries(kept), ranked[i])
  BY <1>2, KeptNamed
<1>6. kept # <<>> => Entries(kept) # {}
  BY <1>4 DEF Entries
<1> QED
  BY <1>1, <1>4, <1>5, <1>6 DEF Offer, EvidenceRows, kept

(* The loop over the candidates, one item at a time *)
LEMMA RetrieveRun ==
  ASSUME ClaimsTyped, RankedOnce, NEW n, n = Len(ranked)
  PROVE  \E run \in [0..n -> Seq(EvidenceRows)] :
           /\ run[0] = <<>> /\ run[n] = Answers!RetrieveEvidence
           /\ \A i \in 1..n : run[i] = IF Answers!Admitted(run[i - 1], Offer(i))
                                       THEN Append(run[i - 1], Offer(i)) ELSE run[i - 1]
<1> DEFINE X == Seq(EvidenceRows)
           step == [p \in (1..n) \X X |->
                      IF Answers!Admitted(p[2], Offer(p[1])) THEN Append(p[2], Offer(p[1])) ELSE p[2]]
           Rec(it) == it = [s \in SUBSET (1..n) |->
                              IF s = {} THEN <<>>
                              ELSE IF Answers!Admitted(it[s \ {Largest(s)}], Answers!Candidates[Largest(s)])
                                   THEN Append(it[s \ {Largest(s)}], Answers!Candidates[Largest(s)])
                                   ELSE it[s \ {Largest(s)}]]
           chosen == CHOOSE it : Rec(it)
<1>1. n \in Nat /\ DOMAIN ranked = 1..n
  BY DEF RankedOnce
<1>2. \A i \in 1..n : Offer(i) \in EvidenceRows
  BY <1>1, OffersTyped
<1>3. step \in [(1..n) \X X -> X] /\ <<>> \in X
  BY <1>2
<1>4. \A s \in SUBSET (1..n) : s # {} => Largest(s) \in s /\ Largest(s) \in 1..n
  <2>1. \A s \in SUBSET (1..n) : s \subseteq 0..n
    BY <1>1
  <2> QED
    BY <1>1, <2>1, LargestIs
<1>5. DOMAIN Answers!Candidates = 1..n /\ \A i \in 1..n : Answers!Candidates[i] = Offer(i)
  BY <1>1 DEF Answers!Candidates, Offer
<1>6. Stepwise(step, n, X, <<>>)
  BY <1>1, <1>3 DEF Stepwise
<1>7. PICK g : Folds(g, step, n, X, <<>>)
  <2> HIDE DEF step, X
  <2> QED BY <1>6, FoldExists
<1>8. /\ g \in [SUBSET (1..n) -> X]
      /\ \A s \in SUBSET (1..n) : g[s] = IF s = {} THEN <<>> ELSE step[<<Largest(s), g[s \ {Largest(s)}]>>]
  <2> HIDE DEF step, X
  <2> QED BY <1>7 DEF Folds
<1>9. Rec(g)
  <2>1. \A s \in SUBSET (1..n) : s # {} =>
          step[<<Largest(s), g[s \ {Largest(s)}]>>]
            = IF Answers!Admitted(g[s \ {Largest(s)}], Offer(Largest(s)))
              THEN Append(g[s \ {Largest(s)}], Offer(Largest(s))) ELSE g[s \ {Largest(s)}]
    BY <1>4, <1>8
  <2>2. \A s \in SUBSET (1..n) : s # {} => Answers!Candidates[Largest(s)] = Offer(Largest(s))
    BY <1>4, <1>5
  <2> HIDE DEF step
  <2> QED BY <1>8, <2>1, <2>2
<1>10. Rec(chosen)
  BY <1>9
<1>11. Answers!RetrieveEvidence = chosen[1..n]
  BY <1>5 DEF Answers!RetrieveEvidence, Answers!FoldLeft, Answers!MapThenFoldSet, Answers!Max, Largest
<1> HIDE DEF chosen
<1>12. chosen = [s \in SUBSET (1..n) |-> chosen[s]] /\ chosen[{}] = <<>>
  BY <1>10
<1>13. ASSUME NEW s \in SUBSET (1..n), s # {}, chosen[s \ {Largest(s)}] \in X
       PROVE  chosen[s] = step[<<Largest(s), chosen[s \ {Largest(s)}]>>]
  BY <1>4, <1>5, <1>10, <1>13
<1>14. Follows(chosen, step, n, X, <<>>)
  <2> HIDE DEF step, X
  <2> QED BY <1>12, <1>13 DEF Follows
<1>15. RunsTo(chosen[1..n], step, n, X, <<>>)
  <2> HIDE DEF step, X
  <2> QED BY <1>6, <1>14, FoldRuns
<1>16. PICK run \in [0..n -> X] :
         /\ run[0] = <<>> /\ run[n] = chosen[1..n]
         /\ \A i \in 1..n : run[i] = step[<<i, run[i - 1]>>]
  <2> HIDE DEF step, X
  <2> QED BY <1>15 DEF RunsTo
<1>17. ASSUME NEW i \in 1..n
       PROVE  run[i] = IF Answers!Admitted(run[i - 1], Offer(i)) THEN Append(run[i - 1], Offer(i)) ELSE run[i - 1]
  <2>1. run[i - 1] \in X
    BY <1>1
  <2> QED BY <1>16, <2>1
<1> QED
  BY <1>11, <1>16, <1>17

(* After i candidates *)
RetrieveInv(i, items) ==
  /\ SelectionOf(claims, items, sources)
  /\ \A j \in DOMAIN items : \E k \in 1..i : ranked[k] = items[j].item

(* No evidence is within every budget. *)
LEMMA EmptySelection ==
  ASSUME NEW c, NEW limit \in Nat
  PROVE  SelectionOf(c, <<>>, limit)
<1> DEFINE none == SubSeq(<<1>>, 1, 0)
<1>1. none = <<>> /\ none \in Seq(EvidenceRows) /\ Len(none) = 0 /\ DOMAIN none = {}
  OBVIOUS
<1> HIDE DEF none
<1>2. \A f : Total(f, DOMAIN none) = 0
  BY <1>1, SumEmpty
<1>3. Weight(c, none) = 0
  BY <1>2 DEF Weight
<1>4. SelectionOf(c, none, limit)
  BY <1>1, <1>3, ComputationsAssumption DEF SelectionOf
<1> QED
  BY <1>1, <1>4

(* Considering one more ranked item keeps what RetrieveInv says. *)
LEMMA RetrieveStep ==
  ASSUME ClaimsTyped, RankedOnce, sources \in Nat, NEW i \in DOMAIN ranked,
         NEW items, RetrieveInv(i - 1, items),
         NEW next, next = IF Answers!Admitted(items, Offer(i)) THEN Append(items, Offer(i)) ELSE items
  PROVE  RetrieveInv(i, next)
<1>1. /\ Offer(i) \in EvidenceRows /\ Offer(i).item = ranked[i] /\ ranked[i] \in {1, 2}
      /\ KeptOf(claims, Entries(Offer(i).claims), ranked[i])
      /\ Offer(i).claims # <<>> => Entries(Offer(i).claims) # {}
  BY OffersTyped DEF RankedOnce
<1>2. SelectionOf(claims, items, sources) /\ \A j \in DOMAIN items : \E k \in 1..(i - 1) : ranked[k] = items[j].item
  BY DEF RetrieveInv
<1>3. items \in Seq(EvidenceRows) /\ Len(items) \in Nat
  BY <1>2 DEF SelectionOf
<1>4. i \in Nat /\ 1..(i - 1) \subseteq 1..i /\ i \in 1..i /\ 1..i \subseteq DOMAIN ranked
  BY DEF RankedOnce
<1>5. CASE ~Answers!Admitted(items, Offer(i))
  <2>1. next = items
    BY <1>5
  <2>2. \A j \in DOMAIN items : \E k \in 1..i : ranked[k] = items[j].item
    BY <1>2, <1>4
  <2> QED
    BY <1>2, <2>1, <2>2 DEF RetrieveInv
<1>6. CASE Answers!Admitted(items, Offer(i))
  <2> DEFINE more == Append(items, Offer(i))
  <2>1. next = more
    BY <1>6
  <2>2. /\ more \in Seq(EvidenceRows) /\ Len(more) = Len(items) + 1
        /\ DOMAIN more = 1..(Len(items) + 1) /\ DOMAIN items = 1..Len(items)
        /\ \A j \in 1..Len(items) : more[j] = items[j]
        /\ more[Len(items) + 1] = Offer(i)
    BY <1>1, <1>3
  <2> HIDE DEF more
  <2>3. Len(items) < sources /\ Offer(i).claims # <<>> /\ Answers!Serialized(more) <= MaxInput
    BY <1>6 DEF Answers!Admitted, more
  <2>4. Len(more) <= sources /\ Weight(claims, more) <= MaxInput
    BY <1>3, <2>2, <2>3, SerializedNamed
  <2>5. ASSUME NEW j \in DOMAIN items PROVE more[j].item # more[Len(items) + 1].item
    <3>1. PICK k \in 1..(i - 1) : ranked[k] = items[j].item
      BY <1>2
    <3>2. ranked[k] # ranked[i]
      BY <1>4 DEF RankedOnce
    <3> QED
      BY <1>1, <2>2, <3>1, <3>2
  <2>6. \A j, k \in DOMAIN items : items[j].item = items[k].item => j = k
    BY <1>2 DEF SelectionOf
  <2>7. ASSUME NEW j \in DOMAIN more, NEW k \in DOMAIN more, more[j].item = more[k].item PROVE j = k
    <3>1. CASE j \in DOMAIN items /\ k \in DOMAIN items
      BY <2>2, <2>6, <2>7, <3>1
    <3>2. CASE j \in DOMAIN items /\ k = Len(items) + 1
      BY <2>5, <2>7, <3>2
    <3>3. CASE k \in DOMAIN items /\ j = Len(items) + 1
      BY <2>5, <2>7, <3>3
    <3>4. CASE k = Len(items) + 1 /\ j = Len(items) + 1
      BY <3>4
    <3> QED
      BY <1>3, <2>2, <3>1, <3>2, <3>3, <3>4
  <2>8. \A j \in DOMAIN items :
          Entries(items[j].claims) # {} /\ KeptOf(claims, Entries(items[j].claims), items[j].item)
    BY <1>2 DEF SelectionOf
  <2>9. \A j \in DOMAIN more :
          Entries(more[j].claims) # {} /\ KeptOf(claims, Entries(more[j].claims), more[j].item)
    <3> SUFFICES ASSUME NEW j \in DOMAIN more
                 PROVE  /\ Entries(more[j].claims) # {}
                        /\ KeptOf(claims, Entries(more[j].claims), more[j].item)
      OBVIOUS
    <3>1. CASE j = Len(items) + 1
      BY <1>1, <2>2, <2>3, <3>1
    <3>2. CASE j # Len(items) + 1
      <4>1. j \in DOMAIN items /\ more[j] = items[j]
        BY <1>3, <2>2, <3>2
      <4> QED
        BY <2>8, <4>1
    <3> QED
      BY <3>1, <3>2
  <2>10. SelectionOf(claims, more, sources)
    BY <2>2, <2>4, <2>7, <2>9 DEF SelectionOf
  <2>11. ASSUME NEW j \in DOMAIN more PROVE \E k \in 1..i : ranked[k] = more[j].item
    <3>1. CASE j = Len(items) + 1
      BY <1>1, <1>4, <2>2, <3>1
    <3>2. CASE j # Len(items) + 1
      <4>1. j \in DOMAIN items /\ more[j] = items[j]
        BY <1>3, <2>2, <3>2
      <4> QED
        BY <1>2, <1>4, <4>1
    <3> QED
      BY <3>1, <3>2
  <2> QED
    BY <2>1, <2>10, <2>11 DEF RetrieveInv
<1> QED
  BY <1>5, <1>6

(* What is retrieved is a selection within every budget. *)
LEMMA EvidenceSelected ==
  ASSUME ClaimsTyped, RankedOnce, sources \in Nat
  PROVE  SelectionOf(claims, Answers!RetrieveEvidence, sources)
<1> DEFINE n == Len(ranked)
<1>1. n \in Nat /\ DOMAIN ranked = 1..n
  BY DEF RankedOnce
<1>2. PICK run \in [0..n -> Seq(EvidenceRows)] :
        /\ run[0] = <<>> /\ run[n] = Answers!RetrieveEvidence
        /\ \A i \in 1..n : run[i] = IF Answers!Admitted(run[i - 1], Offer(i))
                                    THEN Append(run[i - 1], Offer(i)) ELSE run[i - 1]
  BY RetrieveRun
<1> HIDE DEF n
<1> DEFINE N == {i \in Nat : i <= n => RetrieveInv(i, run[i])}
<1>3. 0 \in N
  <2>1. SelectionOf(claims, run[0], sources)
    BY <1>2, EmptySelection
  <2>2. run[0] = <<>> /\ DOMAIN <<>> = {}
    BY <1>2
  <2>3. DOMAIN run[0] = {}
    BY <2>2
  <2> QED
    BY <2>1, <2>3 DEF RetrieveInv
<1>4. ASSUME NEW i \in Nat, i \in N PROVE i + 1 \in N
  <2> SUFFICES ASSUME i + 1 <= n PROVE RetrieveInv(i + 1, run[i + 1])
    OBVIOUS
  <2>1. i + 1 \in 1..n /\ i + 1 \in DOMAIN ranked /\ i <= n /\ (i + 1) - 1 = i
    BY <1>1
  <2>2. RetrieveInv((i + 1) - 1, run[i])
    BY <1>4, <2>1
  <2>3. run[i + 1] = IF Answers!Admitted(run[i], Offer(i + 1))
                     THEN Append(run[i], Offer(i + 1)) ELSE run[i]
    BY <1>2, <2>1
  <2> QED
    BY <2>1, <2>2, <2>3, RetrieveStep
<1>5. Nat \subseteq N
  <2> HIDE DEF N
  <2> QED BY <1>3, <1>4, NatSetInduction
<1>6. RetrieveInv(n, run[n])
  BY <1>1, <1>5
<1> QED
  BY <1>2, <1>6 DEF RetrieveInv
-----------------------------------------------------------------------------
(* The lengths of up to four URLs of an item; the longest is one too long. *)
UrlsTyped(u) == u = <<>> \/ \E n \in 1..4 : u \in [1..n -> 0..(MaxUrl + 1)]

(* The URLs that are kept fit their budgets, and something is kept if any     *)
(* fits alone.                                                                *)
LEMMA UrlsBounded ==
  ASSUME NEW u, UrlsTyped(u)
  PROVE  /\ Answers!SumFunctionOnSet(u, Answers!BoundedUrls(u)) <= MaxUrlTotal
         /\ Answers!Cardinality(Answers!BoundedUrls(u)) <= MaxUrls
         /\ (\E i \in DOMAIN u : u[i] \in 1..MaxUrl) => Answers!BoundedUrls(u) # {}
<1> DEFINE short == {i \in DOMAIN u : u[i] \in 1..MaxUrl}
           upTo(i) == {j \in short : j <= i}
           cited == Answers!BoundedUrls(u)
<1>1. MaxUrl \in Nat /\ MaxUrls \in Nat \ {0} /\ MaxUrlTotal \in Nat /\ MaxUrl <= MaxUrlTotal
  BY ComputationsAssumption
<1>2. DOMAIN u \subseteq 1..4
  BY DEF UrlsTyped
<1>3. \A i \in short : u[i] \in Nat /\ u[i] <= MaxUrl /\ i \in 1..4
  BY <1>1, <1>2
<1>4. cited = {i \in short : Cardinality(upTo(i)) <= MaxUrls /\ Total(u, upTo(i)) <= MaxUrlTotal}
  BY AnswersTotal, AnswersCardinality DEF Answers!BoundedUrls
<1>5. \A S : S \subseteq 1..4 => IsFiniteSet(S) /\ Cardinality(S) \in Nat
  BY KeysFinite DEF Answers!Keys
<1> HIDE DEF short, cited
<1>6. cited \subseteq short /\ short \subseteq 1..4
  BY <1>3, <1>4
<1>7. Total(u, cited) <= MaxUrlTotal /\ Cardinality(cited) <= MaxUrls
  <2>1. CASE cited = {}
    <3>1. Total(u, {}) = 0 /\ Cardinality({}) = 0
      BY SumEmpty, FS_EmptySet
    <3> QED
      BY <1>1, <2>1, <3>1
  <2>2. CASE cited # {}
    <3> DEFINE m == Largest(cited)
    <3>0. cited \subseteq 0..4 /\ 4 \in Nat
      BY <1>6
    <3>1. m \in cited /\ \A i \in cited : i <= m
      BY <2>2, <3>0, LargestIs
    <3> HIDE DEF m
    <3>2. Cardinality(upTo(m)) <= MaxUrls /\ Total(u, upTo(m)) <= MaxUrlTotal
      BY <1>4, <3>1
    <3>3. cited \subseteq upTo(m) /\ upTo(m) \subseteq 1..4 /\ upTo(m) \subseteq short
      BY <1>6, <3>1
    <3> HIDE DEF upTo
    <3>4. \A i \in upTo(m) : u[i] \in Nat
      BY <1>3, <3>3
    <3>5. IsFiniteSet(upTo(m)) /\ Cardinality(upTo(m)) \in Nat /\ Cardinality(cited) \in Nat
      BY <1>5, <1>6, <3>3
    <3>6. Total(u, cited) <= Total(u, upTo(m))
      BY <3>3, <3>4, <3>5, SumOfMore
    <3>7. Cardinality(cited) <= Cardinality(upTo(m))
      BY <3>3, <3>5, FS_Subset
    <3>8. Total(u, upTo(m)) \in Int /\ Total(u, cited) \in Int
      <4>1. \A i \in upTo(m) : u[i] \in Int
        BY <3>4
      <4>2. IsFiniteSet(cited) /\ \A i \in cited : u[i] \in Int
        BY <1>5, <1>6, <3>3, <4>1
      <4> QED
        BY <3>5, <4>1, <4>2, SumInt
    <3> QED
      BY <1>1, <3>2, <3>5, <3>6, <3>7, <3>8
  <2> QED
    BY <2>1, <2>2
<1>8. ASSUME short # {} PROVE cited # {}
  <2> DEFINE i == Smallest(short)
  <2>1. short \subseteq Nat
    BY <1>6
  <2>2. i \in short /\ \A j \in short : i <= j
    BY <1>8, <2>1, SmallestIs
  <2> HIDE DEF i
  <2>3. upTo(i) = {i}
    <3>1. ASSUME NEW j \in short, j <= i PROVE j = i
      <4>1. i \in Nat /\ j \in Nat /\ i <= j
        BY <2>1, <2>2
      <4> QED
        BY <3>1, <4>1
    <3>2. i \in short /\ i <= i
      BY <2>1, <2>2
    <3> QED
      BY <3>1, <3>2
  <2>4. Cardinality({i}) = 1 /\ IsFiniteSet({i})
    BY FS_Singleton
  <2>5. u[i] \in Nat /\ u[i] <= MaxUrl
    BY <1>3, <2>2
  <2>6. Total(u, {i}) = u[i]
    <3>1. Total(u, {i}) = u[i] + Total(u, {i} \ {i})
      BY <2>4, <2>5, SumRemove
    <3>2. {i} \ {i} = {}
      OBVIOUS
    <3>3. Total(u, {}) = 0
      BY SumEmpty
    <3> QED
      BY <2>5, <3>1, <3>2, <3>3
  <2>7. i \in cited
    BY <1>1, <1>4, <2>2, <2>3, <2>4, <2>5, <2>6
  <2> QED
    BY <2>7
<1> QED
  BY <1>7, <1>8, AnswersTotal, AnswersCardinality DEF short, cited

-----------------------------------------------------------------------------
(* dict.fromkeys: the first of each stays, in the same order *)
LEMMA DistinctRun ==
  ASSUME NEW X, NEW s \in Seq(X), NEW n, n = Len(s)
  PROVE  \E run \in [0..n -> Seq(X)] :
           /\ run[0] = <<>> /\ run[n] = Answers!Distinct(s)
           /\ \A i \in 1..n : run[i] = IF s[i] \in Entries(run[i - 1])
                                       THEN run[i - 1] ELSE Append(run[i - 1], s[i])
<1> DEFINE Y == Seq(X)
           step == [p \in (1..n) \X Y |->
                      IF s[p[1]] \in Entries(p[2]) THEN p[2] ELSE Append(p[2], s[p[1]])]
           Rec(it) == it = [t \in SUBSET (1..n) |->
                              IF t = {} THEN <<>>
                              ELSE IF s[Largest(t)] \in Entries(it[t \ {Largest(t)}])
                                   THEN it[t \ {Largest(t)}]
                                   ELSE Append(it[t \ {Largest(t)}], s[Largest(t)])]
           chosen == CHOOSE it : Rec(it)
<1>1. n \in Nat /\ DOMAIN s = 1..n /\ \A i \in 1..n : s[i] \in X
  OBVIOUS
<1>3. step \in [(1..n) \X Y -> Y] /\ <<>> \in Y
  BY <1>1
<1>4. \A t \in SUBSET (1..n) : t # {} => Largest(t) \in t /\ Largest(t) \in 1..n
  <2>1. \A t \in SUBSET (1..n) : t \subseteq 0..n
    BY <1>1
  <2> QED
    BY <1>1, <2>1, LargestIs
<1>6. Stepwise(step, n, Y, <<>>)
  BY <1>1, <1>3 DEF Stepwise
<1>7. PICK g : Folds(g, step, n, Y, <<>>)
  <2> HIDE DEF step, Y
  <2> QED BY <1>6, FoldExists
<1>8. /\ g \in [SUBSET (1..n) -> Y]
      /\ \A t \in SUBSET (1..n) : g[t] = IF t = {} THEN <<>> ELSE step[<<Largest(t), g[t \ {Largest(t)}]>>]
  <2> HIDE DEF step, Y
  <2> QED BY <1>7 DEF Folds
<1>9. Rec(g)
  <2>1. \A t \in SUBSET (1..n) : t # {} =>
          step[<<Largest(t), g[t \ {Largest(t)}]>>]
            = IF s[Largest(t)] \in Entries(g[t \ {Largest(t)}])
              THEN g[t \ {Largest(t)}] ELSE Append(g[t \ {Largest(t)}], s[Largest(t)])
    BY <1>4, <1>8
  <2> HIDE DEF step
  <2> QED BY <1>8, <2>1
<1>10. Rec(chosen)
  BY <1>9
<1>11. Answers!Distinct(s) = chosen[1..n]
  BY <1>1 DEF Answers!Distinct, Answers!FoldLeft, Answers!MapThenFoldSet, Answers!Max, Largest, Answers!Range, Entries
<1> HIDE DEF chosen
<1>12. chosen = [t \in SUBSET (1..n) |-> chosen[t]] /\ chosen[{}] = <<>>
  BY <1>10
<1>13. ASSUME NEW t \in SUBSET (1..n), t # {}, chosen[t \ {Largest(t)}] \in Y
       PROVE  chosen[t] = step[<<Largest(t), chosen[t \ {Largest(t)}]>>]
  BY <1>4, <1>10, <1>13
<1>14. Follows(chosen, step, n, Y, <<>>)
  <2> HIDE DEF step, Y
  <2> QED BY <1>12, <1>13 DEF Follows
<1>15. RunsTo(chosen[1..n], step, n, Y, <<>>)
  <2> HIDE DEF step, Y
  <2> QED BY <1>6, <1>14, FoldRuns
<1>16. PICK run \in [0..n -> Y] :
         /\ run[0] = <<>> /\ run[n] = chosen[1..n]
         /\ \A i \in 1..n : run[i] = step[<<i, run[i - 1]>>]
  <2> HIDE DEF step, Y
  <2> QED BY <1>15 DEF RunsTo
<1>17. ASSUME NEW i \in 1..n
       PROVE  run[i] = IF s[i] \in Entries(run[i - 1]) THEN run[i - 1] ELSE Append(run[i - 1], s[i])
  <2>1. run[i - 1] \in Y
    BY <1>1
  <2> QED BY <1>16, <2>1
<1> QED
  BY <1>11, <1>16, <1>17

(* Distinct keeps all entries, each once. *)
LEMMA DistinctIs ==
  ASSUME NEW X, NEW s \in Seq(X)
  PROVE  /\ Answers!Distinct(s) \in Seq(X) /\ OnceEach(Answers!Distinct(s))
         /\ Entries(Answers!Distinct(s)) = Entries(s)
  BY DistinctRun, Deduplicated
-----------------------------------------------------------------------------
(* A claim that was sent is usable and found at its evidence, of its own      *)
(* item.                                                                      *)
LEMMA SentIs ==
  ASSUME SelectionOf(claims, sent, sources)
  PROVE  /\ \A i \in DOMAIN sent : \A k \in Entries(sent[i].claims) :
              k \in Answers!Keys /\ claims[k].usable /\ sent[i].item = Answers!ItemOf(k) /\ Answers!EvidenceIdOf(k) = i
         /\ \A k \in Answers!Sent :
              /\ k \in Answers!Keys /\ claims[k].usable
              /\ Answers!EvidenceIdOf(k) \in DOMAIN sent
              /\ k \in Entries(sent[Answers!EvidenceIdOf(k)].claims)
              /\ sent[Answers!EvidenceIdOf(k)].item = Answers!ItemOf(k)
<1>1. \A i \in DOMAIN sent : \A k \in Entries(sent[i].claims) :
        k \in Answers!Keys /\ claims[k].usable /\ sent[i].item = Answers!ItemOf(k)
  BY DEF SelectionOf, KeptOf, UsableOf
<1>2. \A i, j \in DOMAIN sent : sent[i].item = sent[j].item => i = j
  BY DEF SelectionOf
<1>3. ASSUME NEW i \in DOMAIN sent, NEW k \in Entries(sent[i].claims)
      PROVE  Answers!EvidenceIdOf(k) = i
  <2>1. Answers!EvidenceIdOf(k) \in DOMAIN sent /\ k \in Entries(sent[Answers!EvidenceIdOf(k)].claims)
    BY DEF Answers!EvidenceIdOf, Answers!Range, Entries
  <2> QED
    BY <1>1, <1>2, <2>1
<1>4. ASSUME NEW k \in Answers!Sent
      PROVE  \E i \in DOMAIN sent : k \in Entries(sent[i].claims)
  BY DEF Answers!Sent, Answers!Range, Entries
<1> QED
  BY <1>1, <1>3, <1>4

(* How uncertain an answer may be. *)
Levels == {"low", "medium", "high"}

(* Rank and ByRank undo each other, and only the lowest rank is "low". *)
LEMMA RanksInverted ==
  /\ \A u \in Levels : Answers!Rank[u] \in 0..2
  /\ \A r \in 0..2 : Answers!ByRank[r] \in Levels /\ Answers!Rank[Answers!ByRank[r]] = r
  /\ Answers!Rank["low"] = 0 /\ \A u \in Levels : Answers!Rank[u] = 0 => u = "low"
<1>1. DOMAIN Answers!Rank = Levels
  BY DEF Answers!Rank, Levels
<1>2. Answers!Rank["low"] = 0 /\ Answers!Rank["medium"] = 1 /\ Answers!Rank["high"] = 2
  BY DEF Answers!Rank
<1>3. ASSUME NEW r \in 0..2 PROVE Answers!ByRank[r] \in Levels /\ Answers!Rank[Answers!ByRank[r]] = r
  <2>1. \E u \in DOMAIN Answers!Rank : Answers!Rank[u] = r
    BY <1>1, <1>2 DEF Levels
  <2>2. Answers!ByRank[r] = CHOOSE u \in DOMAIN Answers!Rank : Answers!Rank[u] = r
    BY DEF Answers!ByRank
  <2> HIDE DEF Answers!ByRank
  <2> QED
    BY <1>1, <2>1, <2>2
<1> QED
  BY <1>2, <1>3 DEF Levels

(* Nothing less than a verified fact held with high confidence has a low      *)
(* floor.                                                                     *)
LEMMA FloorIs ==
  ASSUME ClaimsTyped, NEW k \in Answers!Keys
  PROVE  /\ Answers!ClaimUncertaintyFloor(k) \in Levels
         /\ Answers!ClaimUncertaintyFloor(k) = "low"
              => claims[k].claim_type = "verified-fact" /\ claims[k].confidence = "high"
<1>1. claims[k].confidence \in Levels
  BY DEF ClaimsTyped, ClaimRows, Levels
<1>2. \A x \in Levels : Answers!ConfidenceRank[x] \in 0..2 /\ (Answers!ConfidenceRank[x] = 0 => x = "high")
  BY DEF Answers!ConfidenceRank, Levels
<1>3. CASE claims[k].claim_type = "verified-fact"
  <2>1. Answers!ClaimUncertaintyFloor(k) = Answers!ByRank[Answers!ConfidenceRank[claims[k].confidence]]
    BY <1>3 DEF Answers!ClaimUncertaintyFloor
  <2> DEFINE r == Answers!ConfidenceRank[claims[k].confidence]
  <2>2. r \in 0..2 /\ (r = 0 => claims[k].confidence = "high")
    BY <1>1, <1>2
  <2> HIDE DEF r
  <2>3. Answers!ByRank[r] \in Levels /\ Answers!Rank[Answers!ByRank[r]] = r /\ Answers!Rank["low"] = 0
    BY <2>2, RanksInverted
  <2>4. Answers!ByRank[r] = "low" => r = 0
    BY <2>3
  <2> QED
    BY <1>3, <2>1, <2>2, <2>3, <2>4 DEF r
<1>4. CASE claims[k].claim_type # "verified-fact"
  <2>1. Answers!ClaimUncertaintyFloor(k) \in {"medium", "high"}
    BY <1>4 DEF Answers!ClaimUncertaintyFloor
  <2> QED
    BY <2>1 DEF Levels
<1> QED
  BY <1>3, <1>4

(* The uncertainty of an answer is no lower than the model's nor than any     *)
(* claim's floor.                                                             *)
LEMMA EffectiveIs ==
  ASSUME ClaimsTyped, NEW d, d.uncertainty \in Levels, Entries(d.keys) \subseteq Answers!Keys,
         NEW u, u = Answers!EffectiveUncertainty(d)
  PROVE  /\ u \in Levels /\ Answers!Rank[u] >= Answers!Rank[d.uncertainty]
         /\ u = "low" =>
              /\ d.uncertainty = "low"
              /\ \A k \in Entries(d.keys) :
                   claims[k].claim_type = "verified-fact" /\ claims[k].confidence = "high"
<1> DEFINE floor(k) == Answers!Rank[Answers!ClaimUncertaintyFloor(k)]
           keys == Entries(d.keys)
           all == {Answers!Rank[d.uncertainty]} \union {floor(k) : k \in keys}
           m == Largest(all)
<1>1. u = Answers!ByRank[m]
  BY DEF Answers!EffectiveUncertainty, Answers!Max, Largest, Answers!Range, Entries
<1>2. \A k \in keys : floor(k) \in 0..2
  BY FloorIs, RanksInverted
<1>3. Answers!Rank[d.uncertainty] \in 0..2
  BY RanksInverted
<1>4. all \subseteq 0..2 /\ all # {} /\ Answers!Rank[d.uncertainty] \in all /\ \A k \in keys : floor(k) \in all
  BY <1>2, <1>3
<1> HIDE DEF all, floor, keys, m
<1>5. m \in all /\ \A x \in all : x <= m
  <2>1. 2 \in Nat
    OBVIOUS
  <2> QED
    BY <1>4, <2>1, LargestIs DEF m
<1>6. m \in 0..2
  BY <1>4, <1>5
<1>7. u \in Levels /\ Answers!Rank[u] = m
  BY <1>1, <1>6, RanksInverted
<1>8. Answers!Rank[u] >= Answers!Rank[d.uncertainty]
  BY <1>3, <1>4, <1>5, <1>6, <1>7
<1>9. ASSUME u = "low"
      PROVE  /\ d.uncertainty = "low"
             /\ \A k \in keys : claims[k].claim_type = "verified-fact" /\ claims[k].confidence = "high"
  <2>1. m = 0
    BY <1>7, <1>9, RanksInverted
  <2>2. \A x \in all : x = 0
    BY <1>4, <1>5, <2>1
  <2>3. d.uncertainty = "low"
    BY <1>4, <2>2, RanksInverted
  <2>4. ASSUME NEW k \in keys
        PROVE  claims[k].claim_type = "verified-fact" /\ claims[k].confidence = "high"
    <3>1. Answers!Rank[Answers!ClaimUncertaintyFloor(k)] = 0 /\ k \in Answers!Keys
      BY <1>4, <2>2 DEF floor, keys
    <3>2. Answers!ClaimUncertaintyFloor(k) \in Levels
      BY <3>1, FloorIs
    <3>3. Answers!ClaimUncertaintyFloor(k) = "low"
      BY <3>1, <3>2, RanksInverted
    <3> QED
      BY <3>1, <3>3, FloorIs
  <2> QED
    BY <2>3, <2>4
<1> QED
  BY <1>7, <1>8, <1>9 DEF keys

(* AnswerSupported, of what an answered request holds *)
Supports(c, items, d, lines, cited, u) ==
  LET said == {lines[i].key : i \in DOMAIN lines} IN
  /\ said = Entries(d.keys) /\ Cardinality(said) = Len(lines)
  /\ \A k \in said : c[k].usable
  /\ Entries(cited) = {i \in DOMAIN items : said \cap Entries(items[i].claims) # {}}
  /\ Cardinality(Entries(cited)) = Len(cited)
  /\ Len(cited) > 1 =>
       \A i \in DOMAIN lines : items[lines[i].marker].item = Answers!ItemOf(lines[i].key)
  /\ u = "insufficient" <=> lines = <<>>
  /\ u = "low" =>
       /\ d.uncertainty = "low"
       /\ \A k \in said : c[k].claim_type = "verified-fact" /\ c[k].confidence = "high"
  /\ lines # <<>> => Answers!Rank[u] >= Answers!Rank[d.uncertainty]

(* An answer rendered from an accepted draft is supported by what was sent,   *)
(* and passes the response contract.                                          *)
LEMMA AcceptedIsSupported ==
  ASSUME ClaimsTyped, SelectionOf(claims, sent, sources),
         NEW d \in Answers!Drafts, Answers!Accepted(d),
         NEW selected, selected = Answers!Distinct(d.keys),
         NEW lines, lines = Answers!RenderAnswer(selected),
         NEW cited, cited = Answers!CitationsFromSelection(selected),
         NEW u, u = IF d.keys = <<>> THEN "insufficient" ELSE Answers!EffectiveUncertainty(d)
  PROVE  /\ Supports(claims, sent, d, lines, cited, u)
         /\ Answers!ContractHolds(Answers!Refs(selected), cited, u)
         /\ u \in Levels \union {"insufficient"}
<1> DEFINE ids == [i \in DOMAIN selected |-> Answers!EvidenceIdOf(selected[i])]
           keys == Entries(d.keys)
           All == Answers!Keys \union {Answers!Unknown}
<1>1. d.keys \in Seq(All) /\ d.uncertainty \in Levels \union {"insufficient"}
  <2>1. PICK n \in 0..MaxKeys : d.keys \in [1..n -> All]
    BY DEF Answers!Drafts
  <2>2. MaxKeys \in Nat
    BY ComputationsAssumption
  <2>3. d.uncertainty \in Levels \union {"insufficient"}
    BY DEF Answers!Drafts, Levels
  <2> QED
    BY <2>1, <2>2, <2>3
<1>2. keys \subseteq Answers!Sent /\ (d.uncertainty = "insufficient" <=> d.keys = <<>>)
  BY DEF Answers!Accepted, Answers!Range, Entries
<1>3. selected \in Seq(All) /\ OnceEach(selected) /\ Entries(selected) = keys
  <2> HIDE DEF All
  <2> QED BY <1>1, DistinctIs
<1>4. /\ Len(selected) \in Nat /\ DOMAIN selected = 1..Len(selected)
      /\ \A i \in DOMAIN selected : selected[i] \in keys
      /\ \A k \in keys : \E i \in DOMAIN selected : selected[i] = k
  <2> HIDE DEF All, keys
  <2> QED BY <1>3, ListIs
<1>5. selected = <<>> <=> d.keys = <<>>
  <2> HIDE DEF All
  <2>1. selected = <<>> <=> Entries(selected) = {}
    BY <1>3, ListIs
  <2>2. d.keys = <<>> <=> Entries(d.keys) = {}
    BY <1>1, ListIs
  <2> QED
    BY <1>3, <2>1, <2>2
<1> HIDE DEF keys, All
<1>6. \A k \in keys :
        /\ k \in Answers!Keys /\ claims[k].usable
        /\ Answers!EvidenceIdOf(k) \in DOMAIN sent
        /\ k \in Entries(sent[Answers!EvidenceIdOf(k)].claims)
        /\ sent[Answers!EvidenceIdOf(k)].item = Answers!ItemOf(k)
  BY <1>2, SentIs
<1>7. ids \in Seq(DOMAIN sent) /\ DOMAIN ids = DOMAIN selected /\ Len(ids) = Len(selected)
  BY <1>4, <1>6
<1>8. \A i \in DOMAIN selected : ids[i] = Answers!EvidenceIdOf(selected[i])
  OBVIOUS
<1>9. cited = Answers!Distinct(ids)
  BY DEF Answers!CitationsFromSelection
<1> HIDE DEF ids
<1>10. cited \in Seq(DOMAIN sent) /\ OnceEach(cited) /\ Entries(cited) = Entries(ids)
  BY <1>7, <1>9, DistinctIs
<1>11. Cardinality(Entries(cited)) = Len(cited)
  BY <1>10, OnceEachCounts
<1>12. Entries(cited) = {Answers!EvidenceIdOf(k) : k \in keys}
  <2>1. \A i \in DOMAIN ids : ids[i] \in Entries(ids)
    BY <1>7, ListIs
  <2>2. \A x \in Entries(ids) : \E i \in DOMAIN ids : ids[i] = x
    BY <1>7, ListIs
  <2> QED
    BY <1>4, <1>7, <1>8, <1>10, <2>1, <2>2
<1>13. /\ DOMAIN lines = DOMAIN selected /\ Len(lines) = Len(selected) /\ (lines = <<>> <=> selected = <<>>)
       /\ \A i \in DOMAIN selected :
            lines[i].key = selected[i] /\ (Len(cited) > 1 => lines[i].marker = Answers!EvidenceIdOf(selected[i]))
  <2> DEFINE line(i) == [marker |-> IF Len(cited) > 1 THEN Answers!EvidenceIdOf(selected[i]) ELSE 0,
                         key |-> selected[i]]
  <2>1. lines = [i \in DOMAIN selected |-> line(i)]
    BY DEF Answers!RenderAnswer
  <2>2. \A i \in DOMAIN selected :
          line(i).key = selected[i] /\ (Len(cited) > 1 => line(i).marker = Answers!EvidenceIdOf(selected[i]))
    OBVIOUS
  <2> DEFINE Lines == {line(i) : i \in DOMAIN selected}
  <2>3. lines \in [1..Len(selected) -> Lines]
    BY <1>4, <2>1
  <2> HIDE DEF line, Lines
  <2>4. lines \in Seq(Lines) /\ Len(lines) = Len(selected)
    BY <1>4, <2>3
  <2>5. lines = <<>> <=> selected = <<>>
    BY <1>3, <2>4
  <2> QED
    BY <2>1, <2>2, <2>4, <2>5
<1>14. {lines[i].key : i \in DOMAIN lines} = keys
  BY <1>4, <1>13
<1>15. Cardinality(keys) = Len(lines)
  BY <1>3, <1>13, OnceEachCounts
<1>16. ASSUME NEW i \in DOMAIN sent
       PROVE  i \in Entries(cited) <=> keys \cap Entries(sent[i].claims) # {}
  <2>1. \A k \in Entries(sent[i].claims) : Answers!EvidenceIdOf(k) = i
    BY SentIs
  <2> QED
    BY <1>6, <1>12, <2>1
<1>17. Entries(cited) = {i \in DOMAIN sent : keys \cap Entries(sent[i].claims) # {}}
  BY <1>6, <1>12, <1>16
<1>18. Len(cited) > 1 => \A i \in DOMAIN lines : sent[lines[i].marker].item = Answers!ItemOf(lines[i].key)
  BY <1>4, <1>6, <1>13
<1>19. d.keys # <<>> =>
         /\ u \in Levels /\ Answers!Rank[u] >= Answers!Rank[d.uncertainty]
         /\ u = "low" =>
              /\ d.uncertainty = "low"
              /\ \A k \in keys : claims[k].claim_type = "verified-fact" /\ claims[k].confidence = "high"
  <2> SUFFICES ASSUME d.keys # <<>>
               PROVE  /\ u \in Levels /\ Answers!Rank[u] >= Answers!Rank[d.uncertainty]
                      /\ u = "low" =>
                           /\ d.uncertainty = "low"
                           /\ \A k \in keys : claims[k].claim_type = "verified-fact" /\ claims[k].confidence = "high"
    OBVIOUS
  <2>1. d.uncertainty \in Levels /\ u = Answers!EffectiveUncertainty(d)
    BY <1>1, <1>2
  <2>2. Entries(d.keys) \subseteq Answers!Keys
    BY <1>6 DEF keys
  <2> QED
    BY <2>1, <2>2, EffectiveIs DEF keys
<1>20. d.keys = <<>> => u = "insufficient"
  OBVIOUS
<1>21. "insufficient" \notin Levels
  BY DEF Levels
<1>22. u = "insufficient" <=> lines = <<>>
  BY <1>5, <1>13, <1>19, <1>20, <1>21
<1>23. Supports(claims, sent, d, lines, cited, u)
  <2>1. \A k \in keys : claims[k].usable
    BY <1>6
  <2>2. u = "low" =>
         /\ d.uncertainty = "low"
         /\ \A k \in keys : claims[k].claim_type = "verified-fact" /\ claims[k].confidence = "high"
    BY <1>19, <1>20
  <2>3. lines # <<>> => Answers!Rank[u] >= Answers!Rank[d.uncertainty]
    BY <1>5, <1>13, <1>19
  <2>4. keys = Entries(d.keys)
    BY DEF keys
  <2> QED
    BY <1>11, <1>14, <1>15, <1>17, <1>18, <1>22, <2>1, <2>2, <2>3, <2>4 DEF Supports
<1> DEFINE refs == Answers!Refs(selected)
<1>24. /\ DOMAIN refs = DOMAIN selected /\ Len(refs) = Len(selected) /\ (refs = <<>> <=> selected = <<>>)
       /\ \A i \in DOMAIN selected : refs[i] = <<Answers!EvidenceIdOf(selected[i]), selected[i]>>
       /\ refs \in Seq((DOMAIN sent) \X Answers!Keys)
  <2>1. \A i \in DOMAIN selected :
          <<Answers!EvidenceIdOf(selected[i]), selected[i]>> \in (DOMAIN sent) \X Answers!Keys
    BY <1>4, <1>6
  <2>2. refs = [i \in DOMAIN selected |-> <<Answers!EvidenceIdOf(selected[i]), selected[i]>>]
    BY DEF Answers!Refs
  <2> HIDE DEF refs
  <2>3. DOMAIN refs = DOMAIN selected
        /\ \A i \in DOMAIN selected : refs[i] = <<Answers!EvidenceIdOf(selected[i]), selected[i]>>
    BY <2>2
  <2>4. refs \in [1..Len(selected) -> (DOMAIN sent) \X Answers!Keys]
    BY <1>4, <2>1, <2>2
  <2>5. refs \in Seq((DOMAIN sent) \X Answers!Keys) /\ Len(refs) = Len(selected)
    BY <1>4, <2>4
  <2>6. refs = <<>> <=> selected = <<>>
    BY <1>3, <2>5
  <2> QED
    BY <2>3, <2>5, <2>6
<1> HIDE DEF refs
<1>25. OnceEach(refs)
  BY <1>3, <1>24 DEF OnceEach
<1>26. Cardinality(Entries(refs)) = Len(refs)
  BY <1>24, <1>25, OnceEachCounts
<1>27. \A r \in Entries(refs) : r[1] \in DOMAIN sent /\ r[2] \in Entries(sent[r[1]].claims)
  BY <1>4, <1>6, <1>24 DEF Entries
<1>28. [i \in DOMAIN refs |-> refs[i][1]] = ids
  BY <1>24 DEF ids
<1>29. cited = Answers!Distinct([i \in DOMAIN refs |-> refs[i][1]])
  BY <1>9, <1>28
<1>30. u = "insufficient" => refs = <<>> /\ cited = <<>>
  <2> SUFFICES ASSUME u = "insufficient" PROVE refs = <<>> /\ cited = <<>>
    OBVIOUS
  <2>1. selected = <<>>
    BY <1>13, <1>22
  <2>2. keys = {}
    BY <1>4, <2>1
  <2>3. Entries(cited) = {}
    BY <1>12, <2>2
  <2>4. cited = <<>>
    BY <1>10, <2>3 DEF Entries
  <2> QED
    BY <1>24, <2>1, <2>4
<1>31. u # "insufficient" => refs # <<>>
  BY <1>13, <1>22, <1>24
<1>32. Answers!ContractHolds(refs, cited, u)
  <2>1. /\ Answers!Cardinality(Entries(cited)) = Len(cited)
        /\ Answers!Cardinality(Entries(refs)) = Len(refs)
    BY <1>11, <1>26, AnswersCardinality
  <2> QED
    BY <1>27, <1>29, <1>30, <1>31, <2>1 DEF Answers!ContractHolds, Answers!Range, Entries
<1>33. u \in Levels \union {"insufficient"}
  BY <1>19, <1>20
<1> QED
  BY <1>23, <1>32, <1>33 DEF refs
-----------------------------------------------------------------------------
(* The stages of an answer. *)
AnswerStages ==
  {"query", "asked", "evidence", "no_evidence", "unavailable", "invalid", "violation", "answered"}

(* The invariant: what was sent is within every budget, and what is answered  *)
(* is supported by it; a response never violates the contract.                *)
AnswersInv ==
  /\ claims \in [Answers!Keys -> ClaimRows]
  /\ RankedOnce /\ sources \in Nat
  /\ progressOfAnswer \in AnswerStages \ {"violation"}
  /\ SelectionOf(claims, sent, sources)
  /\ progressOfAnswer \in {"query", "asked"} => sent = <<>>
  /\ progressOfAnswer = "answered" => Supports(claims, sent, draft, answer, citations, uncertainty)
  /\ uncertainty \in Levels \union {"none", "insufficient"}
  /\ UrlsTyped(urls)

(* The first state satisfies it. *)
LEMMA AnswersInit == Answers!Init => AnswersInv
<1> SUFFICES ASSUME Answers!Init PROVE AnswersInv
  OBVIOUS
<1>1. claims \in [Answers!Keys -> ClaimRows]
  BY DEF Answers!Init, Answers!Claim, ClaimRows
<1>2. RankedOnce /\ sources \in Nat
  <2>1. ranked = <<>> /\ sources = 1
    BY DEF Answers!Init
  <2>2. ranked \in Seq({1, 2}) /\ DOMAIN ranked = {}
    BY <2>1
  <2> QED
    BY <2>1, <2>2 DEF RankedOnce
<1>3. SelectionOf(claims, sent, sources)
  BY <1>2, EmptySelection DEF Answers!Init
<1> QED
  BY <1>1, <1>2, <1>3 DEF Answers!Init, AnswersInv, AnswerStages, UrlsTyped

(* Every step of the component keeps the invariant. *)
LEMMA AnswersNextKeeps == AnswersInv /\ Answers!Step => AnswersInv'
<1> SUFFICES ASSUME AnswersInv, Answers!Step PROVE AnswersInv'
  OBVIOUS
<1>0. ClaimsTyped
  BY DEF AnswersInv, ClaimsTyped
<1>1. CASE Answers!Ask
  <2>1. \A k \in Answers!Kinds : k \in ClaimRows
    <3>1. ASSUME NEW size \in Nat, NEW able \in BOOLEAN, NEW match \in Nat,
                 NEW type \in {"verified-fact", "estimate", "inference"},
                 NEW confidence \in {"high", "medium", "low"}
          PROVE  Answers!Claim(size, able, match, type, confidence) \in ClaimRows
      BY DEF Answers!Claim, ClaimRows
    <3> QED
      BY <3>1 DEF Answers!Kinds
  <2>2. claims' \in [Answers!Keys -> ClaimRows]
    BY <1>1, <2>1 DEF Answers!Ask
  <2>3. RankedOnce'
    <3>1. ranked' = <<1, 2>> \/ ranked' = <<2, 1>>
      BY <1>1 DEF Answers!Ask
    <3>a. ASSUME NEW x \in {1, 2}, NEW y \in {1, 2}, x # y, NEW s, s = <<x, y>>
          PROVE  s \in Seq({1, 2}) /\ DOMAIN s = 1..2 /\ s[1] # s[2]
      BY <3>a
    <3>2. \A s : s = <<1, 2>> \/ s = <<2, 1>> =>
            s \in Seq({1, 2}) /\ DOMAIN s = 1..2 /\ s[1] # s[2]
      BY <3>a
    <3>3. ranked' \in Seq({1, 2}) /\ DOMAIN ranked' = 1..2 /\ ranked'[1] # ranked'[2]
      BY <3>1, <3>2
    <3>4. \A i \in 1..2 : i = 1 \/ i = 2
      OBVIOUS
    <3> QED
      BY <3>3, <3>4 DEF RankedOnce
  <2>4. sources' \in Nat /\ sent' = <<>>
    BY <1>1 DEF Answers!Ask, AnswersInv
  <2>5. SelectionOf(claims', sent', sources')
    BY <2>4, EmptySelection
  <2> QED
    BY <1>1, <2>2, <2>3, <2>4, <2>5 DEF Answers!Ask, AnswersInv, AnswerStages
<1>2. CASE Answers!Retrieve
  <2>1. sent' = Answers!RetrieveEvidence /\ claims' = claims /\ sources' = sources /\ ranked' = ranked
    BY <1>2 DEF Answers!Retrieve
  <2>2. SelectionOf(claims', sent', sources')
    BY <1>0, <2>1, EvidenceSelected DEF AnswersInv
  <2>3. progressOfAnswer' \in {"no_evidence", "evidence"}
    BY <1>2 DEF Answers!Retrieve
  <2> QED
    BY <1>2, <2>1, <2>2, <2>3 DEF Answers!Retrieve, AnswersInv, AnswerStages, RankedOnce
<1>3. CASE Answers!Generate
  <2>1. PICK d \in Answers!Drafts :
          LET selected == Answers!Distinct(d.keys) IN
          /\ draft' = d
          /\ IF Answers!Accepted(d)
             THEN /\ answer' = Answers!RenderAnswer(selected)
                  /\ citations' = Answers!CitationsFromSelection(selected)
                  /\ uncertainty' = IF d.keys = <<>> THEN "insufficient" ELSE Answers!EffectiveUncertainty(d)
                  /\ progressOfAnswer' = IF Answers!ContractHolds(Answers!Refs(selected), citations', uncertainty')
                                         THEN "answered" ELSE "violation"
             ELSE progressOfAnswer' = "invalid" /\ UNCHANGED <<answer, citations, uncertainty>>
    BY <1>3 DEF Answers!Generate
  <2>2. UNCHANGED <<claims, ranked, sources, sent, urls>>
    BY <1>3 DEF Answers!Generate
  <2>3. CASE Answers!Accepted(d)
    <3> DEFINE selected == Answers!Distinct(d.keys)
    <3>1. /\ draft' = d /\ answer' = Answers!RenderAnswer(selected)
          /\ citations' = Answers!CitationsFromSelection(selected)
          /\ uncertainty' = IF d.keys = <<>> THEN "insufficient" ELSE Answers!EffectiveUncertainty(d)
          /\ progressOfAnswer' = IF Answers!ContractHolds(Answers!Refs(selected), citations', uncertainty')
                                 THEN "answered" ELSE "violation"
      BY <2>1, <2>3
    <3>2. SelectionOf(claims, sent, sources)
      BY DEF AnswersInv
    <3> HIDE DEF selected
    <3>3. /\ Supports(claims, sent, d, answer', citations', uncertainty')
          /\ Answers!ContractHolds(Answers!Refs(selected), citations', uncertainty')
          /\ uncertainty' \in Levels \union {"insufficient"}
      BY <1>0, <2>3, <3>1, <3>2, AcceptedIsSupported DEF selected
    <3>4. progressOfAnswer' = "answered" /\ Supports(claims', sent', draft', answer', citations', uncertainty')
      BY <2>2, <3>1, <3>3
    <3> QED
      BY <2>2, <3>3, <3>4 DEF AnswersInv, AnswerStages, RankedOnce
  <2>4. CASE ~Answers!Accepted(d)
    <3>1. progressOfAnswer' = "invalid" /\ UNCHANGED uncertainty
      BY <2>1, <2>4
    <3> QED
      BY <2>2, <3>1 DEF AnswersInv, AnswerStages, RankedOnce
  <2> QED
    BY <2>3, <2>4
<1>4. CASE Answers!GenerateFails
  BY <1>4 DEF Answers!GenerateFails, AnswersInv, AnswerStages, RankedOnce
<1>5. CASE Answers!BoundUrls
  <2>1. UrlsTyped(urls')
    BY <1>5 DEF Answers!BoundUrls, UrlsTyped
  <2> QED
    BY <1>5, <2>1 DEF Answers!BoundUrls, AnswersInv, RankedOnce
<1> QED
  BY <1>1, <1>2, <1>3, <1>4, <1>5 DEF Answers!Step

(* So does a step that leaves the component alone. *)
LEMMA AnswersKept == AnswersInv /\ UNCHANGED answering => AnswersInv'
  BY DEF AnswersInv, answering, RankedOnce

(* The invariant implies both properties. *)
LEMMA AnswersHold == AnswersInv => Answers!EvidenceWithinBudget /\ Answers!AnswerSupported
<1> SUFFICES ASSUME AnswersInv PROVE Answers!EvidenceWithinBudget /\ Answers!AnswerSupported
  OBVIOUS
<1>1. SelectionOf(claims, sent, sources)
  BY DEF AnswersInv
<1>2. Len(sent) <= sources /\ Answers!Serialized(sent) <= MaxInput
  BY <1>1, SerializedNamed DEF SelectionOf
<1>3. \A i, j \in DOMAIN sent : sent[i].item = sent[j].item => i = j
  BY <1>1 DEF SelectionOf
<1>4. ASSUME NEW i \in DOMAIN sent
      PROVE  LET kept == Entries(sent[i].claims) able == Answers!Usable(sent[i].item) IN
             /\ kept # {} /\ kept \subseteq able
             /\ Answers!Cardinality(kept) <= MaxClaims /\ Answers!Size(kept) <= MaxEvidence
             /\ \A k \in able \ kept :
                  LET better == {j \in kept : Answers!Before(j, k)} IN
                  \/ Answers!Cardinality(better) = MaxClaims
                  \/ Answers!Size(better) + claims[k].size > MaxEvidence
  <2> DEFINE kept == Entries(sent[i].claims)
             able == Answers!Usable(sent[i].item)
  <2>1. kept # {} /\ KeptOf(claims, kept, sent[i].item)
    BY <1>1 DEF SelectionOf
  <2>2. able = UsableOf(claims, sent[i].item)
    BY ClaimsNamed
  <2> HIDE DEF kept, able
  <2>3. /\ kept \subseteq able /\ Cardinality(kept) <= MaxClaims /\ WeightOf(claims, kept) <= MaxEvidence
        /\ \A k \in able \ kept : Omitted(claims, k, kept)
    BY <2>1, <2>2 DEF KeptOf
  <2>4. ASSUME NEW k \in able \ kept, NEW better, better = {j \in kept : Answers!Before(j, k)}
        PROVE  \/ Answers!Cardinality(better) = MaxClaims
               \/ Answers!Size(better) + claims[k].size > MaxEvidence
    <3>1. better = {j \in kept : Precedes(claims, j, k)}
      BY <2>4, ClaimsNamed
    <3>2. Cardinality(better) = MaxClaims \/ WeightOf(claims, better) + claims[k].size > MaxEvidence
      BY <2>3, <3>1 DEF Omitted
    <3> QED
      BY <3>2, ClaimsNamed, AnswersCardinality
  <2>5. Answers!Cardinality(kept) <= MaxClaims /\ Answers!Size(kept) <= MaxEvidence
    BY <2>3, ClaimsNamed, AnswersCardinality
  <2> QED
    BY <2>1, <2>3, <2>4, <2>5 DEF kept, able
<1>5. /\ Answers!SumFunctionOnSet(urls, Answers!BoundedUrls(urls)) <= MaxUrlTotal
      /\ Answers!Cardinality(Answers!BoundedUrls(urls)) <= MaxUrls
      /\ (\E i \in DOMAIN urls : urls[i] \in 1..MaxUrl) => Answers!BoundedUrls(urls) # {}
  BY UrlsBounded DEF AnswersInv
<1>6. Answers!EvidenceWithinBudget
  BY <1>2, <1>3, <1>4, <1>5 DEF Answers!EvidenceWithinBudget, Answers!Range, Entries
<1>7. Answers!AnswerSupported
  <2>1. progressOfAnswer # "violation"
    BY DEF AnswersInv
  <2>2. progressOfAnswer = "answered" => Supports(claims, sent, draft, answer, citations, uncertainty)
    BY DEF AnswersInv
  <2> QED
    BY <2>1, <2>2, AnswersCardinality DEF Supports, Answers!AnswerSupported, Answers!Range, Entries
<1> QED
  BY <1>6, <1>7

(* It implies the component's types. *)
LEMMA AnswersTypes == AnswersInv => Answers!TypeOK
<1> SUFFICES ASSUME AnswersInv PROVE Answers!TypeOK
  OBVIOUS
<1>1. progressOfAnswer \in AnswerStages /\ uncertainty \in DOMAIN Answers!Rank \union {"none", "insufficient"}
  BY DEF AnswersInv, AnswerStages, Answers!Rank, Levels
<1>2. ASSUME NEW i \in DOMAIN sent
      PROVE  sent[i].item \in {1, 2} /\ Entries(sent[i].claims) \subseteq Answers!Keys
  <2>1. sent[i] \in EvidenceRows
    BY DEF AnswersInv, SelectionOf
  <2>2. sent[i].claims \in Seq(Answers!Keys)
    BY <2>1 DEF EvidenceRows
  <2>3. Entries(sent[i].claims) \subseteq Answers!Keys
    BY <2>2, ListIs
  <2> QED
    BY <2>1, <2>3 DEF EvidenceRows
<1> QED
  BY <1>1, <1>2 DEF Answers!TypeOK, AnswerStages, Answers!Range, Entries

-----------------------------------------------------------------------------
(* TeamPlan                                                                *)

LEMMA TeamRange ==
  ASSUME NEW f
  PROVE  Team!Range(f) = Entries(f)
  BY DEF Team!Range, Entries

(* The cardinality the component uses is the module's. *)
LEMMA TeamCardinality ==
  ASSUME NEW S
  PROVE  Team!Cardinality(S) = Cardinality(S)
  BY DEF Team!Cardinality, Cardinality

(* The lesser of two numbers. *)
LEMMA TeamMin ==
  ASSUME NEW a \in Nat, NEW b \in Nat
  PROVE  Team!Min({a, b}) = IF a <= b THEN a ELSE b
<1> DEFINE m == IF a <= b THEN a ELSE b
<1>1. m \in {a, b} /\ \A y \in {a, b} : m =< y
  OBVIOUS
<1>2. \A x \in {a, b} : (\A y \in {a, b} : x =< y) => x = m
  OBVIOUS
<1> HIDE DEF m
<1>3. (CHOOSE x \in {a, b} : \A y \in {a, b} : x =< y) = m
  BY <1>1, <1>2
<1> QED
  BY <1>3 DEF Team!Min, m

(* The greater of two numbers. *)
LEMMA TeamMax ==
  ASSUME NEW a \in Nat, NEW b \in Nat
  PROVE  Team!Max({a, b}) = IF a >= b THEN a ELSE b
<1> DEFINE m == IF a >= b THEN a ELSE b
<1>1. m \in {a, b} /\ \A y \in {a, b} : m >= y
  OBVIOUS
<1>2. \A x \in {a, b} : (\A y \in {a, b} : x >= y) => x = m
  OBVIOUS
<1> HIDE DEF m
<1>3. (CHOOSE x \in {a, b} : \A y \in {a, b} : x >= y) = m
  BY <1>1, <1>2
<1> QED
  BY <1>3 DEF Team!Max, m

(* Who is registered, and in which phase each works. *)
LEMMA TeamAgents ==
  /\ Team!Agents = Team!Specialists \union Team!Verifiers \union {Team!Coordinator, Team!Reviewer}
  /\ Team!Specialists \cap (Team!Verifiers \union {Team!Coordinator, Team!Reviewer}) = {}
  /\ Team!Coordinator # Team!Reviewer /\ Team!Phase[Team!Coordinator] = "plan"
  /\ Team!Phase[Team!Reviewer] = "verify"
  /\ \A a \in Team!Agents : Team!Phase[a] \in {"plan", "build", "release", "verify"}
  /\ \A a \in Team!Agents : Team!Priority[a] \in Nat
  BY DEF Team!Agents, Team!Phase, Team!Priority, Team!Specialists, Team!Verifiers, Team!Coordinator, Team!Reviewer

(* Names are compared by their places, and no two agents have the same one. *)
LEMMA NamePlaces ==
  ASSUME NEW a \in Team!Agents
  PROVE  Team!Place(Team!ByName, a) \in Nat /\ Team!ByName[Team!Place(Team!ByName, a)] = a
<1> DEFINE i == Team!Place(Team!ByName, a)
           D == DOMAIN Team!ByName
<1>1. D = 1..7
  BY DEF Team!ByName
<1>2. \E j \in D : Team!ByName[j] = a
  <2>1. \E j \in 1..7 : Team!ByName[j] = a
    BY DEF Team!ByName, Team!Agents, Team!Phase
  <2> QED
    BY <1>1, <2>1
<1>3. i \in D /\ Team!ByName[i] = a
  BY <1>2 DEF Team!Place
<1> QED
  BY <1>1, <1>3

(* Agents are ordered by priority and name. *)
LEMMA RanksOrder ==
  \A a, b, c \in Team!Agents :
    /\ ~Team!Outranks(a, a)
    /\ a # b => Team!Outranks(a, b) \/ Team!Outranks(b, a)
    /\ Team!Outranks(a, b) /\ Team!Outranks(b, c) => Team!Outranks(a, c)
<1> DEFINE place == [a \in Team!Agents |-> Team!Place(Team!ByName, a)]
           weight == [a \in Team!Agents |-> Team!Priority[a]]
<1>1. \A a \in Team!Agents : place[a] \in Nat /\ weight[a] \in Nat
  BY NamePlaces, TeamAgents
<1>2. \A a, b \in Team!Agents : a # b => place[a] # place[b]
  <2>1. \A a \in Team!Agents : Team!ByName[place[a]] = a
    BY NamePlaces
  <2> QED
    BY <2>1
<1>3. \A a, b \in Team!Agents :
        Team!Outranks(a, b) <=> weight[a] > weight[b] \/ (weight[a] = weight[b] /\ place[a] < place[b])
  BY DEF Team!Outranks, Team!NamedBefore
<1> HIDE DEF place, weight
<1> QED
  BY <1>1, <1>2, <1>3

(* There are finitely many specialists. *)
LEMMA FewSpecialists == IsFiniteSet(Team!Specialists)
<1>1. IsFiniteSet({"architect"})
  BY FS_Singleton
<1>2. IsFiniteSet({"architect"} \union {"backend"})
  BY <1>1, FS_AddElement
<1>3. IsFiniteSet({"architect"} \union {"backend"} \union {"devops"})
  BY <1>2, FS_AddElement
<1>4. Team!Specialists = {"architect"} \union {"backend"} \union {"devops"}
  BY DEF Team!Specialists
<1> QED
  BY <1>3, <1>4

(* Specialists who are ordered can be put in a sequence in that order. *)
LEMMA TeamOrders ==
  ASSUME NEW R, NEW S, S \subseteq Team!Specialists, Orders(R, S)
  PROVE  LET n == Cardinality(S)
             Q(s) == s \in Team!SetToSeqs(S) /\ \A i, j \in DOMAIN s : i < j => <<s[i], s[j]>> \in R
         IN  \E s : Q(s)
<1> DEFINE n == Cardinality(S)
<1>1. IsFiniteSet(S)
  BY FewSpecialists, FS_Subset
<1>2. PICK s : Listing(s, R, S)
  BY <1>1, ListingExists
<1>3. Team!SetToSeqs(S) = {f \in [1..n -> S] : \A i, j \in 1..n : i # j => f[i] # f[j]}
  BY TeamCardinality DEF Team!SetToSeqs
<1>4. /\ s \in [1..n -> S]
      /\ \A i, j \in 1..n : i # j => s[i] # s[j]
      /\ \A i, j \in 1..n : i < j => <<s[i], s[j]>> \in R
  BY <1>2 DEF Listing
<1> QED
  BY <1>3, <1>4

(* A list of specialists, each of them once *)
Several(s) == s \in Seq(Team!Specialists) /\ OnceEach(s)

(* Putting specialists in a sequence lists some, each once. *)
LEMMA SeveralOf ==
  ASSUME NEW S, S \subseteq Team!Specialists, NEW s \in Team!SetToSeqs(S)
  PROVE  Several(s)
<1> DEFINE n == Cardinality(S)
<1>1. IsFiniteSet(S) /\ n \in Nat
  BY FewSpecialists, FS_Subset, FS_CardinalityType
<1>2. Team!SetToSeqs(S) = {f \in [1..n -> S] : \A i, j \in 1..n : i # j => f[i] # f[j]}
  BY TeamCardinality DEF Team!SetToSeqs
<1>3. s \in [1..n -> S] /\ DOMAIN s = 1..n /\ \A i, j \in 1..n : i # j => s[i] # s[j]
  BY <1>2
<1> HIDE DEF n
<1>4. s \in Seq(Team!Specialists)
  BY <1>1, <1>3
<1>5. OnceEach(s)
  BY <1>3 DEF OnceEach
<1> QED
  BY <1>4, <1>5 DEF Several

(* The portfolio order lists specialists, each once. *)
LEMMA ByPhaseIs ==
  ASSUME NEW b \in Team!Briefs
  PROVE  Several(Team!ByPhase(b))
<1> DEFINE S == Team!PortfolioAgents(b)
           R == {p \in S \X S : Team!Earlier(p[1], p[2])}
           rank == [a \in Team!Agents |-> Team!PhaseRank[Team!Phase[a]]]
           Q(s) == s \in Team!SetToSeqs(S) /\ \A i, j \in DOMAIN s : i < j => Team!Earlier(s[i], s[j])
<1>1. S \subseteq Team!Specialists /\ S \subseteq Team!Agents
  BY TeamAgents DEF Team!PortfolioAgents
<1>2. /\ \A a \in Team!Agents : rank[a] \in Nat
      /\ \A a, c \in Team!Agents : Team!Phase[a] = Team!Phase[c] <=> rank[a] = rank[c]
  BY TeamAgents DEF Team!PhaseRank
<1>3. \A a, c \in Team!Agents :
        Team!Earlier(a, c) <=> rank[a] < rank[c] \/ (rank[a] = rank[c] /\ Team!Outranks(a, c))
  BY <1>2 DEF Team!Earlier
<1> HIDE DEF rank, S
<1>4. \A a, c, d \in S :
        /\ ~Team!Earlier(a, a)
        /\ a # c => Team!Earlier(a, c) \/ Team!Earlier(c, a)
        /\ Team!Earlier(a, c) /\ Team!Earlier(c, d) => Team!Earlier(a, d)
  BY <1>1, <1>2, <1>3, RanksOrder
<1>5. Orders(R, S)
  BY <1>4 DEF Orders
<1>6. \E s : s \in Team!SetToSeqs(S) /\ \A i, j \in DOMAIN s : i < j => <<s[i], s[j]>> \in R
  <2> HIDE DEF R
  <2> QED BY <1>1, <1>5, TeamOrders
<1>7. \E s : Q(s)
  BY <1>6
<1>8. Q(CHOOSE s : Q(s))
  BY <1>7
<1>9. Team!ByPhase(b) = CHOOSE s : Q(s)
  BY DEF Team!ByPhase, S
<1>10. Team!ByPhase(b) \in Team!SetToSeqs(S)
  BY <1>8, <1>9
<1> QED
  BY <1>1, <1>10, SeveralOf

(* The order by score lists specialists, each once. *)
LEMMA ByScoreIs ==
  ASSUME NEW b \in Team!Briefs
  PROVE  Several(Team!ByScore(b))
<1> DEFINE S == {a \in Team!Specialists : b.score[a] > 0}
           R == {p \in S \X S : Team!Likelier(b.score, p[1], p[2])}
           Q(s) == s \in Team!SetToSeqs(S) /\ \A i, j \in DOMAIN s : i < j => Team!Likelier(b.score, s[i], s[j])
<1>1. S \subseteq Team!Specialists /\ S \subseteq Team!Agents
  BY TeamAgents
<1>2. \A a \in Team!Specialists : b.score[a] \in Nat
  BY DEF Team!Briefs
<1>3. \A a, c \in Team!Agents : Team!Likelier(b.score, a, c) <=>
         b.score[a] > b.score[c] \/ (b.score[a] = b.score[c] /\ Team!Outranks(a, c))
  BY DEF Team!Likelier
<1>4. \A a, c, d \in S :
        /\ ~Team!Likelier(b.score, a, a)
        /\ a # c => Team!Likelier(b.score, a, c) \/ Team!Likelier(b.score, c, a)
        /\ Team!Likelier(b.score, a, c) /\ Team!Likelier(b.score, c, d) => Team!Likelier(b.score, a, d)
  BY <1>1, <1>2, <1>3, RanksOrder
<1> HIDE DEF S
<1>5. Orders(R, S)
  BY <1>4 DEF Orders
<1>6. \E s : s \in Team!SetToSeqs(S) /\ \A i, j \in DOMAIN s : i < j => <<s[i], s[j]>> \in R
  <2> HIDE DEF R
  <2> QED BY <1>1, <1>5, TeamOrders
<1>7. \E s : Q(s)
  BY <1>6
<1>8. Q(CHOOSE s : Q(s))
  BY <1>7
<1>9. Team!ByScore(b) = CHOOSE s : Q(s)
  BY DEF Team!ByScore, S
<1>10. Team!ByScore(b) \in Team!SetToSeqs(S)
  BY <1>8, <1>9
<1> QED
  BY <1>1, <1>10, SeveralOf

(* Who is best of some is one of them. *)
LEMMA BestIs ==
  ASSUME NEW S, S \in {{}, {"qa"}, {"qa", "security"}, {"security"}, {"reviewer"}}, S # {}
  PROVE  Team!Best(S) \in S
<1> DEFINE Q(a) == \A c \in S \ {a} :
             Team!Priority[a] > Team!Priority[c]
             \/ (Team!Priority[a] = Team!Priority[c] /\ Team!NamedBefore(c, a))
<1>1. CASE \E a : S = {a}
  <2>1. PICK a : S = {a}
    BY <1>1
  <2>2. a \in S /\ Q(a)
    BY <2>1
  <2> HIDE DEF Q
  <2>3. (CHOOSE x \in S : Q(x)) \in S
    BY <2>2
  <2> QED
    BY <2>3 DEF Team!Best, Q
<1>2. CASE S = {"qa", "security"}
  <2>1. Team!Priority["qa"] = Team!Priority["security"] /\ "qa" \in Team!Agents /\ "security" \in Team!Agents
    BY DEF Team!Priority, Team!Agents, Team!Phase
  <2>2. Team!NamedBefore("qa", "security") \/ Team!NamedBefore("security", "qa")
    BY <2>1, NamePlaces DEF Team!NamedBefore
  <2>3. S \ {"qa"} = {"security"} /\ S \ {"security"} = {"qa"}
    BY <1>2
  <2>4. Q("qa") \/ Q("security")
    BY <2>1, <2>2, <2>3
  <2> HIDE DEF Q
  <2>5. (CHOOSE x \in S : Q(x)) \in S
    BY <1>2, <2>4
  <2> QED
    BY <2>5 DEF Team!Best, Q
<1> QED
  BY <1>1, <1>2

-----------------------------------------------------------------------------
(* A list keeps its beginning. *)
LEMMA TruncatedIs ==
  ASSUME NEW X, NEW s \in Seq(X), OnceEach(s), NEW most \in Nat
  PROVE  /\ Team!Truncated(s, most) \in Seq(X) /\ OnceEach(Team!Truncated(s, most))
         /\ Len(Team!Truncated(s, most)) <= most
         /\ Entries(Team!Truncated(s, most)) \subseteq Entries(s)
<1> DEFINE n == Team!Min({most, Len(s)})
           t == SubSeq(s, 1, n)
<1>1. Len(s) \in Nat /\ DOMAIN s = 1..Len(s) /\ \A i \in 1..Len(s) : s[i] \in X
  OBVIOUS
<1>2. n \in Nat /\ n <= most /\ n <= Len(s)
  <2>1. n = IF most <= Len(s) THEN most ELSE Len(s)
    BY <1>1, TeamMin
  <2> QED
    BY <1>1, <2>1
<1>3. Team!Truncated(s, most) = t
  BY DEF Team!Truncated
<1> HIDE DEF n
<1>4. t \in Seq(X) /\ Len(t) = n /\ DOMAIN t = 1..n /\ \A i \in 1..n : t[i] = s[i] /\ i \in DOMAIN s
  BY <1>1, <1>2
<1> HIDE DEF t
<1>5. OnceEach(t)
  BY <1>4 DEF OnceEach
<1>6. Entries(t) \subseteq Entries(s)
  BY <1>4 DEF Entries
<1> QED
  BY <1>2, <1>3, <1>4, <1>5, <1>6

(* Unique is a loop that appends what is new. *)
LEMMA UniqueRun ==
  ASSUME NEW X, NEW s \in Seq(X), NEW n, n = Len(s)
  PROVE  \E run \in [0..n -> Seq(X)] :
           /\ run[0] = <<>> /\ run[n] = Team!Unique(s)
           /\ \A i \in 1..n : run[i] = IF s[i] \in Entries(run[i - 1])
                                       THEN run[i - 1] ELSE Append(run[i - 1], s[i])
<1> DEFINE Y == Seq(X)
           step == [p \in (1..n) \X Y |->
                      IF s[p[1]] \in Entries(p[2]) THEN p[2] ELSE Append(p[2], s[p[1]])]
           Rec(it) == it = [t \in SUBSET (1..n) |->
                              IF t = {} THEN <<>>
                              ELSE IF s[Largest(t)] \in Team!Range(it[t \ {Largest(t)}])
                                   THEN it[t \ {Largest(t)}]
                                   ELSE Append(it[t \ {Largest(t)}], s[Largest(t)])]
           chosen == CHOOSE it : Rec(it)
<1>1. n \in Nat /\ DOMAIN s = 1..n /\ \A i \in 1..n : s[i] \in X
  OBVIOUS
<1>2. \A list \in Y : \A x : x \in Team!Range(list) <=> x \in Entries(list)
  <2> SUFFICES ASSUME NEW list \in Y, NEW x PROVE x \in Team!Range(list) <=> x \in Entries(list)
    OBVIOUS
  <2>1. DOMAIN list = 1..Len(list)
    OBVIOUS
  <2> QED
    BY <2>1 DEF Team!Range, Entries
<1>3. step \in [(1..n) \X Y -> Y] /\ <<>> \in Y
  BY <1>1
<1>4. \A t \in SUBSET (1..n) : t # {} => Largest(t) \in t /\ Largest(t) \in 1..n
  <2>1. \A t \in SUBSET (1..n) : t \subseteq 0..n
    BY <1>1
  <2> QED
    BY <1>1, <2>1, LargestIs
<1>6. Stepwise(step, n, Y, <<>>)
  BY <1>1, <1>3 DEF Stepwise
<1>7. PICK g : Folds(g, step, n, Y, <<>>)
  <2> HIDE DEF step, Y
  <2> QED BY <1>6, FoldExists
<1>8. /\ g \in [SUBSET (1..n) -> Y]
      /\ \A t \in SUBSET (1..n) : g[t] = IF t = {} THEN <<>> ELSE step[<<Largest(t), g[t \ {Largest(t)}]>>]
  <2> HIDE DEF step, Y
  <2> QED BY <1>7 DEF Folds
<1>9. Rec(g)
  <2>1. \A t \in SUBSET (1..n) : t # {} =>
          step[<<Largest(t), g[t \ {Largest(t)}]>>]
            = IF s[Largest(t)] \in Team!Range(g[t \ {Largest(t)}])
              THEN g[t \ {Largest(t)}] ELSE Append(g[t \ {Largest(t)}], s[Largest(t)])
    <3> SUFFICES ASSUME NEW t \in SUBSET (1..n), t # {}
                 PROVE  step[<<Largest(t), g[t \ {Largest(t)}]>>]
                          = IF s[Largest(t)] \in Team!Range(g[t \ {Largest(t)}])
                            THEN g[t \ {Largest(t)}] ELSE Append(g[t \ {Largest(t)}], s[Largest(t)])
      OBVIOUS
    <3>1. Largest(t) \in 1..n
      BY <1>4
    <3>2. g[t \ {Largest(t)}] \in Y
      BY <1>8
    <3> HIDE DEF Y
    <3> QED
      BY <1>2, <3>1, <3>2
  <2> HIDE DEF step
  <2> QED BY <1>8, <2>1
<1>10. Rec(chosen)
  BY <1>9
<1>11. Team!Unique(s) = chosen[1..n]
  BY <1>1 DEF Team!Unique, Team!FoldLeft, Team!MapThenFoldSet, Team!Max, Largest
<1> HIDE DEF chosen
<1>12. chosen = [t \in SUBSET (1..n) |-> chosen[t]] /\ chosen[{}] = <<>>
  BY <1>10
<1>13. ASSUME NEW t \in SUBSET (1..n), t # {}, chosen[t \ {Largest(t)}] \in Y
       PROVE  chosen[t] = step[<<Largest(t), chosen[t \ {Largest(t)}]>>]
  <2>1. Largest(t) \in 1..n
    BY <1>4, <1>13
  <2>2. chosen[t] = IF s[Largest(t)] \in Team!Range(chosen[t \ {Largest(t)}])
                    THEN chosen[t \ {Largest(t)}] ELSE Append(chosen[t \ {Largest(t)}], s[Largest(t)])
    BY <1>10, <1>13
  <2> HIDE DEF Y
  <2> QED
    BY <1>2, <1>13, <2>1, <2>2
<1>14. Follows(chosen, step, n, Y, <<>>)
  <2> HIDE DEF step, Y
  <2> QED BY <1>12, <1>13 DEF Follows
<1>15. RunsTo(chosen[1..n], step, n, Y, <<>>)
  <2> HIDE DEF step, Y
  <2> QED BY <1>6, <1>14, FoldRuns
<1>16. PICK run \in [0..n -> Y] :
         /\ run[0] = <<>> /\ run[n] = chosen[1..n]
         /\ \A i \in 1..n : run[i] = step[<<i, run[i - 1]>>]
  <2> HIDE DEF step, Y
  <2> QED BY <1>15 DEF RunsTo
<1>17. ASSUME NEW i \in 1..n
       PROVE  run[i] = IF s[i] \in Entries(run[i - 1]) THEN run[i - 1] ELSE Append(run[i - 1], s[i])
  <2>1. run[i - 1] \in Y
    BY <1>1
  <2> QED BY <1>16, <2>1
<1> QED
  BY <1>11, <1>16, <1>17

(* Unique keeps all entries, each once, the first in front. *)
LEMMA UniqueIs ==
  ASSUME NEW X, NEW s \in Seq(X)
  PROVE  /\ Team!Unique(s) \in Seq(X) /\ OnceEach(Team!Unique(s)) /\ Entries(Team!Unique(s)) = Entries(s)
         /\ Len(s) > 0 => Len(Team!Unique(s)) > 0 /\ Team!Unique(s)[1] = s[1]
  BY UniqueRun, Deduplicated

-----------------------------------------------------------------------------
(* A loop that keeps what is in K keeps each of it once, the first thing      *)
(* first.                                                                  *)
KeptOnce(i, list, s, K) ==
  /\ OnceEach(list) /\ Entries(list) = {s[j] : j \in 1..i} \cap K
  /\ i > 0 /\ s[1] \in K => Len(list) > 0 /\ list[1] = s[1]

(* Appending an entry of K, and only then, keeps what KeptOnce says. *)
LEMMA KeepOnce ==
  ASSUME NEW X, NEW K, NEW s \in Seq(X), OnceEach(s), NEW i \in 1..Len(s), NEW list \in Seq(X),
         KeptOnce(i - 1, list, s, K),
         NEW next, next = IF s[i] \in K THEN Append(list, s[i]) ELSE list
  PROVE  KeptOnce(i, next, s, K)
<1>1. /\ i \in Nat /\ i > 0 /\ 1..i = 1..(i - 1) \union {i} /\ s[i] \in X
      /\ Len(list) \in Nat /\ DOMAIN list = 1..Len(list) /\ DOMAIN s = 1..Len(s)
  OBVIOUS
<1>2. {s[j] : j \in 1..i} = {s[j] : j \in 1..(i - 1)} \union {s[i]}
  BY <1>1
<1>3. /\ OnceEach(list) /\ Entries(list) = {s[j] : j \in 1..(i - 1)} \cap K
      /\ i - 1 > 0 /\ s[1] \in K => Len(list) > 0 /\ list[1] = s[1]
  BY DEF KeptOnce
<1>4. CASE s[i] \notin K
  <2>1. next = list /\ Entries(list) = {s[j] : j \in 1..i} \cap K
    BY <1>2, <1>3, <1>4
  <2>2. s[1] \in K => i - 1 > 0
    BY <1>1, <1>4
  <2> QED
    BY <1>3, <2>1, <2>2 DEF KeptOnce
<1>5. CASE s[i] \in K
  <2>1. next = Append(list, s[i])
    BY <1>5
  <2>2. s[i] \notin Entries(list)
    <3>1. \A j \in 1..(i - 1) : j \in DOMAIN s /\ i \in DOMAIN s /\ j # i
      BY <1>1
    <3>2. \A j \in 1..(i - 1) : s[j] # s[i]
      BY <3>1 DEF OnceEach
    <3> QED
      BY <1>3, <3>2
  <2>3. OnceEach(next)
    BY <1>1, <1>3, <2>1, <2>2, AppendOnce
  <2>4. Entries(next) = {s[j] : j \in 1..i} \cap K
    BY <1>1, <1>2, <1>3, <1>5, <2>1, AppendEntries
  <2>5. Len(next) = Len(list) + 1 /\ Len(next) > 0
    BY <1>1, <2>1
  <2>6. s[1] \in K => next[1] = s[1]
    <3>1. CASE i = 1
      <4>1. Entries(list) = {}
        <5>1. 1..(i - 1) = {}
          BY <3>1
        <5> QED
          BY <1>3, <5>1
      <4>2. list = <<>>
        BY <4>1, ListIs
      <4>3. Len(list) = 0
        BY <4>2
      <4>4. next[Len(list) + 1] = s[i]
        BY <1>1, <2>1
      <4> QED
        BY <3>1, <4>3, <4>4
    <3>2. CASE i # 1
      <4>1. s[1] \in K => Len(list) > 0 /\ list[1] = s[1]
        BY <1>1, <1>3, <3>2
      <4> QED
        BY <1>1, <2>1, <4>1
    <3> QED
      BY <3>1, <3>2
  <2> QED
    BY <2>3, <2>4, <2>5, <2>6 DEF KeptOnce
<1> QED
  BY <1>4, <1>5

(* A loop that appends the entries of K keeps those, each once, and the first *)
(* in front if it is of K.                                                    *)
LEMMA Filtered ==
  ASSUME NEW X, NEW K, NEW s \in Seq(X), OnceEach(s), NEW n, n = Len(s),
         NEW run \in [0..n -> Seq(X)], run[0] = <<>>,
         \A i \in 1..n : run[i] = IF s[i] \in K THEN Append(run[i - 1], s[i]) ELSE run[i - 1]
  PROVE  /\ run[n] \in Seq(X) /\ OnceEach(run[n]) /\ Entries(run[n]) = Entries(s) \cap K
         /\ n > 0 /\ s[1] \in K => Len(run[n]) > 0 /\ run[n][1] = s[1]
<1> DEFINE N == {i \in Nat : i <= n => KeptOnce(i, run[i], s, K)}
<1>1. n \in Nat /\ DOMAIN s = 1..n /\ run[n] \in Seq(X)
  OBVIOUS
<1>2. 0 \in N
  <2>1. OnceEach(<<>>) /\ Entries(<<>>) = {} /\ {s[j] : j \in 1..0} = {}
    BY DEF OnceEach, Entries
  <2>2. KeptOnce(0, run[0], s, K)
    BY <2>1 DEF KeptOnce
  <2> QED
    BY <2>2
<1>3. ASSUME NEW i \in Nat, i \in N PROVE i + 1 \in N
  <2> SUFFICES ASSUME i + 1 <= n PROVE KeptOnce(i + 1, run[i + 1], s, K)
    OBVIOUS
  <2>1. i + 1 \in 1..n /\ i \in 0..n /\ i <= n /\ (i + 1) - 1 = i
    BY <1>1
  <2>2. KeptOnce(i, run[i], s, K) /\ run[i] \in Seq(X)
    BY <1>3, <2>1
  <2>3. run[i + 1] = IF s[i + 1] \in K THEN Append(run[i], s[i + 1]) ELSE run[i]
    BY <2>1
  <2>4. i + 1 \in 1..Len(s) /\ KeptOnce((i + 1) - 1, run[i], s, K)
    BY <2>1, <2>2
  <2> DEFINE next == run[i + 1]
             list == run[i]
  <2>5. next = IF s[i + 1] \in K THEN Append(list, s[i + 1]) ELSE list
    BY <2>3
  <2> HIDE DEF next, list
  <2>6. list \in Seq(X) /\ KeptOnce((i + 1) - 1, list, s, K)
    BY <2>2, <2>4 DEF list
  <2>7. KeptOnce(i + 1, next, s, K)
    BY <2>4, <2>5, <2>6, KeepOnce
  <2> QED
    BY <2>7 DEF next
<1>4. Nat \subseteq N
  <2> HIDE DEF N
  <2> QED BY <1>2, <1>3, NatSetInduction
<1>5. KeptOnce(n, run[n], s, K)
  BY <1>1, <1>4
<1>6. Entries(s) = {s[j] : j \in 1..n}
  BY <1>1 DEF Entries
<1> QED
  BY <1>1, <1>5, <1>6 DEF KeptOnce

(* The members of a phase, the reviewer aside *)
MembersOf(phase) == {a \in Team!Agents : Team!Phase[a] = phase /\ a # Team!Reviewer}

(* OfPhase is a loop that appends the members of a phase. *)
LEMMA OfPhaseRun ==
  ASSUME NEW s \in Seq(Team!Agents), NEW n, n = Len(s), NEW phase
  PROVE  \E run \in [0..n -> Seq(Team!Agents)] :
           /\ run[0] = <<>> /\ run[n] = Team!OfPhase(s, phase)
           /\ \A i \in 1..n : run[i] = IF s[i] \in MembersOf(phase)
                                       THEN Append(run[i - 1], s[i]) ELSE run[i - 1]
<1> DEFINE Y == Seq(Team!Agents)
           step == [p \in (1..n) \X Y |->
                      IF s[p[1]] \in MembersOf(phase) THEN Append(p[2], s[p[1]]) ELSE p[2]]
           Rec(it) == it = [t \in SUBSET (1..n) |->
                              IF t = {} THEN <<>>
                              ELSE IF Team!Phase[s[Largest(t)]] = phase /\ s[Largest(t)] # Team!Reviewer
                                   THEN Append(it[t \ {Largest(t)}], s[Largest(t)])
                                   ELSE it[t \ {Largest(t)}]]
           chosen == CHOOSE it : Rec(it)
<1>1. n \in Nat /\ DOMAIN s = 1..n /\ \A i \in 1..n : s[i] \in Team!Agents
  OBVIOUS
<1>2. \A i \in 1..n : s[i] \in MembersOf(phase) <=> Team!Phase[s[i]] = phase /\ s[i] # Team!Reviewer
  BY <1>1 DEF MembersOf
<1>3. step \in [(1..n) \X Y -> Y] /\ <<>> \in Y
  BY <1>1
<1>4. \A t \in SUBSET (1..n) : t # {} => Largest(t) \in t /\ Largest(t) \in 1..n
  <2>1. \A t \in SUBSET (1..n) : t \subseteq 0..n
    BY <1>1
  <2> QED
    BY <1>1, <2>1, LargestIs
<1>6. Stepwise(step, n, Y, <<>>)
  BY <1>1, <1>3 DEF Stepwise
<1>7. PICK g : Folds(g, step, n, Y, <<>>)
  <2> HIDE DEF step, Y
  <2> QED BY <1>6, FoldExists
<1>8. /\ g \in [SUBSET (1..n) -> Y]
      /\ \A t \in SUBSET (1..n) : g[t] = IF t = {} THEN <<>> ELSE step[<<Largest(t), g[t \ {Largest(t)}]>>]
  <2> HIDE DEF step, Y
  <2> QED BY <1>7 DEF Folds
<1>9. Rec(g)
  <2>1. \A t \in SUBSET (1..n) : t # {} =>
          step[<<Largest(t), g[t \ {Largest(t)}]>>]
            = IF Team!Phase[s[Largest(t)]] = phase /\ s[Largest(t)] # Team!Reviewer
              THEN Append(g[t \ {Largest(t)}], s[Largest(t)]) ELSE g[t \ {Largest(t)}]
    <3> SUFFICES ASSUME NEW t \in SUBSET (1..n), t # {}
                 PROVE  step[<<Largest(t), g[t \ {Largest(t)}]>>]
                          = IF Team!Phase[s[Largest(t)]] = phase /\ s[Largest(t)] # Team!Reviewer
                            THEN Append(g[t \ {Largest(t)}], s[Largest(t)]) ELSE g[t \ {Largest(t)}]
      OBVIOUS
    <3>1. Largest(t) \in 1..n
      BY <1>4
    <3>2. g[t \ {Largest(t)}] \in Y
      BY <1>8
    <3> HIDE DEF Y
    <3> QED
      BY <1>2, <3>1, <3>2
  <2> HIDE DEF step
  <2> QED BY <1>8, <2>1
<1>10. Rec(chosen)
  BY <1>9
<1>11. Team!OfPhase(s, phase) = chosen[1..n]
  BY <1>1 DEF Team!OfPhase, Team!FoldLeft, Team!MapThenFoldSet, Team!Max, Largest
<1> HIDE DEF chosen
<1>12. chosen = [t \in SUBSET (1..n) |-> chosen[t]] /\ chosen[{}] = <<>>
  BY <1>10
<1>13. ASSUME NEW t \in SUBSET (1..n), t # {}, chosen[t \ {Largest(t)}] \in Y
       PROVE  chosen[t] = step[<<Largest(t), chosen[t \ {Largest(t)}]>>]
  <2>1. Largest(t) \in 1..n
    BY <1>4, <1>13
  <2>2. chosen[t] = IF Team!Phase[s[Largest(t)]] = phase /\ s[Largest(t)] # Team!Reviewer
                    THEN Append(chosen[t \ {Largest(t)}], s[Largest(t)]) ELSE chosen[t \ {Largest(t)}]
    BY <1>10, <1>13
  <2> HIDE DEF Y
  <2> QED
    BY <1>2, <1>13, <2>1, <2>2
<1>14. Follows(chosen, step, n, Y, <<>>)
  <2> HIDE DEF step, Y
  <2> QED BY <1>12, <1>13 DEF Follows
<1>15. RunsTo(chosen[1..n], step, n, Y, <<>>)
  <2> HIDE DEF step, Y
  <2> QED BY <1>6, <1>14, FoldRuns
<1>16. PICK run \in [0..n -> Y] :
         /\ run[0] = <<>> /\ run[n] = chosen[1..n]
         /\ \A i \in 1..n : run[i] = step[<<i, run[i - 1]>>]
  <2> HIDE DEF step, Y
  <2> QED BY <1>15 DEF RunsTo
<1>17. ASSUME NEW i \in 1..n
       PROVE  run[i] = IF s[i] \in MembersOf(phase) THEN Append(run[i - 1], s[i]) ELSE run[i - 1]
  <2>1. run[i - 1] \in Y
    BY <1>1
  <2> QED BY <1>16, <2>1
<1> QED
  BY <1>11, <1>16, <1>17

(* OfPhase keeps the members of a phase, each once. *)
LEMMA OfPhaseIs ==
  ASSUME NEW s \in Seq(Team!Agents), OnceEach(s), NEW phase
  PROVE  LET list == Team!OfPhase(s, phase) IN
         /\ list \in Seq(Team!Agents) /\ OnceEach(list) /\ Entries(list) = Entries(s) \cap MembersOf(phase)
         /\ Len(s) > 0 /\ s[1] \in MembersOf(phase) => Len(list) > 0 /\ list[1] = s[1]
  BY OfPhaseRun, Filtered

(* Lists cut in pieces of one size *)
LEMMA ChunksSplit ==
  ASSUME NEW X, NEW s \in Seq(X), OnceEach(s), NEW size \in Nat \ {0}
  PROVE  /\ Splits(Team!Chunks(s, size), Entries(s), X, size)
         /\ Len(s) > 0 => Len(Team!Chunks(s, size)) > 0 /\ s[1] \in Entries(Team!Chunks(s, size)[1])
<1> DEFINE l == Len(s)
           m == (l + size - 1) \div size
           first(i) == (i - 1) * size
           end(i) == Team!Min({i * size, l})
           w == Team!Chunks(s, size)
<1>1. l \in Nat /\ DOMAIN s = 1..l /\ \A i \in 1..l : s[i] \in X
  OBVIOUS
<1>2. m \in Nat /\ m * size <= l + size - 1 /\ l + size - 1 < (m + 1) * size
  BY <1>1
<1> HIDE DEF l, m
<1>3. \A i \in 1..m : first(i) \in Nat /\ i * size \in Nat /\ i * size = first(i) + size /\ first(i) < l
  <2> SUFFICES ASSUME NEW i \in 1..m
               PROVE  first(i) \in Nat /\ i * size \in Nat /\ i * size = first(i) + size /\ first(i) < l
    OBVIOUS
  <2>1. i \in Nat /\ i - 1 \in Nat /\ i <= m
    BY <1>2
  <2>2. first(i) \in Nat /\ i * size \in Nat /\ i * size = first(i) + size
    BY <2>1
  <2>3. i * size <= m * size
    BY <1>2, <2>1
  <2> QED
    BY <1>1, <1>2, <2>2, <2>3
<1>4. \A i \in 1..m : end(i) \in Nat /\ end(i) <= l /\ first(i) < end(i) /\ end(i) <= first(i) + size
                      /\ end(i) = IF i * size <= l THEN i * size ELSE l
  BY <1>1, <1>3, TeamMin
<1> HIDE DEF end
<1>5. w = [i \in 1..m |-> SubSeq(s, first(i) + 1, end(i))]
  BY DEF Team!Chunks, l, m, end
<1> HIDE DEF w
<1>6. \A i \in 1..m : /\ w[i] \in Seq(X) /\ Len(w[i]) = end(i) - first(i)
                      /\ DOMAIN w[i] = 1..(end(i) - first(i))
                      /\ \A j \in 1..(end(i) - first(i)) : w[i][j] = s[first(i) + j] /\ first(i) + j \in 1..l
  <2> SUFFICES ASSUME NEW i \in 1..m
               PROVE  /\ w[i] \in Seq(X) /\ Len(w[i]) = end(i) - first(i)
                      /\ DOMAIN w[i] = 1..(end(i) - first(i))
                      /\ \A j \in 1..(end(i) - first(i)) : w[i][j] = s[first(i) + j] /\ first(i) + j \in 1..l
    OBVIOUS
  <2> DEFINE f == first(i)
             e == end(i)
  <2>1. f \in Nat /\ e \in Nat /\ f < e /\ e <= l
    BY <1>3, <1>4
  <2>2. w[i] = SubSeq(s, f + 1, e)
    BY <1>5
  <2> HIDE DEF f, e
  <2>3. SubSeq(s, f + 1, e) \in Seq(X) /\ Len(SubSeq(s, f + 1, e)) = e - f
    BY <1>1, <2>1 DEF l
  <2>4. \A j \in 1..(e - f) : SubSeq(s, f + 1, e)[j] = s[f + j] /\ f + j \in 1..l
    BY <1>1, <2>1 DEF l
  <2> QED
    BY <2>2, <2>3, <2>4 DEF f, e
<1>7. w \in Seq(Seq(X)) /\ Len(w) = m /\ DOMAIN w = 1..m
  BY <1>2, <1>5, <1>6
<1> HIDE DEF first
<1>8. ASSUME NEW i \in 1..m PROVE OnceEach(w[i]) /\ Len(w[i]) \in 1..size /\ Entries(w[i]) \subseteq Entries(s)
  <2>1. Len(w[i]) \in 1..size
    BY <1>3, <1>4, <1>6
  <2>2. OnceEach(w[i])
    <3> SUFFICES ASSUME NEW j \in DOMAIN w[i], NEW k \in DOMAIN w[i], w[i][j] = w[i][k] PROVE j = k
      BY DEF OnceEach
    <3>1. s[first(i) + j] = s[first(i) + k] /\ first(i) + j \in DOMAIN s /\ first(i) + k \in DOMAIN s
      BY <1>1, <1>6
    <3>2. first(i) + j = first(i) + k
      BY <3>1 DEF OnceEach
    <3>3. j \in Int /\ k \in Int /\ first(i) \in Int
      BY <1>3, <1>4, <1>6
    <3> QED
      BY <3>2, <3>3
  <2>3. Entries(w[i]) \subseteq Entries(s)
    BY <1>1, <1>6 DEF Entries
  <2> QED
    BY <2>1, <2>2, <2>3
<1>9. ASSUME NEW i \in 1..m, NEW k \in 1..m, i < k PROVE Entries(w[i]) \cap Entries(w[k]) = {}
  <2>1. end(i) <= first(k)
    <3>1. i \in Int /\ k - 1 \in Int /\ i <= k - 1
      BY <1>2, <1>9
    <3>2. i * size <= (k - 1) * size
      BY <3>1
    <3>3. end(i) <= i * size
      BY <1>1, <1>3, <1>4
    <3>4. i * size \in Int /\ (k - 1) * size \in Int /\ end(i) \in Int
      BY <1>4, <3>1
    <3> QED
      BY <3>2, <3>3, <3>4 DEF first
  <2> SUFFICES ASSUME NEW j \in DOMAIN w[i], NEW h \in DOMAIN w[k], w[i][j] = w[k][h] PROVE FALSE
    BY DEF Entries
  <2>2. s[first(i) + j] = s[first(k) + h] /\ first(i) + j \in DOMAIN s /\ first(k) + h \in DOMAIN s
    BY <1>1, <1>6
  <2>3. first(i) + j = first(k) + h
    BY <2>2 DEF OnceEach
  <2>4. /\ j \in Int /\ h \in Int /\ first(i) \in Int /\ first(k) \in Int /\ end(i) \in Int
        /\ j <= end(i) - first(i) /\ h >= 1
    <3>1. first(i) \in Nat /\ first(k) \in Nat /\ end(i) \in Nat /\ end(k) \in Nat
      BY <1>3, <1>4
    <3>2. j \in 1..(end(i) - first(i)) /\ h \in 1..(end(k) - first(k))
      BY <1>6
    <3> QED
      BY <3>1, <3>2
  <2> QED
    BY <2>1, <2>3, <2>4
<1>10. ASSUME NEW i \in 1..m, NEW k \in 1..m, i # k PROVE Entries(w[i]) \cap Entries(w[k]) = {}
  <2>1. i < k \/ k < i
    BY <1>2, <1>10
  <2> QED
    BY <1>9, <2>1
<1>11. ASSUME NEW p \in 1..l PROVE \E i \in 1..m : s[p] \in Entries(w[i]) /\ (p = 1 => i = 1)
  <2> DEFINE i == (p - 1) \div size + 1
  <2>1. p \in Nat /\ p - 1 \in Nat /\ p <= l
    BY <1>1
  <2>2. (p - 1) \div size \in Nat /\ ((p - 1) \div size) * size <= p - 1
        /\ p - 1 < ((p - 1) \div size + 1) * size
    BY <2>1
  <2>3. p = 1 => i = 1
    BY <2>1
  <2>4. i \in Nat /\ i >= 1 /\ (i - 1) * size <= p - 1 /\ p - 1 < i * size /\ i * size \in Nat /\ (i - 1) * size \in Nat
    BY <2>2
  <2> HIDE DEF i
  <2>5. i <= m
    <3> SUFFICES ASSUME m + 1 <= i PROVE FALSE
      BY <1>2, <2>4
    <3>1. m <= i - 1 /\ m \in Int /\ i - 1 \in Int
      BY <1>2, <2>4
    <3>2. m * size <= (i - 1) * size
      BY <3>1
    <3>3. (m + 1) * size = m * size + size /\ m * size \in Int
      BY <1>2
    <3> QED
      BY <1>1, <1>2, <2>1, <2>4, <3>2, <3>3
  <2>6. i \in 1..m
    BY <1>2, <2>4, <2>5
  <2>7. p - first(i) \in 1..(end(i) - first(i))
    <3>1. first(i) \in Nat /\ first(i) <= p - 1
      BY <2>4 DEF first
    <3>2. p <= end(i)
      BY <1>1, <1>4, <2>1, <2>4, <2>6
    <3>3. end(i) \in Nat
      BY <1>4, <2>6
    <3> QED
      BY <2>1, <3>1, <3>2, <3>3
  <2>8. first(i) + (p - first(i)) = p
    BY <1>3, <2>1, <2>6
  <2>9. w[i][p - first(i)] = s[p] /\ p - first(i) \in DOMAIN w[i]
    BY <1>6, <2>6, <2>7, <2>8
  <2>10. s[p] \in Entries(w[i])
    BY <2>9 DEF Entries
  <2> QED
    BY <2>3, <2>6, <2>10
<1>12. \A x \in Entries(s) : \E i \in 1..m : x \in Entries(w[i])
  BY <1>1, <1>11 DEF Entries
<1>13. Splits(w, Entries(s), X, size)
  BY <1>7, <1>8, <1>10, <1>12 DEF Splits
<1>14. ASSUME l > 0 PROVE Len(w) > 0 /\ s[1] \in Entries(w[1])
  <2>1. 1 \in 1..l
    BY <1>1, <1>14
  <2>2. PICK i \in 1..m : s[1] \in Entries(w[i]) /\ (1 = 1 => i = 1)
    BY <1>11, <2>1
  <2> QED
    BY <1>2, <1>7, <2>2
<1> QED
  BY <1>13, <1>14 DEF w, l

-----------------------------------------------------------------------------
(* The team of a task *)
LEMMA BriefIs ==
  ASSUME NEW b \in Team!Briefs
  PROVE  /\ b.most \in 1..MaxSpecialists /\ b.most \in Nat /\ b.size \in Nat \ {0}
         /\ b.portfolio \in BOOLEAN /\ b.risky \in BOOLEAN
         /\ b.qa \in {{}, {"qa"}, {"qa", "security"}} /\ b.security \in {{}, {"security"}, {"reviewer"}}
<1>1. /\ b.most \in 1..MaxSpecialists /\ b.size \in 1..MaxWave
      /\ b.portfolio \in BOOLEAN /\ b.risky \in BOOLEAN
      /\ b.qa \in {{}, {"qa"}, {"qa", "security"}} /\ b.security \in {{}, {"security"}, {"reviewer"}}
  BY DEF Team!Briefs, Team!Verifiers
<1>2. MaxSpecialists \in Nat /\ MaxWave \in Nat
  BY ComputationsAssumption
<1> QED
  BY <1>1, <1>2

(* The specialists chosen are single, and no more than asked for unless all   *)
(* are wanted.                                                                *)
LEMMA ChosenIs ==
  ASSUME NEW b \in Team!Briefs
  PROVE  Several(Team!Chosen(b)) /\ (~b.portfolio => Len(Team!Chosen(b)) <= b.most)
<1> DEFINE r == Team!Routed(b)
           some == Team!Unique(<<"architect">> \o r)
<1>1. b.most \in Nat /\ b.portfolio \in BOOLEAN
  BY BriefIs
<1>2. Several(Team!ByPhase(b)) /\ Several(Team!ByScore(b))
  BY ByPhaseIs, ByScoreIs
<1>3. Several(Team!Truncated(Team!ByScore(b), b.most)) /\ Len(Team!Truncated(Team!ByScore(b), b.most)) <= b.most
  BY <1>1, <1>2, TruncatedIs DEF Several
<1>4. Several(r) /\ (~b.portfolio => Len(r) <= b.most)
  BY <1>1, <1>2, <1>3 DEF Team!Routed
<1> HIDE DEF r
<1>5. <<"architect">> \o r \in Seq(Team!Specialists)
  <2>1. <<"architect">> \in Seq(Team!Specialists) /\ r \in Seq(Team!Specialists)
    BY <1>4 DEF Several, Team!Specialists
  <2> HIDE DEF Team!Specialists
  <2> QED
    BY <2>1
<1>6. some \in Seq(Team!Specialists) /\ OnceEach(some)
  BY <1>5, UniqueIs
<1> HIDE DEF some
<1>7. Several(Team!Truncated(some, b.most)) /\ Len(Team!Truncated(some, b.most)) <= b.most
  BY <1>1, <1>6, TruncatedIs DEF Several
<1>8. Team!ArchitectFirst(b, r) = Team!Truncated(some, b.most)
  BY DEF Team!ArchitectFirst, some
<1> QED
  BY <1>4, <1>7, <1>8 DEF Team!Chosen, r

(* Who is on a team *)
TeamOf(b, s) ==
  /\ s \in Seq(Team!Agents) /\ OnceEach(s) /\ Len(s) > 0 /\ s[1] = Team!Coordinator
  /\ Team!Coordinator \in Entries(s) /\ Team!Reviewer \in Entries(s)
  /\ ~b.portfolio => Cardinality(Entries(s) \cap Team!Specialists) <= b.most
  /\ b.risky => Entries(s) \cap b.security # {}

(* A sequence of one. *)
LEMMA SingleIs ==
  ASSUME NEW X, NEW x \in X
  PROVE  <<x>> \in Seq(X) /\ Entries(<<x>>) = {x} /\ OnceEach(<<x>>) /\ Len(<<x>>) = 1
<1>1. <<x>> \in Seq(X) /\ Len(<<x>>) = 1 /\ DOMAIN <<x>> = {1} /\ <<x>>[1] = x
  OBVIOUS
<1> QED
  BY <1>1 DEF Entries, OnceEach

(* What two sequences joined hold. *)
LEMMA JoinEntries ==
  ASSUME NEW X, NEW u \in Seq(X), NEW v \in Seq(X)
  PROVE  u \o v \in Seq(X) /\ Entries(u \o v) = Entries(u) \union Entries(v) /\ Len(u \o v) = Len(u) + Len(v)
<1> DEFINE w == u \o v
<1>1. /\ w \in Seq(X) /\ Len(w) = Len(u) + Len(v)
      /\ Len(u) \in Nat /\ Len(v) \in Nat /\ DOMAIN w = 1..(Len(u) + Len(v))
      /\ DOMAIN u = 1..Len(u) /\ DOMAIN v = 1..Len(v)
      /\ \A i \in DOMAIN u : w[i] = u[i]
      /\ \A j \in DOMAIN v : w[Len(u) + j] = v[j]
      /\ \A i \in DOMAIN w : i \in DOMAIN u \/ \E j \in DOMAIN v : i = Len(u) + j
  BY JoinIs
<1> HIDE DEF w
<1>2. \A i \in DOMAIN w : w[i] \in Entries(u) \union Entries(v)
  BY <1>1 DEF Entries
<1>3. \A i \in DOMAIN u : i \in DOMAIN w
  BY <1>1
<1>4. \A j \in DOMAIN v : Len(u) + j \in DOMAIN w
  BY <1>1
<1>5. \A i \in DOMAIN u : u[i] \in Entries(w)
  BY <1>1, <1>3 DEF Entries
<1>6. \A j \in DOMAIN v : v[j] \in Entries(w)
  BY <1>1, <1>4 DEF Entries
<1>7. Entries(w) = Entries(u) \union Entries(v)
  BY <1>2, <1>5, <1>6 DEF Entries
<1> QED
  BY <1>1, <1>7 DEF w

(* The team is put together as TeamOf says. *)
LEMMA OrderedIs ==
  ASSUME NEW b \in Team!Briefs, ~Team!Refused(b)
  PROVE  TeamOf(b, Team!Ordered(b))
<1> DEFINE A == Team!Agents
           c == Team!Chosen(b)
           q == Team!Best(b.qa)
           x == Team!Best(b.security)
           more == IF Team!SecurityRequired(b) THEN <<x>> ELSE <<>>
           p1 == <<Team!Coordinator>> \o c
           p2 == p1 \o <<q>>
           p3 == p2 \o more
           p4 == p3 \o <<Team!Reviewer>>
           t == Team!Ordered(b)
<1>1. Team!Coordinator \in A /\ Team!Reviewer \in A /\ Team!Specialists \subseteq A /\ Team!Verifiers \subseteq A
  BY TeamAgents
<1>2. c \in Seq(Team!Specialists) /\ OnceEach(c) /\ (~b.portfolio => Len(c) <= b.most)
  BY ChosenIs DEF Several
<1>3. c \in Seq(A) /\ Entries(c) \subseteq Team!Specialists
  BY <1>1, <1>2 DEF Entries
<1>4. Cardinality(Entries(c)) = Len(c)
  BY <1>2, OnceEachCounts
<1>5. q \in b.qa /\ q \in Team!Verifiers
  <2>1. b.qa # {} /\ b.qa \in {{}, {"qa"}, {"qa", "security"}}
    BY BriefIs DEF Team!Refused
  <2> QED
    BY <2>1, BestIs DEF Team!Verifiers
<1>6. Team!SecurityRequired(b) => x \in b.security /\ x \in Team!Verifiers \union {Team!Reviewer}
  <2>1. Team!SecurityRequired(b) => b.security # {} /\ b.security \in {{}, {"security"}, {"reviewer"}}
    BY BriefIs DEF Team!Refused
  <2> QED
    BY <2>1, BestIs DEF Team!Verifiers, Team!Reviewer
<1> HIDE DEF A, c, q, x
<1>7. more \in Seq(A) /\ Entries(more) = IF Team!SecurityRequired(b) THEN {x} ELSE {}
  <2>1. CASE Team!SecurityRequired(b)
    BY <1>1, <1>6, <2>1, SingleIs
  <2>2. CASE ~Team!SecurityRequired(b)
    <3>1. <<>> \in Seq(A) /\ Entries(<<>>) = {}
      BY DEF Entries
    <3> QED
      BY <2>2, <3>1
  <2> QED
    BY <2>1, <2>2
<1> HIDE DEF more
<1>8. p1 \in Seq(A) /\ Entries(p1) = {Team!Coordinator} \union Entries(c) /\ Len(p1) > 0 /\ p1[1] = Team!Coordinator
  <2>1. <<Team!Coordinator>> \in Seq(A) /\ Entries(<<Team!Coordinator>>) = {Team!Coordinator}
        /\ Len(<<Team!Coordinator>>) = 1 /\ Len(c) \in Nat
    BY <1>1, <1>3, SingleIs
  <2>2. /\ p1 \in Seq(A) /\ Entries(p1) = {Team!Coordinator} \union Entries(c) /\ Len(p1) = 1 + Len(c)
    <3> DEFINE one == <<Team!Coordinator>>
    <3>1. one \in Seq(A) /\ Entries(one) = {Team!Coordinator} /\ Len(one) = 1
      BY <2>1
    <3> HIDE DEF one
    <3>2. one \o c \in Seq(A) /\ Entries(one \o c) = Entries(one) \union Entries(c) /\ Len(one \o c) = Len(one) + Len(c)
      BY <1>3, <3>1, JoinEntries
    <3>3. p1 = one \o c
      BY DEF one
    <3> HIDE DEF p1
    <3> QED
      BY <3>1, <3>2, <3>3
  <2>3. p1[1] = Team!Coordinator
    BY <1>1, <1>3
  <2> QED
    BY <2>1, <2>2, <2>3
<1> HIDE DEF p1
<1>9. p2 \in Seq(A) /\ Entries(p2) = Entries(p1) \union {q} /\ Len(p2) > 0 /\ p2[1] = p1[1]
  <2>1. q \in A
    BY <1>1, <1>5
  <2>2. <<q>> \in Seq(A) /\ Entries(<<q>>) = {q} /\ Len(<<q>>) = 1 /\ Len(p1) \in Nat
    BY <1>8, <2>1, SingleIs
  <2>3. p2 \in Seq(A) /\ Entries(p2) = Entries(p1) \union {q} /\ Len(p2) = Len(p1) + 1
    <3> DEFINE one == <<q>>
    <3>1. one \in Seq(A) /\ Entries(one) = {q} /\ Len(one) = 1
      BY <2>2
    <3> HIDE DEF one
    <3>2. p1 \o one \in Seq(A) /\ Entries(p1 \o one) = Entries(p1) \union Entries(one) /\ Len(p1 \o one) = Len(p1) + Len(one)
      BY <1>8, <3>1, JoinEntries
    <3>3. p2 = p1 \o one
      BY DEF one
    <3> HIDE DEF p2
    <3> QED
      BY <3>1, <3>2, <3>3
  <2>4. p2[1] = p1[1]
    BY <1>8, <2>2
  <2> QED
    BY <2>2, <2>3, <2>4
<1> HIDE DEF p2
<1>10. p3 \in Seq(A) /\ Entries(p3) = Entries(p2) \union Entries(more) /\ Len(p3) > 0 /\ p3[1] = p2[1]
  <2>1. p3 \in Seq(A) /\ Entries(p3) = Entries(p2) \union Entries(more) /\ Len(p3) = Len(p2) + Len(more)
    BY <1>7, <1>9, JoinEntries
  <2>2. p3[1] = p2[1]
    BY <1>7, <1>9
  <2>3. Len(p2) \in Nat /\ Len(more) \in Nat
    BY <1>7, <1>9
  <2> QED
    BY <1>9, <2>1, <2>2, <2>3
<1> HIDE DEF p3
<1>11. p4 \in Seq(A) /\ Entries(p4) = Entries(p3) \union {Team!Reviewer} /\ Len(p4) > 0 /\ p4[1] = p3[1]
  <2>1. <<Team!Reviewer>> \in Seq(A) /\ Entries(<<Team!Reviewer>>) = {Team!Reviewer}
        /\ Len(<<Team!Reviewer>>) = 1 /\ Len(p3) \in Nat
    BY <1>1, <1>10, SingleIs
  <2>2. p4 \in Seq(A) /\ Entries(p4) = Entries(p3) \union {Team!Reviewer} /\ Len(p4) = Len(p3) + 1
    BY <1>10, <2>1, JoinEntries
  <2>3. p4[1] = p3[1]
    BY <1>10, <2>1
  <2> QED
    BY <2>1, <2>2, <2>3
<1>12. t = Team!Unique(p4)
  BY DEF Team!Ordered, p1, p2, p3, c, q, x, more
<1> HIDE DEF p4
<1>13. t \in Seq(A) /\ OnceEach(t) /\ Entries(t) = Entries(p4) /\ Len(t) > 0 /\ t[1] = Team!Coordinator
  BY <1>8, <1>9, <1>10, <1>11, <1>12, UniqueIs
<1>14. Entries(t) = {Team!Coordinator} \union Entries(c) \union {q} \union Entries(more) \union {Team!Reviewer}
  BY <1>8, <1>9, <1>10, <1>11, <1>13
<1> HIDE DEF t
<1>15. Entries(t) \cap Team!Specialists = Entries(c)
  BY <1>3, <1>5, <1>6, <1>7, <1>14, TeamAgents
<1>16. b.risky => Entries(t) \cap b.security # {}
  <2>1. b.risky => Team!SecurityRequired(b)
    BY DEF Team!SecurityRequired
  <2> QED
    BY <1>6, <1>7, <1>14, <2>1
<1>17. ~b.portfolio => Cardinality(Entries(t) \cap Team!Specialists) <= b.most
  BY <1>2, <1>4, <1>15
<1> QED
  BY <1>13, <1>14, <1>16, <1>17 DEF TeamOf, A, t

-----------------------------------------------------------------------------
(* The waves of a team *)
(* What is of S keeps its place, what is of T comes after. *)
Joins(w, u, S, T) ==
  \A i \in DOMAIN w : \A x \in Entries(w[i]) :
    /\ x \in S => i \in DOMAIN u /\ w[i] = u[i]
    /\ x \in T => i > Len(u)

(* A split joined behind another holds its members behind. *)
LEMMA SplitsJoins ==
  ASSUME NEW X, NEW size, NEW u, NEW v, NEW S, NEW T,
         Splits(u, S, X, size), Splits(v, T, X, size), S \cap T = {}
  PROVE  Joins(u \o v, u, S, T)
<1> DEFINE w == u \o v
<1> SUFFICES ASSUME NEW i \in DOMAIN w, NEW x \in Entries(w[i])
             PROVE  /\ x \in S => i \in DOMAIN u /\ w[i] = u[i]
                    /\ x \in T => i > Len(u)
  BY DEF Joins
<1>1. u \in Seq(Seq(X)) /\ v \in Seq(Seq(X))
  BY DEF Splits
<1>2. /\ Len(u) \in Nat /\ Len(v) \in Nat /\ DOMAIN u = 1..Len(u) /\ DOMAIN v = 1..Len(v)
      /\ \A k \in DOMAIN u : w[k] = u[k]
      /\ \A j \in DOMAIN v : w[Len(u) + j] = v[j]
      /\ \A k \in DOMAIN w : k \in DOMAIN u \/ \E j \in DOMAIN v : k = Len(u) + j
  BY <1>1, JoinIs
<1> HIDE DEF w
<1>3. /\ \A k \in DOMAIN u : Entries(u[k]) \subseteq S
      /\ \A k \in DOMAIN v : Entries(v[k]) \subseteq T
  BY DEF Splits
<1>4. CASE i \in DOMAIN u
  <2>1. x \in S
    BY <1>2, <1>3, <1>4
  <2> QED
    BY <1>2, <1>4, <2>1
<1>5. ASSUME NEW j \in DOMAIN v, i = Len(u) + j PROVE x \in T /\ i > Len(u)
  <2>1. w[i] = v[j]
    BY <1>2, <1>5
  <2>2. x \in T
    BY <1>3, <2>1
  <2>3. i > Len(u)
    BY <1>2, <1>5
  <2> QED
    BY <2>2, <2>3
<1> QED
  BY <1>2, <1>4, <1>5

(* The waves of a team: each member in one, of bounded size, the coordinator  *)
(* first, the reviewer alone and last, verification after release.            *)
Settled(w, S, size) ==
  /\ Splits(w, S, Team!Agents, size)
  /\ w \in Seq(Seq(Team!Agents)) /\ Len(w) > 1 /\ 1 \in DOMAIN w /\ Len(w) \in DOMAIN w
  /\ Team!Coordinator \in Entries(w[1]) /\ w[Len(w)] = <<Team!Reviewer>>
  /\ \A i, j \in DOMAIN w : \A x \in Entries(w[i]), y \in Entries(w[j]) :
       Team!Phase[x] = "release" /\ Team!Phase[y] = "verify" => i < j

(* The phases are apart and make up the agents, with the reviewer. *)
LEMMA MembersApart ==
  /\ MembersOf("plan") \cap MembersOf("build") = {}
  /\ (MembersOf("plan") \union MembersOf("build")) \cap MembersOf("release") = {}
  /\ (MembersOf("plan") \union MembersOf("build") \union MembersOf("release")) \cap MembersOf("verify") = {}
  /\ Team!Reviewer \notin MembersOf("plan") \union MembersOf("build") \union MembersOf("release") \union MembersOf("verify")
  /\ Team!Coordinator \in MembersOf("plan")
  /\ Team!Agents = MembersOf("plan") \union MembersOf("build") \union MembersOf("release") \union MembersOf("verify")
                   \union {Team!Reviewer}
<1>1. "plan" # "build" /\ "plan" # "release" /\ "plan" # "verify" /\ "build" # "release" /\ "build" # "verify"
      /\ "release" # "verify"
  OBVIOUS
<1>2. \A a \in Team!Agents : a \in MembersOf("plan") \union MembersOf("build") \union MembersOf("release")
                                   \union MembersOf("verify") \union {Team!Reviewer}
  BY TeamAgents DEF MembersOf
<1>3. Team!Reviewer \in Team!Agents /\ Team!Coordinator \in MembersOf("plan")
  BY TeamAgents DEF MembersOf
<1> QED
  BY <1>1, <1>2, <1>3 DEF MembersOf

(* Waves makes such waves of any team. *)
LEMMA WavesSettled ==
  ASSUME NEW b, NEW s, TeamOf(b, s), NEW size \in Nat \ {0}
  PROVE  Settled(Team!Waves(s, size), Entries(s), size)
<1> DEFINE A == Team!Agents
           chunks(phase) == Team!Chunks(Team!OfPhase(s, phase), size)
           part(phase) == Entries(s) \cap MembersOf(phase)
           p == chunks("plan")
           q == chunks("build")
           r == chunks("release")
           v == chunks("verify")
           l == <<<<Team!Reviewer>>>>
           w1 == p \o q
           w2 == w1 \o r
           w3 == w2 \o v
           w4 == w3 \o l
           S1 == part("plan") \union part("build")
           S2 == S1 \union part("release")
           S3 == S2 \union part("verify")
           S4 == S3 \union {Team!Reviewer}
<1>1. /\ s \in Seq(A) /\ OnceEach(s) /\ Len(s) > 0 /\ s[1] = Team!Coordinator
      /\ Team!Coordinator \in Entries(s) /\ Team!Reviewer \in Entries(s)
  BY DEF TeamOf
<1>2. \A phase : Splits(chunks(phase), part(phase), A, size)
  <2> SUFFICES ASSUME NEW phase PROVE Splits(chunks(phase), part(phase), A, size)
    OBVIOUS
  <2> DEFINE o == Team!OfPhase(s, phase)
  <2>1. o \in Seq(A) /\ OnceEach(o) /\ Entries(o) = part(phase)
    BY <1>1, OfPhaseIs
  <2> HIDE DEF o
  <2>2. Splits(Team!Chunks(o, size), Entries(o), A, size)
    BY <2>1, ChunksSplit
  <2> QED
    BY <2>1, <2>2 DEF o
<1>3. Len(p) > 0 /\ Team!Coordinator \in Entries(p[1])
  <2> DEFINE o == Team!OfPhase(s, "plan")
  <2>1. o \in Seq(A) /\ OnceEach(o) /\ Len(o) > 0 /\ o[1] = s[1]
    BY <1>1, OfPhaseIs, MembersApart
  <2> HIDE DEF o
  <2>2. Len(Team!Chunks(o, size)) > 0 /\ o[1] \in Entries(Team!Chunks(o, size)[1])
    BY <2>1, ChunksSplit
  <2> QED
    BY <1>1, <2>1, <2>2 DEF o
<1>4. Splits(p, part("plan"), A, size) /\ Splits(q, part("build"), A, size)
      /\ Splits(r, part("release"), A, size) /\ Splits(v, part("verify"), A, size)
  BY <1>2
<1>5. Splits(l, {Team!Reviewer}, A, size)
  <2> DEFINE one == <<Team!Reviewer>>
  <2>1. one \in Seq(A) /\ Entries(one) = {Team!Reviewer} /\ OnceEach(one) /\ Len(one) = 1
    BY TeamAgents, SingleIs
  <2> HIDE DEF one
  <2>2. l = <<one>> /\ <<one>> \in Seq(Seq(A)) /\ DOMAIN <<one>> = {1} /\ <<one>>[1] = one
    BY <2>1 DEF one
  <2>3. 1 \in 1..size
    OBVIOUS
  <2> HIDE DEF l
  <2>4. /\ l \in Seq(Seq(A)) /\ DOMAIN l = {1} /\ l[1] = one
    BY <2>2
  <2> QED
    BY <2>1, <2>3, <2>4 DEF Splits
<1>6. /\ part("plan") \cap part("build") = {} /\ S1 \cap part("release") = {}
      /\ S2 \cap part("verify") = {} /\ S3 \cap {Team!Reviewer} = {}
  BY MembersApart
<1>7. S4 = Entries(s)
  <2>1. Entries(s) \subseteq A
    BY <1>1 DEF Entries
  <2> QED
    BY <1>1, <2>1, MembersApart
<1> HIDE DEF A, p, q, r, v, l, part, chunks
<1>8. Splits(w1, S1, A, size)
  <2> DEFINE S == part("plan")
             T == part("build")
  <2>1. Splits(p, S, A, size) /\ Splits(q, T, A, size) /\ S \cap T = {}
    BY <1>4, <1>6
  <2>2. S1 = S \union T
    OBVIOUS
  <2> HIDE DEF S, T, S1
  <2> QED
    BY <2>1, <2>2, SplitsJoin
<1> HIDE DEF w1, S1
<1>9. Splits(w2, S2, A, size)
  <2> DEFINE T == part("release")
  <2>1. Splits(r, T, A, size) /\ S1 \cap T = {}
    BY <1>4, <1>6
  <2>2. S2 = S1 \union T
    OBVIOUS
  <2> HIDE DEF T, S2
  <2> QED
    BY <1>8, <2>1, <2>2, SplitsJoin
<1> HIDE DEF w2, S2
<1>10. Splits(w3, S3, A, size)
  <2> DEFINE T == part("verify")
  <2>1. Splits(v, T, A, size) /\ S2 \cap T = {}
    BY <1>4, <1>6
  <2>2. S3 = S2 \union T
    OBVIOUS
  <2> HIDE DEF T, S3
  <2> QED
    BY <1>9, <2>1, <2>2, SplitsJoin
<1> HIDE DEF w3, S3
<1>11. Splits(w4, S4, A, size)
  BY <1>5, <1>6, <1>10, SplitsJoin
<1>12. Team!Waves(s, size) = w4
  BY DEF Team!Waves, w4, w3, w2, w1, p, q, r, v, l, chunks
<1> HIDE DEF w4
<1>13. /\ p \in Seq(Seq(A)) /\ q \in Seq(Seq(A)) /\ r \in Seq(Seq(A)) /\ v \in Seq(Seq(A)) /\ l \in Seq(Seq(A))
       /\ w1 \in Seq(Seq(A)) /\ w2 \in Seq(Seq(A)) /\ w3 \in Seq(Seq(A)) /\ w4 \in Seq(Seq(A))
  BY <1>4, <1>5, <1>8, <1>9, <1>10, <1>11 DEF Splits
<1>14. Len(w1) = Len(p) + Len(q) /\ Len(p) \in Nat /\ Len(q) \in Nat /\ \A i \in 1..Len(p) : w1[i] = p[i]
  BY <1>13, JoinIs DEF w1
<1>15. Len(w2) = Len(w1) + Len(r) /\ Len(r) \in Nat /\ \A i \in 1..Len(w1) : w2[i] = w1[i]
  BY <1>13, JoinIs DEF w2
<1>16. Len(w3) = Len(w2) + Len(v) /\ Len(v) \in Nat /\ \A i \in 1..Len(w2) : w3[i] = w2[i]
  BY <1>13, JoinIs DEF w3
<1>17. Len(l) = 1 /\ 1 \in DOMAIN l /\ l[1] = <<Team!Reviewer>>
  BY DEF l
<1>18. /\ Len(w4) = Len(w3) + 1 /\ DOMAIN w4 = 1..Len(w4)
       /\ w4[Len(w3) + 1] = <<Team!Reviewer>> /\ \A i \in 1..Len(w3) : w4[i] = w3[i]
  <2>1. w4 = w3 \o l /\ w3 \in Seq(Seq(A)) /\ l \in Seq(Seq(A)) /\ w4 \in Seq(Seq(A))
    BY <1>13 DEF w4
  <2>2. /\ Len(w3 \o l) = Len(w3) + Len(l) /\ \A j \in DOMAIN l : (w3 \o l)[Len(w3) + j] = l[j]
        /\ DOMAIN w3 = 1..Len(w3) /\ \A i \in DOMAIN w3 : (w3 \o l)[i] = w3[i]
    BY <2>1, JoinIs
  <2>3. DOMAIN w4 = 1..Len(w4)
    BY <2>1
  <2> QED
    BY <1>17, <2>1, <2>2, <2>3
<1>19. /\ 1 \in 1..Len(p) /\ 1 \in 1..Len(w1) /\ 1 \in 1..Len(w2) /\ 1 \in 1..Len(w3)
       /\ Len(w2) \in Nat /\ Len(w3) \in Nat /\ Len(w2) <= Len(w3)
  BY <1>3, <1>14, <1>15, <1>16
<1>20. w4[1] = p[1]
  BY <1>14, <1>15, <1>16, <1>18, <1>19
<1>21. Len(w4) > 1 /\ 1 \in DOMAIN w4 /\ Len(w4) \in DOMAIN w4 /\ w4[Len(w4)] = <<Team!Reviewer>>
  BY <1>18, <1>19
<1>23. ASSUME NEW i \in DOMAIN w4, NEW x \in Entries(w4[i])
       PROVE  /\ x \in S3 => i \in DOMAIN w3 /\ w4[i] = w3[i]
              /\ x = Team!Reviewer => i > Len(w3)
  <2> DEFINE T == {Team!Reviewer}
  <2>1. Splits(w3, S3, A, size) /\ Splits(l, T, A, size) /\ S3 \cap T = {}
    BY <1>5, <1>6, <1>10
  <2>2. w4 = w3 \o l
    BY DEF w4
  <2>3. x = Team!Reviewer => x \in T
    OBVIOUS
  <2> HIDE DEF T
  <2>4. Joins(w3 \o l, w3, S3, T)
    BY <2>1, SplitsJoins
  <2> QED
    BY <1>23, <2>2, <2>3, <2>4 DEF Joins
<1>24. ASSUME NEW i \in DOMAIN w3, NEW x \in Entries(w3[i])
       PROVE  /\ x \in S2 => i \in DOMAIN w2
              /\ x \in part("verify") => i > Len(w2)
  <2> DEFINE T == part("verify")
  <2>1. Splits(w2, S2, A, size) /\ Splits(v, T, A, size) /\ S2 \cap T = {}
    BY <1>4, <1>6, <1>9
  <2>2. w3 = w2 \o v
    BY DEF w3
  <2> HIDE DEF T
  <2>3. Joins(w2 \o v, w2, S2, T)
    BY <2>1, SplitsJoins
  <2> QED
    BY <1>24, <2>2, <2>3 DEF Joins, T
<1>22. ASSUME NEW i \in DOMAIN w4, NEW j \in DOMAIN w4, NEW x \in Entries(w4[i]), NEW y \in Entries(w4[j]),
              Team!Phase[x] = "release", Team!Phase[y] = "verify"
       PROVE  i < j
  <2>1. Entries(w4[i]) \subseteq S4 /\ Entries(w4[j]) \subseteq S4 /\ S4 \subseteq A
    <3>1. S4 \subseteq A
      BY <1>1, <1>7 DEF Entries
    <3> QED
      BY <1>11, <3>1 DEF Splits
  <2>2. x \in part("release") /\ x \in S2 /\ x \in S3
    <3>1. x \in Entries(s) /\ x \in A
      BY <1>7, <2>1
    <3>2. x # Team!Reviewer
      BY <1>22, TeamAgents
    <3> QED
      BY <1>22, <3>1, <3>2 DEF part, MembersOf, S2, S3, A
  <2>3. y \in part("verify") \union {Team!Reviewer}
    <3>1. y \in Entries(s) /\ y \in A
      BY <1>7, <2>1
    <3> QED
      BY <1>22, <3>1 DEF part, MembersOf, A
  <2>4. i \in DOMAIN w3 /\ w4[i] = w3[i]
    BY <1>23, <2>2
  <2>5. i \in DOMAIN w2
    BY <1>24, <2>2, <2>4
  <2>6. i \in Nat /\ i <= Len(w2)
    <3>1. DOMAIN w2 = 1..Len(w2)
      BY <1>13
    <3> QED
      BY <2>5, <3>1
  <2>7. j \in Nat /\ j > Len(w2)
    <3>1. j \in Nat
      BY <1>18
    <3>2. CASE y = Team!Reviewer
      <4>1. j > Len(w3)
        BY <1>23, <3>2
      <4> QED
        BY <1>19, <3>1, <4>1
    <3>3. CASE y \in part("verify")
      <4>1. y \in S3
        BY <3>3 DEF S3
      <4>2. j \in DOMAIN w3 /\ w4[j] = w3[j]
        BY <1>23, <4>1
      <4>3. j > Len(w2)
        BY <1>24, <3>3, <4>2
      <4> QED
        BY <3>1, <4>3
    <3> QED
      BY <2>3, <3>2, <3>3
  <2> QED
    BY <1>19, <2>6, <2>7
<1> QED
  BY <1>3, <1>7, <1>11, <1>12, <1>13, <1>20, <1>21, <1>22 DEF Settled, A

-----------------------------------------------------------------------------
(* The plan of a team keeps what PlanWellOrdered says of it. *)
PlanOf(b, t, ws, h) ==
  b \in Team!Briefs /\ TeamOf(b, t) /\ Settled(ws, Entries(t), b.size) /\ h = Team!Handoffs(t)

(* Planning makes a plan of a brief that is not refused. *)
LEMMA PlanMade ==
  ASSUME NEW b \in Team!Briefs, ~Team!Refused(b)
  PROVE  PlanOf(b, Team!Ordered(b), Team!Waves(Team!Ordered(b), b.size), Team!Handoffs(Team!Ordered(b)))
<1>1. TeamOf(b, Team!Ordered(b))
  BY OrderedIs
<1>2. b.size \in Nat \ {0}
  BY BriefIs
<1> QED
  BY <1>1, <1>2, WavesSettled DEF PlanOf

(* The waves flattened hold the team, each member once. *)
LEMMA FlattenIs ==
  ASSUME NEW ws, NEW S, NEW size, Settled(ws, S, size)
  PROVE  /\ Entries(Team!FlattenSeq(ws)) = S
         /\ Len(Team!FlattenSeq(ws)) = Cardinality(S)
<1> DEFINE flat == CHOOSE f : Joined(ws, f)
<1>1. ws \in Seq(Seq(Team!Agents)) /\ Len(ws) > 0 /\ Len(ws) # 0 /\ Splits(ws, S, Team!Agents, size)
  BY DEF Settled
<1>2. Joined(ws, flat)
  BY <1>1, JoinedExists
<1>3. Team!FlattenSeq(ws) = flat[Len(ws)]
  BY <1>1 DEF Team!FlattenSeq, Joined
<1> HIDE DEF flat
<1>4. flat[Len(ws)] \in Seq(Team!Agents) /\ OnceEach(flat[Len(ws)]) /\ Entries(flat[Len(ws)]) = S
  BY <1>1, <1>2, JoinedHoldsAll
<1>5. Cardinality(Entries(flat[Len(ws)])) = Len(flat[Len(ws)])
  BY <1>4, OnceEachCounts
<1> QED
  BY <1>3, <1>4, <1>5

(* WaveOf is the one wave a member is in. *)
LEMMA WaveIs ==
  ASSUME NEW S, NEW size, Settled(waves, S, size), NEW a \in S
  PROVE  /\ Team!WaveOf(a) \in DOMAIN waves /\ a \in Entries(waves[Team!WaveOf(a)])
         /\ \A i \in DOMAIN waves : a \in Entries(waves[i]) => i = Team!WaveOf(a)
<1>1. waves \in Seq(Seq(Team!Agents)) /\ DOMAIN waves = 1..Len(waves)
  BY DEF Settled
<1>2. /\ \E i \in DOMAIN waves : a \in Entries(waves[i])
      /\ \A i, j \in DOMAIN waves : i # j => Entries(waves[i]) \cap Entries(waves[j]) = {}
  BY DEF Settled, Splits
<1>3. Team!WaveOf(a) = CHOOSE i \in DOMAIN waves : a \in Entries(waves[i])
  BY <1>1, TeamRange DEF Team!WaveOf
<1>4. Team!WaveOf(a) \in DOMAIN waves /\ a \in Entries(waves[Team!WaveOf(a)])
  BY <1>2, <1>3
<1> QED
  BY <1>2, <1>4

(* A plan is well ordered. *)
LEMMA PlanHolds ==
  ASSUME PlanOf(brief, team, waves, handoffs)
  PROVE  Team!PlanWellOrdered
<1> DEFINE S == Entries(team)
<1>1. brief \in Team!Briefs /\ TeamOf(brief, team) /\ handoffs = Team!Handoffs(team)
      /\ Settled(waves, S, brief.size)
  BY DEF PlanOf
<1> HIDE DEF S
<1>2. /\ Splits(waves, S, Team!Agents, brief.size)
      /\ waves \in Seq(Seq(Team!Agents)) /\ Len(waves) > 1 /\ 1 \in DOMAIN waves /\ Len(waves) \in DOMAIN waves
      /\ Team!Coordinator \in Entries(waves[1]) /\ waves[Len(waves)] = <<Team!Reviewer>>
      /\ \A i, j \in DOMAIN waves : \A x \in Entries(waves[i]), y \in Entries(waves[j]) :
           Team!Phase[x] = "release" /\ Team!Phase[y] = "verify" => i < j
      /\ DOMAIN waves = 1..Len(waves) /\ Len(waves) \in Nat
  BY <1>1 DEF Settled
<1>3. Entries(Team!FlattenSeq(waves)) = S /\ Len(Team!FlattenSeq(waves)) = Cardinality(S)
  BY <1>1, FlattenIs
<1>4. /\ Team!Range(Team!FlattenSeq(waves)) = Team!Range(team)
      /\ Len(Team!FlattenSeq(waves)) = Team!Cardinality(Team!Range(team))
  BY <1>3, TeamRange, TeamCardinality DEF S
<1>5. \A w \in Team!Range(waves) : Len(w) \in 1..brief.size
  <2>1. \A i \in DOMAIN waves : Len(waves[i]) \in 1..brief.size
    BY <1>2 DEF Splits
  <2> QED
    BY <2>1 DEF Team!Range
<1>6. waves[Len(waves)] = <<Team!Reviewer>>
  BY <1>2
<1>7. Team!Coordinator \in S /\ Team!Reviewer \in S
  BY <1>1 DEF TeamOf, S
<1>8. \A a \in S : /\ Team!WaveOf(a) \in DOMAIN waves /\ a \in Entries(waves[Team!WaveOf(a)])
                   /\ \A i \in DOMAIN waves : a \in Entries(waves[i]) => i = Team!WaveOf(a)
  BY <1>1, WaveIs
<1>9. Entries(waves[Len(waves)]) = {Team!Reviewer}
  <2>1. Entries(<<Team!Reviewer>>) = {Team!Reviewer}
    BY SingleIs
  <2> QED
    BY <1>2, <2>1
<1>10. Team!WaveOf(Team!Coordinator) = 1 /\ Team!WaveOf(Team!Reviewer) = Len(waves)
  <2>1. Team!Reviewer \in Entries(waves[Len(waves)])
    BY <1>9
  <2> QED
    BY <1>2, <1>7, <1>8, <2>1
<1>11. \A a \in S \ {Team!Reviewer} : Team!WaveOf(a) < Len(waves)
  <2> SUFFICES ASSUME NEW a \in S \ {Team!Reviewer} PROVE Team!WaveOf(a) < Len(waves)
    OBVIOUS
  <2>1. Team!WaveOf(a) \in 1..Len(waves) /\ a \in Entries(waves[Team!WaveOf(a)])
    BY <1>2, <1>8
  <2>2. Team!WaveOf(a) # Len(waves)
    BY <1>9, <2>1
  <2> QED
    BY <1>2, <2>1, <2>2
<1>12. ASSUME NEW h \in handoffs
       PROVE  /\ Team!WaveOf(h[1]) <= Team!WaveOf(h[2])
              /\ h[2] = Team!Reviewer => Team!WaveOf(h[1]) < Team!WaveOf(Team!Reviewer)
  <2>1. handoffs = {<<Team!Coordinator, a>> : a \in S \ {Team!Coordinator}}
                   \union {<<a, Team!Reviewer>> : a \in S \ {Team!Coordinator, Team!Reviewer}}
    BY <1>1, TeamRange DEF Team!Handoffs, S
  <2>2. ASSUME NEW a \in S \ {Team!Coordinator}, h = <<Team!Coordinator, a>>
        PROVE  /\ Team!WaveOf(h[1]) <= Team!WaveOf(h[2])
               /\ h[2] = Team!Reviewer => Team!WaveOf(h[1]) < Team!WaveOf(Team!Reviewer)
    <3>1. h[1] = Team!Coordinator /\ h[2] = a
      BY <2>2
    <3>2. Team!WaveOf(a) \in 1..Len(waves)
      BY <1>2, <1>8
    <3> QED
      BY <1>2, <1>10, <3>1, <3>2
  <2>3. ASSUME NEW a \in S \ {Team!Coordinator, Team!Reviewer}, h = <<a, Team!Reviewer>>
        PROVE  /\ Team!WaveOf(h[1]) <= Team!WaveOf(h[2])
               /\ h[2] = Team!Reviewer => Team!WaveOf(h[1]) < Team!WaveOf(Team!Reviewer)
    <3>1. h[1] = a /\ h[2] = Team!Reviewer
      BY <2>3
    <3>2. Team!WaveOf(a) \in 1..Len(waves) /\ Team!WaveOf(a) < Len(waves)
      BY <1>2, <1>8, <1>11
    <3> QED
      BY <1>2, <1>10, <3>1, <3>2
  <2> QED
    BY <1>12, <2>1, <2>2, <2>3
<1>13. ASSUME NEW a \in S, NEW b \in S, Team!Phase[a] = "release", Team!Phase[b] = "verify"
       PROVE  Team!WaveOf(a) < Team!WaveOf(b)
  BY <1>2, <1>8, <1>13
<1>14. ~brief.portfolio => Team!Cardinality(Team!Range(team) \cap Team!Specialists) <= brief.most
  BY <1>1, TeamRange, TeamCardinality DEF TeamOf
<1>15. brief.risky => Team!Range(team) \cap brief.security # {}
  BY <1>1, TeamRange DEF TeamOf
<1>16. Team!Range(team) = S
  BY TeamRange DEF S
<1> QED
  BY <1>4, <1>5, <1>6, <1>12, <1>13, <1>14, <1>15, <1>16 DEF Team!PlanWellOrdered

(* A model is routed as ModelFits says. *)
RouteOf(b, t) ==
  /\ b.complexity \in 0..3 /\ b.risk \in 0..3 /\ t \in Entries(Team!Tiers)
  /\ b.tools => b.catalog[t]
  /\ LET rank == IF b.complexity >= b.risk THEN b.complexity ELSE b.risk IN
     \/ Team!Place(Team!Tiers, t) = rank + 1
     \/ b.tools /\ ~b.catalog[Team!Tiers[rank + 1]]

(* Each tier is at its place. *)
LEMMA TierPlaces ==
  ASSUME NEW i \in 1..4
  PROVE  Team!Place(Team!Tiers, Team!Tiers[i]) = i /\ Team!Tiers[i] \in Entries(Team!Tiers)
         /\ Team!Tiers[i] \in {"economy", "standard", "strong", "critical"}
<1>1. DOMAIN Team!Tiers = 1..4
  BY DEF Team!Tiers
<1>2. \A j, k \in 1..4 : Team!Tiers[j] = Team!Tiers[k] => j = k
  BY DEF Team!Tiers
<1>3. Team!Place(Team!Tiers, Team!Tiers[i]) = CHOOSE j \in 1..4 : Team!Tiers[j] = Team!Tiers[i]
  BY <1>1 DEF Team!Place
<1>4. Team!Tiers[i] \in {"economy", "standard", "strong", "critical"}
  BY DEF Team!Tiers
<1>5. Team!Tiers[i] \in Entries(Team!Tiers)
  BY <1>1 DEF Entries
<1> QED
  BY <1>2, <1>3, <1>4, <1>5

(* A routed model fits. *)
LEMMA RouteHolds ==
  ASSUME RouteOf(brief, tier)
  PROVE  Team!ModelFits
<1>1. brief.complexity \in Nat /\ brief.risk \in Nat
  BY DEF RouteOf
<1>2. Team!Max({brief.complexity, brief.risk}) =
        IF brief.complexity >= brief.risk THEN brief.complexity ELSE brief.risk
  BY <1>1, TeamMax
<1> QED
  BY <1>2 DEF Team!ModelFits, RouteOf

(* What the planner's variables hold at each stage. *)
PlannerOf(p, b, t, ws, h, m) ==
  /\ p \in {"idle", "planned", "routed", "refused"}
  /\ p = "planned" => PlanOf(b, t, ws, h) /\ m = "none"
  /\ p # "planned" => t = <<>> /\ ws = <<>> /\ h = {}
  /\ p = "routed" => RouteOf(b, m)
  /\ p # "routed" => m = "none"

(* The invariant: they hold it. *)
TeamInv == PlannerOf(planner, brief, team, waves, handoffs, tier)

(* The first state satisfies it. *)
LEMMA TeamInit == ASSUME Team!Init PROVE TeamInv
  BY DEF Team!Init, TeamInv, PlannerOf

(* Planning a team keeps it. *)
LEMMA TeamPlanned ==
  ASSUME TeamInv, Team!PlanTeam
  PROVE  TeamInv'
<1>1. PICK b \in Team!Briefs :
        /\ brief' = b
        /\ IF Team!Refused(b) THEN planner' = "refused" /\ UNCHANGED <<team, waves, handoffs>>
           ELSE /\ planner' = "planned" /\ team' = Team!Ordered(b)
                /\ waves' = Team!Waves(Team!Ordered(b), b.size) /\ handoffs' = Team!Handoffs(Team!Ordered(b))
  BY DEF Team!PlanTeam
<1>2. planner = "idle" /\ tier' = tier /\ tier = "none" /\ team = <<>> /\ waves = <<>> /\ handoffs = {}
  BY DEF Team!PlanTeam, TeamInv, PlannerOf
<1>3. CASE Team!Refused(b)
  BY <1>1, <1>2, <1>3 DEF TeamInv, PlannerOf
<1>4. CASE ~Team!Refused(b)
  <2>1. PlanOf(brief', team', waves', handoffs')
    BY <1>1, <1>4, PlanMade
  <2> QED
    BY <1>1, <1>2, <1>4, <2>1 DEF TeamInv, PlannerOf
<1> QED
  BY <1>3, <1>4

(* Routing to a model keeps it. *)
LEMMA TeamRouted ==
  ASSUME TeamInv, Team!RouteModel
  PROVE  TeamInv'
<1> DEFINE Names == {"economy", "standard", "strong", "critical"}
<1>1. PICK complexity \in 0..3, risk \in 0..3, wants \in BOOLEAN, catalog \in [Names -> BOOLEAN] :
        LET wanted == Team!Tiers[Team!Max({complexity, risk}) + 1] IN
        /\ brief' = [complexity |-> complexity, risk |-> risk, tools |-> wants, catalog |-> catalog]
        /\ IF ~wants \/ catalog[wanted] THEN planner' = "routed" /\ tier' = wanted
           ELSE IF Team!FallbackFits(catalog) THEN planner' = "routed" /\ tier' = "standard"
           ELSE planner' = "refused" /\ tier' = "none"
  BY DEF Team!RouteModel
<1>2. planner = "idle" /\ UNCHANGED <<team, waves, handoffs>> /\ team = <<>> /\ waves = <<>> /\ handoffs = {}
  BY DEF Team!RouteModel, TeamInv, PlannerOf
<1> DEFINE rank == IF complexity >= risk THEN complexity ELSE risk
           wanted == Team!Tiers[rank + 1]
<1>3. rank \in 0..3 /\ rank + 1 \in 1..4 /\ Team!Max({complexity, risk}) = rank
  <2>1. complexity \in Nat /\ risk \in Nat
    OBVIOUS
  <2> QED
    BY <2>1, TeamMax
<1>4. Team!Place(Team!Tiers, wanted) = rank + 1 /\ wanted \in Entries(Team!Tiers) /\ wanted \in Names
  BY <1>3, TierPlaces
<1>5. "standard" \in Entries(Team!Tiers)
  <2>1. Team!Tiers[2] \in Entries(Team!Tiers)
    BY TierPlaces
  <2> QED
    BY <2>1 DEF Team!Tiers
<1>6. /\ brief' = [complexity |-> complexity, risk |-> risk, tools |-> wants, catalog |-> catalog]
      /\ IF ~wants \/ catalog[wanted] THEN planner' = "routed" /\ tier' = wanted
         ELSE IF Team!FallbackFits(catalog) THEN planner' = "routed" /\ tier' = "standard"
         ELSE planner' = "refused" /\ tier' = "none"
  BY <1>1, <1>3
<1>7. /\ brief'.complexity = complexity /\ brief'.risk = risk /\ brief'.tools = wants /\ brief'.catalog = catalog
  BY <1>6
<1> HIDE DEF wanted
<1>8. CASE ~wants \/ catalog[wanted]
  <2>1. planner' = "routed" /\ tier' = wanted
    BY <1>6, <1>8
  <2>2. RouteOf(brief', tier')
    BY <1>4, <1>7, <1>8, <2>1 DEF RouteOf
  <2> QED
    BY <1>2, <2>1, <2>2 DEF TeamInv, PlannerOf
<1>9. CASE ~(~wants \/ catalog[wanted]) /\ Team!FallbackFits(catalog)
  <2>1. planner' = "routed" /\ tier' = "standard" /\ catalog["standard"]
    BY <1>6, <1>9 DEF Team!FallbackFits
  <2>2. RouteOf(brief', tier')
    BY <1>5, <1>7, <1>9, <2>1 DEF RouteOf, wanted
  <2> QED
    BY <1>2, <2>1, <2>2 DEF TeamInv, PlannerOf
<1>10. CASE ~(~wants \/ catalog[wanted]) /\ ~Team!FallbackFits(catalog)
  <2>1. planner' = "refused" /\ tier' = "none"
    BY <1>6, <1>10
  <2> QED
    BY <1>2, <2>1 DEF TeamInv, PlannerOf
<1> QED
  BY <1>8, <1>9, <1>10

(* It implies both properties. *)
LEMMA TeamHolds ==
  ASSUME TeamInv
  PROVE  Team!PlanWellOrdered /\ Team!ModelFits
<1>1. CASE planner = "planned"
  <2>1. PlanOf(brief, team, waves, handoffs)
    BY <1>1 DEF TeamInv, PlannerOf
  <2> QED
    BY <1>1, <2>1, PlanHolds DEF Team!ModelFits
<1>2. CASE planner = "routed"
  <2>1. RouteOf(brief, tier)
    BY <1>2 DEF TeamInv, PlannerOf
  <2> QED
    BY <1>2, <2>1, RouteHolds DEF Team!PlanWellOrdered
<1> QED
  BY <1>1, <1>2 DEF Team!PlanWellOrdered, Team!ModelFits

(* It implies the component's types. *)
LEMMA TeamTypes ==
  ASSUME TeamInv
  PROVE  Team!TypeOK
<1>1. planner \in {"idle", "planned", "routed", "refused"}
  BY DEF TeamInv, PlannerOf
<1>2. team \in Seq(Team!Agents) /\ waves \in Seq(Seq(Team!Agents)) /\ handoffs \subseteq Team!Agents \X Team!Agents
  <2>1. CASE planner = "planned"
    <3>1. TeamOf(brief, team) /\ Settled(waves, Entries(team), brief.size) /\ handoffs = Team!Handoffs(team)
      BY <2>1 DEF TeamInv, PlannerOf, PlanOf
    <3>2. team \in Seq(Team!Agents) /\ waves \in Seq(Seq(Team!Agents))
      BY <3>1 DEF TeamOf, Settled
    <3>3. Entries(team) \subseteq Team!Agents /\ Team!Coordinator \in Team!Agents /\ Team!Reviewer \in Team!Agents
      BY <3>2, TeamAgents DEF Entries
    <3>4. handoffs \subseteq Team!Agents \X Team!Agents
      BY <3>1, <3>3, TeamRange DEF Team!Handoffs
    <3> QED
      BY <3>2, <3>4
  <2>2. CASE planner # "planned"
    <3>1. team = <<>> /\ waves = <<>> /\ handoffs = {}
      BY <2>2 DEF TeamInv, PlannerOf
    <3> QED
      BY <3>1
  <2> QED
    BY <2>1, <2>2
<1>3. tier \in Team!Range(Team!Tiers) \union {"none"}
  <2>1. CASE planner = "routed"
    BY <2>1, TeamRange DEF TeamInv, PlannerOf, RouteOf
  <2>2. CASE planner # "routed"
    BY <2>2 DEF TeamInv, PlannerOf
  <2> QED
    BY <2>1, <2>2
<1> QED
  BY <1>1, <1>2, <1>3 DEF Team!TypeOK

(* Every step keeps it. *)
LEMMA TeamNextKeeps ==
  ASSUME TeamInv, Team!Step
  PROVE  TeamInv'
  BY TeamPlanned, TeamRouted DEF Team!Step

-----------------------------------------------------------------------------
(* Sums of sums *)

LEMMA Distributes ==
  ASSUME NEW c0 \in Int, NEW c1 \in Int, NEW c2 \in Int, NEW c3 \in Int, NEW n \in Int,
         NEW p1 \in Int, NEW p2 \in Int, NEW p3 \in Int, NEW y1 \in Int, NEW y2 \in Int, NEW y3 \in Int
  PROVE  (c0 + c1 * y1 + c2 * y2 + c3 * y3) + (c0 * n + c1 * p1 + c2 * p2 + c3 * p3)
           = c0 * (n + 1) + c1 * (y1 + p1) + c2 * (y2 + p2) + c3 * (y3 + p3)
<1>1. /\ c1 * (y1 + p1) = c1 * y1 + c1 * p1 /\ c2 * (y2 + p2) = c2 * y2 + c2 * p2
      /\ c3 * (y3 + p3) = c3 * y3 + c3 * p3 /\ c0 * (n + 1) = c0 * n + c0
  OBVIOUS
<1>2. /\ c0 * n \in Int /\ c1 * y1 \in Int /\ c2 * y2 \in Int /\ c3 * y3 \in Int
      /\ c1 * p1 \in Int /\ c2 * p2 \in Int /\ c3 * p3 \in Int
  OBVIOUS
<1> QED
  BY <1>1, <1>2

(* f is an integer on all of S. *)
Ints(f, S) == \A x \in S : f[x] \in Int

(* h is a linear combination of three functions on S. *)
Combines(h, S, c0, c1, f1, c2, f2, c3, f3) ==
  /\ IsFiniteSet(S) /\ c0 \in Int /\ c1 \in Int /\ c2 \in Int /\ c3 \in Int
  /\ Ints(f1, S) /\ Ints(f2, S) /\ Ints(f3, S)
  /\ \A x \in S : h[x] = c0 + c1 * f1[x] + c2 * f2[x] + c3 * f3[x]

(* So is its total of theirs. *)
LEMMA SumLinear ==
  ASSUME NEW S, NEW c0, NEW c1, NEW c2, NEW c3, NEW f1, NEW f2, NEW f3, NEW h,
         Combines(h, S, c0, c1, f1, c2, f2, c3, f3)
  PROVE  Total(h, S) = c0 * Cardinality(S) + c1 * Total(f1, S) + c2 * Total(f2, S) + c3 * Total(f3, S)
<1> DEFINE Value(U) == c0 * Cardinality(U) + c1 * Total(f1, U) + c2 * Total(f2, U) + c3 * Total(f3, U)
           F == {U \in SUBSET S : Total(h, U) = Value(U)}
<1>0. /\ \A x \in S : f1[x] \in Int
      /\ \A x \in S : f2[x] \in Int
      /\ \A x \in S : f3[x] \in Int
  BY DEF Ints, Combines
<1>b. IsFiniteSet(S) /\ c0 \in Int /\ c1 \in Int /\ c2 \in Int /\ c3 \in Int
  BY DEF Combines
<1>c. \A x \in S : h[x] = c0 + c1 * f1[x] + c2 * f2[x] + c3 * f3[x]
  BY DEF Combines
<1>a. \A x \in S : h[x] \in Int
  <2> SUFFICES ASSUME NEW x \in S PROVE h[x] \in Int
    OBVIOUS
  <2>1. c1 * f1[x] \in Int /\ c2 * f2[x] \in Int /\ c3 * f3[x] \in Int
    BY <1>0, <1>b
  <2> QED
    BY <1>b, <1>c, <2>1
<1>1. {} \in F
  <2>1. Total(h, {}) = 0 /\ Total(f1, {}) = 0 /\ Total(f2, {}) = 0 /\ Total(f3, {}) = 0 /\ Cardinality({}) = 0
    BY SumEmpty, FS_EmptySet
  <2> QED
    BY <1>b, <2>1
<1>2. \A T \in SUBSET S, x \in S : T \in F /\ x \notin T => T \union {x} \in F
  <2> SUFFICES ASSUME NEW T \in SUBSET S, NEW x \in S, T \in F, x \notin T
               PROVE  Total(h, T \union {x}) = Value(T \union {x})
    OBVIOUS
  <2>1. IsFiniteSet(T) /\ Cardinality(T) \in Nat /\ Cardinality(T \union {x}) = Cardinality(T) + 1
    BY <1>b, FS_Subset, FS_CardinalityType, FS_AddElement
  <2>2. /\ \A y \in T \union {x} : h[y] \in Int
        /\ \A y \in T \union {x} : f1[y] \in Int
        /\ \A y \in T \union {x} : f2[y] \in Int
        /\ \A y \in T \union {x} : f3[y] \in Int
    BY <1>0, <1>a
  <2>3. Total(h, T \union {x}) = h[x] + Total(h, T)
    BY <2>1, <2>2, SumAdd
  <2>4. Total(f1, T \union {x}) = f1[x] + Total(f1, T) /\ Total(f1, T) \in Int
    BY <2>1, <2>2, SumAdd, SumInt
  <2>5. Total(f2, T \union {x}) = f2[x] + Total(f2, T) /\ Total(f2, T) \in Int
    BY <2>1, <2>2, SumAdd, SumInt
  <2>6. Total(f3, T \union {x}) = f3[x] + Total(f3, T) /\ Total(f3, T) \in Int
    BY <2>1, <2>2, SumAdd, SumInt
  <2>7. Total(h, T) = Value(T)
    OBVIOUS
  <2>8. h[x] = c0 + c1 * f1[x] + c2 * f2[x] + c3 * f3[x] /\ f1[x] \in Int /\ f2[x] \in Int /\ f3[x] \in Int
    BY <1>0, <1>c
  <2>9. h[x] + Value(T) = c0 * (Cardinality(T) + 1) + c1 * (f1[x] + Total(f1, T)) + c2 * (f2[x] + Total(f2, T))
                            + c3 * (f3[x] + Total(f3, T))
    BY <1>b, <2>1, <2>4, <2>5, <2>6, <2>8, Distributes
  <2> QED
    BY <2>1, <2>3, <2>4, <2>5, <2>6, <2>7, <2>9
<1>3. \A T \in SUBSET S : T \in F
  <2> HIDE DEF F
  <2> QED BY <1>1, <1>2, <1>b, FiniteSetInduction
<1>4. S \in F
  BY <1>3
<1> QED
  BY <1>4

(* The total over two sets that are apart is both totals. *)
LEMMA SumUnion ==
  ASSUME NEW S, NEW T, IsFiniteSet(S), IsFiniteSet(T), S \cap T = {}, NEW f, Ints(f, S \union T)
  PROVE  Total(f, S \union T) = Total(f, S) + Total(f, T)
<1> DEFINE F == {U \in SUBSET S : Total(f, U \union T) = Total(f, U) + Total(f, T)}
<1>0. \A x \in S \union T : f[x] \in Int
  BY DEF Ints
<1>1. {} \in F
  <2>1. Total(f, {}) = 0 /\ Total(f, T) \in Int /\ {} \union T = T
    BY <1>0, SumEmpty, SumInt
  <2> QED
    BY <2>1
<1>2. \A U \in SUBSET S, x \in S : U \in F /\ x \notin U => U \union {x} \in F
  <2> SUFFICES ASSUME NEW U \in SUBSET S, NEW x \in S, U \in F, x \notin U
               PROVE  Total(f, (U \union {x}) \union T) = Total(f, U \union {x}) + Total(f, T)
    OBVIOUS
  <2>1. IsFiniteSet(U) /\ IsFiniteSet(U \union T)
    BY FS_Subset, FS_Union
  <2>2. x \notin U \union T /\ (U \union {x}) \union T = (U \union T) \union {x}
    OBVIOUS
  <2>3. Total(f, (U \union T) \union {x}) = f[x] + Total(f, U \union T)
    <3>1. \A y \in (U \union T) \union {x} : f[y] \in Int
      BY <1>0
    <3> QED
      BY <2>1, <2>2, <3>1, SumAdd
  <2>4. Total(f, U \union {x}) = f[x] + Total(f, U)
    <3>1. \A y \in U \union {x} : f[y] \in Int
      BY <1>0
    <3> QED
      BY <2>1, <3>1, SumAdd
  <2>5. Total(f, U) \in Int /\ Total(f, T) \in Int /\ f[x] \in Int
    <3>1. (\A y \in U : f[y] \in Int) /\ (\A y \in T : f[y] \in Int)
      BY <1>0
    <3> QED
      BY <1>0, <2>1, <3>1, SumInt
  <2>6. Total(f, U \union T) = Total(f, U) + Total(f, T)
    OBVIOUS
  <2>7. Total(f, (U \union {x}) \union T) = f[x] + Total(f, U \union T)
    BY <2>2, <2>3
  <2> DEFINE l == Total(f, (U \union {x}) \union T)
             m == Total(f, U \union T)
             r == Total(f, U \union {x})
             u == Total(f, U)
             t == Total(f, T)
  <2>8. l = f[x] + m /\ r = f[x] + u /\ m = u + t /\ u \in Int /\ t \in Int /\ f[x] \in Int
    BY <2>4, <2>5, <2>6, <2>7
  <2> HIDE DEF l, m, r, u, t
  <2>9. l = r + t
    BY <2>8
  <2> QED
    BY <2>9 DEF l, r, t
<1>3. \A U \in SUBSET S : U \in F
  <2> HIDE DEF F
  <2> QED BY <1>1, <1>2, FiniteSetInduction
<1>4. S \in F
  BY <1>3
<1> QED
  BY <1>4

(* The pairs of one x *)
LEMMA SumRow ==
  ASSUME NEW T, IsFiniteSet(T), NEW x, NEW f, Ints(f, {x} \X T), NEW g, \A y \in T : g[y] = f[<<x, y>>]
  PROVE  Total(f, {x} \X T) = Total(g, T) /\ IsFiniteSet({x} \X T)
<1> DEFINE F == {U \in SUBSET T : Total(f, {x} \X U) = Total(g, U) /\ IsFiniteSet({x} \X U)}
<1>0. \A y \in T : f[<<x, y>>] \in Int /\ g[y] = f[<<x, y>>]
  BY DEF Ints
<1>1. {} \in F
  <2>1. Total(f, {}) = 0 /\ Total(g, {}) = 0 /\ {x} \X {} = {} /\ IsFiniteSet({})
    BY SumEmpty, FS_EmptySet
  <2> QED
    BY <2>1
<1>2. \A U \in SUBSET T, y \in T : U \in F /\ y \notin U => U \union {y} \in F
  <2> SUFFICES ASSUME NEW U \in SUBSET T, NEW y \in T, U \in F, y \notin U
               PROVE  /\ Total(f, {x} \X (U \union {y})) = Total(g, U \union {y})
                      /\ IsFiniteSet({x} \X (U \union {y}))
    OBVIOUS
  <2> DEFINE R == {x} \X U
             p == <<x, y>>
  <2>1. {x} \X (U \union {y}) = R \union {p} /\ p \notin R
    OBVIOUS
  <2>2. \A q \in R \union {p} : f[q] \in Int
    BY <1>0
  <2>3. Total(f, R) = Total(g, U) /\ IsFiniteSet(R) /\ f[p] = g[y]
    BY <1>0
  <2>4. IsFiniteSet(U) /\ \A z \in U \union {y} : g[z] \in Int
    BY <1>0, FS_Subset
  <2>5. Total(g, U \union {y}) = g[y] + Total(g, U)
    BY <2>4, SumAdd
  <2> HIDE DEF R, p
  <2>6. Total(f, R \union {p}) = f[p] + Total(f, R)
    BY <2>1, <2>2, <2>3, SumAdd
  <2>7. IsFiniteSet(R \union {p})
    BY <2>3, FS_AddElement
  <2> QED
    BY <2>1, <2>3, <2>5, <2>6, <2>7
<1>3. \A U \in SUBSET T : U \in F
  <2> HIDE DEF F
  <2> QED BY <1>1, <1>2, FiniteSetInduction
<1>4. T \in F
  BY <1>3
<1> QED
  BY <1>4

(* All pairs, row by row *)
SumsOfRows(g, f, S, T) ==
  /\ IsFiniteSet(S) /\ IsFiniteSet(T) /\ Ints(f, S \X T)
  /\ \A x \in S : g[x] = Total([y \in T |-> f[<<x, y>>]], T)

(* The total over pairs is that of the rows' totals. *)
LEMMA SumPairs ==
  ASSUME NEW S, NEW T, NEW f, NEW g, SumsOfRows(g, f, S, T)
  PROVE  Total(f, S \X T) = Total(g, S)
<1> DEFINE F == {U \in SUBSET S : Total(f, U \X T) = Total(g, U) /\ IsFiniteSet(U \X T)}
<1>0. \A p \in S \X T : f[p] \in Int
  BY DEF Ints, SumsOfRows
<1>b. IsFiniteSet(S) /\ IsFiniteSet(T)
  BY DEF SumsOfRows
<1>1. {} \in F
  <2>1. Total(f, {}) = 0 /\ Total(g, {}) = 0 /\ {} \X T = {} /\ IsFiniteSet({})
    BY SumEmpty, FS_EmptySet
  <2> QED
    BY <2>1
<1>a. \A x \in S : Total(f, {x} \X T) = g[x] /\ IsFiniteSet({x} \X T) /\ g[x] \in Int
  <2> SUFFICES ASSUME NEW x \in S PROVE Total(f, {x} \X T) = g[x] /\ IsFiniteSet({x} \X T) /\ g[x] \in Int
    OBVIOUS
  <2> DEFINE r == [y \in T |-> f[<<x, y>>]]
  <2>1. (\A y \in T : r[y] = f[<<x, y>>]) /\ g[x] = Total(r, T)
    BY DEF SumsOfRows
  <2>2. Ints(f, {x} \X T) /\ \A y \in T : r[y] \in Int
    BY <1>0 DEF Ints
  <2> HIDE DEF r
  <2>3. Total(f, {x} \X T) = Total(r, T) /\ IsFiniteSet({x} \X T)
    <3>1. \A y \in T : r[y] = f[<<x, y>>]
      BY <2>1
    <3>2. Ints(f, {x} \X T)
      BY <2>2
    <3> HIDE DEF F
    <3> QED
      BY <1>b, <3>1, <3>2, SumRow
  <2>4. Total(r, T) \in Int
    BY <1>b, <2>2, SumInt
  <2> QED
    BY <2>1, <2>3, <2>4
<1>2. \A U \in SUBSET S, x \in S : U \in F /\ x \notin U => U \union {x} \in F
  <2> SUFFICES ASSUME NEW U \in SUBSET S, NEW x \in S, U \in F, x \notin U
               PROVE  Total(f, (U \union {x}) \X T) = Total(g, U \union {x}) /\ IsFiniteSet((U \union {x}) \X T)
    OBVIOUS
  <2> DEFINE R == U \X T
             Q == {x} \X T
  <2>1. (U \union {x}) \X T = R \union Q /\ R \cap Q = {}
    OBVIOUS
  <2>2. Ints(f, R \union Q)
    BY <1>0 DEF Ints
  <2>3. Total(f, R) = Total(g, U) /\ IsFiniteSet(R) /\ Total(f, Q) = g[x] /\ IsFiniteSet(Q)
    BY <1>a
  <2>4. IsFiniteSet(U) /\ \A z \in U \union {x} : g[z] \in Int
    BY <1>a, <1>b, FS_Subset
  <2>5. Total(g, U \union {x}) = g[x] + Total(g, U) /\ Total(g, U) \in Int /\ g[x] \in Int
    BY <2>4, SumAdd, SumInt
  <2> HIDE DEF R, Q
  <2>6. Total(f, R \union Q) = Total(f, R) + Total(f, Q)
    BY <2>1, <2>2, <2>3, SumUnion
  <2>7. IsFiniteSet(R \union Q)
    BY <2>3, FS_Union
  <2>8. Total(f, R \union Q) = Total(g, U \union {x})
    <3> DEFINE l == Total(f, R \union Q)
               r == Total(g, U \union {x})
               u == Total(g, U)
    <3>1. l = u + g[x] /\ r = g[x] + u /\ u \in Int /\ g[x] \in Int
      BY <2>3, <2>5, <2>6
    <3> HIDE DEF l, r, u
    <3>2. l = r
      BY <3>1
    <3> QED
      BY <3>2 DEF l, r
  <2> HIDE DEF F
  <2> QED
    BY <2>1, <2>7, <2>8
<1>3. \A U \in SUBSET S : U \in F
  <2> HIDE DEF F
  <2> QED BY <1>1, <1>2, <1>b, FiniteSetInduction
<1>4. S \in F
  BY <1>3
<1> QED
  BY <1>4

-----------------------------------------------------------------------------
(* RetrievalJudgments: the ratings of two people.  A rating reaches the        *)
(* grades up to it, and how far two ratings are apart is how many grades one   *)
(* reaches and the other does not.                                         *)

Reaches(a, t) == [i \in DOMAIN a |-> IF a[i] >= t THEN 1 ELSE 0]

(* How many of the ratings reach grade t. *)
Reached(a, t) == Total(Reaches(a, t), DOMAIN a)

(* a is a row of n grades. *)
Rated(a, n) == n \in Nat \ {0} /\ a \in [1..n -> 0..3]

(* What a row of grades is made of. *)
LEMMA RatedIs ==
  ASSUME NEW n, NEW a, Rated(a, n), NEW t \in 1..3
  PROVE  /\ DOMAIN a = 1..n /\ IsFiniteSet(1..n) /\ Cardinality(1..n) = n /\ n \in Nat /\ Len(a) = n
         /\ \A i \in 1..n : a[i] \in 0..3 /\ Reaches(a, t)[i] = IF a[i] >= t THEN 1 ELSE 0
         /\ Ints(Reaches(a, t), 1..n) /\ Reached(a, t) = Total(Reaches(a, t), 1..n)
<1>1. n \in Nat /\ n # 0 /\ a \in [1..n -> 0..3] /\ DOMAIN a = 1..n
  BY DEF Rated
<1>2. IsFiniteSet(1..n) /\ Cardinality(1..n) = n
  <2>1. \A k, l \in Int : IsFiniteSet(k..l)
    BY FS_Interval
  <2>2. Cardinality(1..n) = IF 1 > n THEN 0 ELSE n - 1 + 1
    BY <1>1, FS_Interval
  <2> QED
    BY <1>1, <2>1, <2>2
<1>3. Len(a) = n
  <2>1. a \in Seq(0..3)
    BY <1>1
  <2> QED
    BY <1>1, <2>1
<1>4. \A i \in 1..n : a[i] \in 0..3 /\ Reaches(a, t)[i] = IF a[i] >= t THEN 1 ELSE 0
  BY <1>1 DEF Reaches
<1>5. \A i \in 1..n : Reaches(a, t)[i] \in Int
  BY <1>4
<1> QED
  BY <1>1, <1>2, <1>3, <1>4, <1>5 DEF Ints, Reached

(* At most all ratings reach a grade. *)
LEMMA ReachedIs ==
  ASSUME NEW n, NEW a, Rated(a, n), NEW t \in 1..3
  PROVE  Reached(a, t) \in 0..n
<1> DEFINE f == Reaches(a, t)
           zero == [i \in 1..n |-> 0]
           one == [i \in 1..n |-> 1]
<1>1. /\ IsFiniteSet(1..n) /\ Cardinality(1..n) = n /\ n \in Nat
      /\ Reached(a, t) = Total(f, 1..n) /\ \A i \in 1..n : f[i] = 0 \/ f[i] = 1
  BY RatedIs
<1> HIDE DEF f
<1>2. (\A i \in 1..n : zero[i] = 0 + 0 * f[i] + 0 * f[i] + 0 * f[i])
      /\ (\A i \in 1..n : one[i] = 1 + 0 * f[i] + 0 * f[i] + 0 * f[i])
  BY <1>1
<1>3. Ints(f, 1..n)
  BY <1>1 DEF Ints
<1>4. \A i \in 1..n : /\ f[i] \in Int /\ zero[i] \in Int /\ one[i] \in Int
                      /\ zero[i] <= f[i] /\ f[i] <= one[i]
  BY <1>1
<1>5. Total(f, 1..n) \in Int
  BY <1>1, <1>4, SumInt
<1> HIDE DEF zero, one
<1>6. Total(zero, 1..n) = 0 /\ Total(one, 1..n) = n
  <2>a. 0 \in Int /\ 1 \in Int
    OBVIOUS
  <2>b. Combines(zero, 1..n, 0, 0, f, 0, f, 0, f) /\ Combines(one, 1..n, 1, 0, f, 0, f, 0, f)
    BY <1>1, <1>2, <1>3, <2>a DEF Combines
  <2>1. Total(zero, 1..n) = 0 * Cardinality(1..n) + 0 * Total(f, 1..n) + 0 * Total(f, 1..n) + 0 * Total(f, 1..n)
    BY <2>b, SumLinear
  <2>2. Total(one, 1..n) = 1 * Cardinality(1..n) + 0 * Total(f, 1..n) + 0 * Total(f, 1..n) + 0 * Total(f, 1..n)
    BY <2>b, SumLinear
  <2> QED
    BY <1>1, <1>5, <2>1, <2>2
<1>7. Total(zero, 1..n) <= Total(f, 1..n)
  BY <1>1, <1>4, SumMonotone
<1>8. Total(f, 1..n) <= Total(one, 1..n)
  BY <1>1, <1>4, SumMonotone
<1> QED
  BY <1>1, <1>5, <1>6, <1>7, <1>8

(* All that is expected of two rows of ratings, from how many reach what *)
LEMMA ExpectedIs ==
  ASSUME NEW n, NEW a, NEW b, Rated(a, n), Rated(b, n)
  PROVE  Judgments!Expected(a, b) =
           n * (Reached(b, 1) + Reached(b, 2) + Reached(b, 3))
           + (n - 2 * Reached(b, 1)) * Reached(a, 1) + (n - 2 * Reached(b, 2)) * Reached(a, 2)
           + (n - 2 * Reached(b, 3)) * Reached(a, 3)
<1> DEFINE D == 1..n
           f == [p \in D \X D |-> Judgments!Distance(a[p[1]], b[p[2]])]
           row(i) == [j \in D |-> f[<<i, j>>]]
           g == [i \in D |-> Total(row(i), D)]
           B1 == Reached(b, 1)
           B2 == Reached(b, 2)
           B3 == Reached(b, 3)
           x1 == Reaches(a, 1)
           x2 == Reaches(a, 2)
           x3 == Reaches(a, 3)
           y1 == Reaches(b, 1)
           y2 == Reaches(b, 2)
           y3 == Reaches(b, 3)
<1>1. 1 \in 1..3 /\ 2 \in 1..3 /\ 3 \in 1..3
  OBVIOUS
<1>2. /\ DOMAIN a = D /\ DOMAIN b = D /\ IsFiniteSet(D) /\ Cardinality(D) = n /\ n \in Nat
      /\ \A i \in D : a[i] \in 0..3
      /\ \A i \in D : b[i] \in 0..3
  BY <1>1, RatedIs
<1>3. /\ \A i \in D : x1[i] = IF a[i] >= 1 THEN 1 ELSE 0
      /\ \A i \in D : x2[i] = IF a[i] >= 2 THEN 1 ELSE 0
      /\ \A i \in D : x3[i] = IF a[i] >= 3 THEN 1 ELSE 0
      /\ \A i \in D : y1[i] = IF b[i] >= 1 THEN 1 ELSE 0
      /\ \A i \in D : y2[i] = IF b[i] >= 2 THEN 1 ELSE 0
      /\ \A i \in D : y3[i] = IF b[i] >= 3 THEN 1 ELSE 0
  BY <1>1, RatedIs
<1>4. /\ Ints(x1, D) /\ Ints(x2, D) /\ Ints(x3, D) /\ Ints(y1, D) /\ Ints(y2, D) /\ Ints(y3, D)
      /\ Reached(a, 1) = Total(x1, D) /\ Reached(a, 2) = Total(x2, D) /\ Reached(a, 3) = Total(x3, D)
      /\ B1 = Total(y1, D) /\ B2 = Total(y2, D) /\ B3 = Total(y3, D)
  BY <1>1, RatedIs
<1>5. B1 \in Int /\ B2 \in Int /\ B3 \in Int
  BY <1>1, <1>2, ReachedIs
<1>6. \A i, j \in D : f[<<i, j>>] = Judgments!Distance(a[i], b[j]) /\ f[<<i, j>>] \in Int
  BY <1>2 DEF Judgments!Distance
<1>7. Judgments!Expected(a, b) = Total(f, D \X D)
  <2>1. f = [p \in (DOMAIN a) \X (DOMAIN b) |-> Judgments!Distance(a[p[1]], b[p[2]])] /\ DOMAIN f = D \X D
    BY <1>2
  <2> HIDE DEF f
  <2>2. Judgments!Expected(a, b) = Judgments!FoldFunction(LAMBDA x, y : x + y, 0, f)
    BY <2>1 DEF Judgments!Expected
  <2>3. Judgments!FoldFunction(LAMBDA x, y : x + y, 0, f) = Total(f, DOMAIN f)
    BY DEF Judgments!FoldFunction, Judgments!FoldFunctionOnSet, Judgments!MapThenFoldSet, Total, PartialSums, Any
  <2> QED
    BY <2>1, <2>2, <2>3
<1> HIDE DEF f, x1, x2, x3, y1, y2, y3, D, B1, B2, B3
<1>8. Ints(f, D \X D)
  BY <1>6 DEF Ints
<1>9. Total(f, D \X D) = Total(g, D)
  <2>1. \A i \in D : g[i] = Total([j \in D |-> f[<<i, j>>]], D)
    OBVIOUS
  <2> HIDE DEF g
  <2>2. SumsOfRows(g, f, D, D)
    BY <1>2, <1>8, <2>1 DEF SumsOfRows
  <2> QED
    BY <2>2, SumPairs
<1>10. ASSUME NEW i \in D
       PROVE  g[i] = (B1 + B2 + B3) + (n - 2 * B1) * x1[i] + (n - 2 * B2) * x2[i] + (n - 2 * B3) * x3[i]
  <2> DEFINE h == row(i)
             u == a[i]
             c1 == IF u >= 1 THEN -1 ELSE 1
             c2 == IF u >= 2 THEN -1 ELSE 1
             c3 == IF u >= 3 THEN -1 ELSE 1
  <2>1. u \in 0..3 /\ u \in Int /\ c1 \in Int /\ c2 \in Int /\ c3 \in Int
    BY <1>2
  <2>2. g[i] = Total(h, D)
    OBVIOUS
  <2>3. ASSUME NEW j \in D PROVE h[j] = u + c1 * y1[j] + c2 * y2[j] + c3 * y3[j]
    <3>1. h[j] = Judgments!Distance(u, b[j])
      BY <1>6
    <3> DEFINE v == b[j]
    <3>2. v \in 0..3 /\ y1[j] = (IF v >= 1 THEN 1 ELSE 0) /\ y2[j] = (IF v >= 2 THEN 1 ELSE 0)
          /\ y3[j] = (IF v >= 3 THEN 1 ELSE 0) /\ h[j] = Judgments!Distance(u, v)
      BY <1>2, <1>3, <3>1
    <3> HIDE DEF u, v, h
    <3>3. u = 0 \/ u = 1 \/ u = 2 \/ u = 3
      BY <2>1
    <3>4. v = 0 \/ v = 1 \/ v = 2 \/ v = 3
      BY <3>2
    <3> QED
      BY <3>2, <3>3, <3>4 DEF Judgments!Distance
  <2> HIDE DEF h, u, c1, c2, c3
  <2>4. Total(h, D) = u * Cardinality(D) + c1 * Total(y1, D) + c2 * Total(y2, D) + c3 * Total(y3, D)
    <3>1. Combines(h, D, u, c1, y1, c2, y2, c3, y3)
      BY <1>2, <1>4, <2>1, <2>3 DEF Combines
    <3> QED
      BY <3>1, SumLinear
  <2>5. Total(h, D) = u * n + c1 * B1 + c2 * B2 + c3 * B3
    BY <1>2, <1>4, <2>4
  <2>6. u = 0 \/ u = 1 \/ u = 2 \/ u = 3
    BY <2>1
  <2>7. /\ x1[i] = (IF u >= 1 THEN 1 ELSE 0) /\ x2[i] = (IF u >= 2 THEN 1 ELSE 0)
        /\ x3[i] = (IF u >= 3 THEN 1 ELSE 0)
    BY <1>3 DEF u
  <2> HIDE DEF g
  <2> QED
    BY <1>2, <1>5, <2>2, <2>5, <2>6, <2>7 DEF c1, c2, c3
<1> HIDE DEF g
<1>11. Total(g, D) = (B1 + B2 + B3) * Cardinality(D) + (n - 2 * B1) * Total(x1, D)
                     + (n - 2 * B2) * Total(x2, D) + (n - 2 * B3) * Total(x3, D)
  <2> DEFINE c0 == B1 + B2 + B3
             c1 == n - 2 * B1
             c2 == n - 2 * B2
             c3 == n - 2 * B3
  <2>1. c0 \in Int /\ c1 \in Int /\ c2 \in Int /\ c3 \in Int
    BY <1>2, <1>5
  <2>2. \A i \in D : g[i] = c0 + c1 * x1[i] + c2 * x2[i] + c3 * x3[i]
    BY <1>10
  <2> HIDE DEF c0, c1, c2, c3
  <2>3. Total(g, D) = c0 * Cardinality(D) + c1 * Total(x1, D) + c2 * Total(x2, D) + c3 * Total(x3, D)
    <3>1. Combines(g, D, c0, c1, x1, c2, x2, c3, x3)
      BY <1>2, <1>4, <2>1, <2>2 DEF Combines
    <3> QED
      BY <3>1, SumLinear
  <2> QED
    BY <2>3 DEF c0, c1, c2, c3
<1>12. (B1 + B2 + B3) * n = n * (B1 + B2 + B3)
  BY <1>2, <1>5
<1> QED
  BY <1>2, <1>4, <1>7, <1>9, <1>11, <1>12 DEF B1, B2, B3

(* How many ratings reach t in one row and not in the other *)
Differ(a, b, t) == [i \in DOMAIN a |-> IF Reaches(a, t)[i] = Reaches(b, t)[i] THEN 0 ELSE 1]

(* How many ratings differ in whether they reach grade t. *)
Differing(a, b, t) == Total(Differ(a, b, t), DOMAIN a)

(* Two rows differ about a grade at most where one reaches it, and where one  *)
(* does not.                                                                  *)
LEMMA DifferingIs ==
  ASSUME NEW n, NEW a, NEW b, Rated(a, n), Rated(b, n), NEW t \in 1..3
  PROVE  /\ Differing(a, b, t) \in Nat
         /\ Differing(a, b, t) <= Reached(a, t) + Reached(b, t)
         /\ Differing(a, b, t) <= 2 * n - (Reached(a, t) + Reached(b, t))
         /\ Differing(a, b, t) = Total(Differ(a, b, t), 1..n)
<1> DEFINE D == 1..n
           x == Reaches(a, t)
           y == Reaches(b, t)
           z == Differ(a, b, t)
           zero == [i \in D |-> 0]
           plus == [i \in D |-> x[i] + y[i]]
           less == [i \in D |-> 2 - x[i] - y[i]]
<1>1. /\ DOMAIN a = D /\ DOMAIN b = D /\ IsFiniteSet(D) /\ Cardinality(D) = n /\ n \in Nat
      /\ Ints(x, D) /\ Ints(y, D) /\ Reached(a, t) = Total(x, D) /\ Reached(b, t) = Total(y, D)
  BY RatedIs
<1>2. /\ \A i \in D : x[i] = 0 \/ x[i] = 1
      /\ \A i \in D : y[i] = 0 \/ y[i] = 1
  BY RatedIs
<1>3. \A i \in D : z[i] = IF x[i] = y[i] THEN 0 ELSE 1
  BY <1>1 DEF Differ
<1>4. Differing(a, b, t) = Total(z, D)
  BY <1>1 DEF Differing
<1> HIDE DEF D, x, y, z
<1>5. \A i \in D : /\ z[i] \in Int /\ zero[i] \in Int /\ plus[i] \in Int /\ less[i] \in Int
                   /\ zero[i] <= z[i] /\ z[i] <= plus[i] /\ z[i] <= less[i]
  BY <1>2, <1>3
<1>6. /\ \A i \in D : plus[i] = 0 + 1 * x[i] + 1 * y[i] + 0 * y[i]
      /\ \A i \in D : less[i] = 2 + (-1) * x[i] + (-1) * y[i] + 0 * y[i]
      /\ \A i \in D : zero[i] = 0 + 0 * x[i] + 0 * y[i] + 0 * y[i]
  BY <1>2
<1> HIDE DEF zero, plus, less
<1>7. 0 \in Int /\ 1 \in Int /\ -1 \in Int /\ 2 \in Int
  OBVIOUS
<1>8. /\ Combines(plus, D, 0, 1, x, 1, y, 0, y) /\ Combines(less, D, 2, -1, x, -1, y, 0, y)
      /\ Combines(zero, D, 0, 0, x, 0, y, 0, y)
  BY <1>1, <1>6, <1>7 DEF Combines
<1>9. Total(x, D) \in Int /\ Total(y, D) \in Int
  BY <1>1, SumInt DEF Ints
<1>10. Total(plus, D) = Total(x, D) + Total(y, D)
  <2>1. Total(plus, D) = 0 * Cardinality(D) + 1 * Total(x, D) + 1 * Total(y, D) + 0 * Total(y, D)
    BY <1>8, SumLinear
  <2> QED
    BY <1>1, <1>9, <2>1
<1>11. Total(less, D) = 2 * n - (Total(x, D) + Total(y, D))
  <2>1. Total(less, D) = 2 * Cardinality(D) + (-1) * Total(x, D) + (-1) * Total(y, D) + 0 * Total(y, D)
    BY <1>8, SumLinear
  <2> QED
    BY <1>1, <1>9, <2>1
<1>12. Total(zero, D) = 0
  <2>1. Total(zero, D) = 0 * Cardinality(D) + 0 * Total(x, D) + 0 * Total(y, D) + 0 * Total(y, D)
    BY <1>8, SumLinear
  <2> QED
    BY <1>1, <1>9, <2>1
<1>13. Total(z, D) \in Int
  BY <1>1, <1>5, SumInt
<1>14. Total(zero, D) <= Total(z, D)
  BY <1>1, <1>5, SumMonotone
<1>15. Total(z, D) <= Total(plus, D)
  BY <1>1, <1>5, SumMonotone
<1>16. Total(z, D) <= Total(less, D)
  BY <1>1, <1>5, SumMonotone
<1> QED
  BY <1>1, <1>4, <1>9, <1>10, <1>11, <1>12, <1>13, <1>14, <1>15, <1>16 DEF z, D

(* The observed disagreement is the sum of those about each grade: 0 when     *)
(* rows agree, and at least n when they do not.                               *)
LEMMA ObservedIs ==
  ASSUME NEW n, NEW a, NEW b, Rated(a, n), Rated(b, n)
  PROVE  /\ Judgments!Observed(a, b) = n * (Differing(a, b, 1) + Differing(a, b, 2) + Differing(a, b, 3))
         /\ a = b => Judgments!Observed(a, b) = 0
         /\ a # b => Judgments!Observed(a, b) >= n
         /\ Judgments!Observed(a, b) = Judgments!Observed(b, a)
<1> DEFINE D == 1..n
           f == [i \in D |-> Judgments!Distance(a[i], b[i])]
           h == [i \in D |-> Judgments!Distance(b[i], a[i])]
           z1 == Differ(a, b, 1)
           z2 == Differ(a, b, 2)
           z3 == Differ(a, b, 3)
<1>1. 1 \in 1..3 /\ 2 \in 1..3 /\ 3 \in 1..3
  OBVIOUS
<1>2. /\ DOMAIN a = D /\ DOMAIN b = D /\ IsFiniteSet(D) /\ Cardinality(D) = n /\ n \in Nat
      /\ Len(a) = n /\ Len(b) = n
      /\ \A i \in D : a[i] \in 0..3
      /\ \A i \in D : b[i] \in 0..3
  BY <1>1, RatedIs
<1>3. /\ \A i \in D : z1[i] = IF (a[i] >= 1) <=> (b[i] >= 1) THEN 0 ELSE 1
      /\ \A i \in D : z2[i] = IF (a[i] >= 2) <=> (b[i] >= 2) THEN 0 ELSE 1
      /\ \A i \in D : z3[i] = IF (a[i] >= 3) <=> (b[i] >= 3) THEN 0 ELSE 1
  <2>1. ASSUME NEW t \in 1..3, NEW i \in D
        PROVE  Differ(a, b, t)[i] = IF (a[i] >= t) <=> (b[i] >= t) THEN 0 ELSE 1
    <3>1. Reaches(a, t)[i] = (IF a[i] >= t THEN 1 ELSE 0) /\ Reaches(b, t)[i] = (IF b[i] >= t THEN 1 ELSE 0)
      BY RatedIs
    <3>2. Differ(a, b, t)[i] = IF Reaches(a, t)[i] = Reaches(b, t)[i] THEN 0 ELSE 1
      BY <1>2 DEF Differ
    <3> QED
      BY <3>1, <3>2
  <2> QED
    BY <1>1, <2>1
<1>4. /\ Differing(a, b, 1) = Total(z1, D) /\ Differing(a, b, 2) = Total(z2, D) /\ Differing(a, b, 3) = Total(z3, D)
      /\ Differing(a, b, 1) \in Nat /\ Differing(a, b, 2) \in Nat /\ Differing(a, b, 3) \in Nat
  BY <1>1, DifferingIs
<1>6. Judgments!Observed(a, b) = n * Total(f, D) /\ Judgments!Observed(b, a) = n * Total(h, D)
  <2>1. f = [i \in DOMAIN a |-> Judgments!Distance(a[i], b[i])] /\ DOMAIN f = D
    BY <1>2
  <2>2. h = [i \in DOMAIN b |-> Judgments!Distance(b[i], a[i])] /\ DOMAIN h = D
    BY <1>2
  <2> HIDE DEF f, h
  <2>3. Judgments!Observed(a, b) = n * Judgments!FoldFunction(LAMBDA x, y : x + y, 0, f)
    BY <1>2, <2>1 DEF Judgments!Observed
  <2>4. Judgments!Observed(b, a) = n * Judgments!FoldFunction(LAMBDA x, y : x + y, 0, h)
    BY <1>2, <2>2 DEF Judgments!Observed
  <2>5. Judgments!FoldFunction(LAMBDA x, y : x + y, 0, f) = Total(f, DOMAIN f)
    BY DEF Judgments!FoldFunction, Judgments!FoldFunctionOnSet, Judgments!MapThenFoldSet, Total, PartialSums, Any
  <2>6. Judgments!FoldFunction(LAMBDA x, y : x + y, 0, h) = Total(h, DOMAIN h)
    BY DEF Judgments!FoldFunction, Judgments!FoldFunctionOnSet, Judgments!MapThenFoldSet, Total, PartialSums, Any
  <2> QED
    BY <2>1, <2>2, <2>3, <2>4, <2>5, <2>6
<1>7. \A i \in D : Judgments!Distance(a[i], b[i]) = Judgments!Distance(b[i], a[i])
  BY <1>2 DEF Judgments!Distance
<1>8. h = f
  BY <1>7
<1>9. \A i \in D : f[i] \in Nat /\ (a[i] # b[i] => f[i] >= 1) /\ (a[i] = b[i] => f[i] = 0)
  BY <1>2 DEF Judgments!Distance
<1> HIDE DEF z1, z2, z3
<1>10. ASSUME NEW i \in D PROVE f[i] = 0 + 1 * z1[i] + 1 * z2[i] + 1 * z3[i] /\ z1[i] \in Int /\ z2[i] \in Int /\ z3[i] \in Int
  <2> DEFINE u == a[i]
             v == b[i]
  <2>1. u \in 0..3 /\ v \in 0..3 /\ f[i] = Judgments!Distance(u, v)
    BY <1>2
  <2>2. /\ z1[i] = (IF (u >= 1) <=> (v >= 1) THEN 0 ELSE 1) /\ z2[i] = (IF (u >= 2) <=> (v >= 2) THEN 0 ELSE 1)
        /\ z3[i] = (IF (u >= 3) <=> (v >= 3) THEN 0 ELSE 1)
    BY <1>3
  <2> HIDE DEF u, v, f
  <2>3. (u = 0 \/ u = 1 \/ u = 2 \/ u = 3) /\ (v = 0 \/ v = 1 \/ v = 2 \/ v = 3)
    BY <2>1
  <2> QED
    BY <2>1, <2>2, <2>3 DEF Judgments!Distance
<1> HIDE DEF f, h, D
<1>11. Total(f, D) = Differing(a, b, 1) + Differing(a, b, 2) + Differing(a, b, 3)
  <2>1. 0 \in Int /\ 1 \in Int
    OBVIOUS
  <2>2. Combines(f, D, 0, 1, z1, 1, z2, 1, z3)
    BY <1>2, <1>10, <2>1 DEF Combines, Ints
  <2>3. Total(f, D) = 0 * Cardinality(D) + 1 * Total(z1, D) + 1 * Total(z2, D) + 1 * Total(z3, D)
    BY <2>2, SumLinear
  <2> QED
    BY <1>2, <1>4, <2>3
<1>12. Total(f, D) \in Nat
  BY <1>4, <1>11
<1>13. ASSUME a = b PROVE Total(f, D) = 0
  <2> DEFINE zero == [i \in D |-> 0]
  <2>1. \A i \in D : f[i] \in Int /\ f[i] = 0 + 0 * z1[i] + 0 * z1[i] + 0 * z1[i]
    BY <1>9, <1>10, <1>13
  <2>2. 0 \in Int
    OBVIOUS
  <2>3. Combines(f, D, 0, 0, z1, 0, z1, 0, z1)
    BY <1>2, <1>10, <2>1, <2>2 DEF Combines, Ints
  <2>4. Total(f, D) = 0 * Cardinality(D) + 0 * Total(z1, D) + 0 * Total(z1, D) + 0 * Total(z1, D)
    BY <2>3, SumLinear
  <2> QED
    BY <1>2, <1>4, <2>4
<1>14. ASSUME a # b PROVE Total(f, D) >= 1
  <2>1. PICK i \in D : a[i] # b[i]
    <3>1. a \in [1..n -> 0..3] /\ b \in [1..n -> 0..3]
      BY DEF Rated
    <3>2. a = [i \in 1..n |-> a[i]] /\ b = [i \in 1..n |-> b[i]]
      BY <3>1
    <3> SUFFICES ASSUME \A i \in D : a[i] = b[i] PROVE FALSE
      OBVIOUS
    <3>3. [i \in 1..n |-> a[i]] = [i \in 1..n |-> b[i]]
      BY DEF D
    <3> QED
      BY <1>14, <3>2, <3>3
  <2>2. f[i] \in Nat /\ f[i] >= 1
    BY <1>9, <2>1
  <2>3. Total(f, {i}) = f[i]
    <3>1. IsFiniteSet({i})
      BY FS_Singleton
    <3>2. \A j \in {i} : f[j] \in Int
      BY <2>2
    <3>3. Total(f, {i}) = f[i] + Total(f, {i} \ {i})
      BY <3>1, <3>2, SumRemove
    <3>4. {i} \ {i} = {}
      OBVIOUS
    <3>5. Total(f, {}) = 0
      BY SumEmpty
    <3> QED
      BY <2>2, <3>3, <3>4, <3>5
  <2>4. Total(f, {i}) <= Total(f, D)
    <3>1. {i} \subseteq D /\ \A j \in D : f[j] \in Nat
      BY <1>9
    <3> QED
      BY <1>2, <3>1, SumOfMore
  <2> QED
    BY <1>12, <2>2, <2>3, <2>4
<1>15. a # b => n * Total(f, D) >= n
  BY <1>2, <1>12, <1>14
<1> QED
  BY <1>2, <1>6, <1>8, <1>11, <1>13, <1>15

(* Of n ratings in each of two rows p and q reach a grade. *)
LEMMA OfOneGrade ==
  ASSUME NEW n \in Nat, NEW p \in 0..n, NEW q \in 0..n, NEW d \in Nat, d <= p + q, d <= 2 * n - (p + q)
  PROVE  LET e == n * (p + q) - 2 * (p * q) IN n * d <= 2 * e /\ e >= 0 /\ e <= n * n
<1> DEFINE s == p + q
           e == n * (p + q) - 2 * (p * q)
<1>1. p \in Nat /\ q \in Nat /\ p <= n /\ q <= n /\ s \in Nat /\ p * q \in Nat /\ n * s \in Nat /\ s * s \in Nat
      /\ n * n \in Nat /\ n * d \in Nat
  OBVIOUS
<1>2. 4 * (p * q) <= s * s
  <2>1. (p - q) * (p - q) >= 0
    OBVIOUS
  <2>2. (p - q) * (p - q) = s * s - 4 * (p * q)
    OBVIOUS
  <2> QED
    BY <1>1, <2>1, <2>2
<1>3. 2 * e = 2 * (n * s) - 4 * (p * q)
  BY <1>1
<1>4. 2 * e >= 2 * (n * s) - s * s /\ e \in Int
  BY <1>1, <1>2, <1>3
<1>5. CASE s <= n
  <2>1. n * d <= n * s
    BY <1>1, <1>5
  <2>2. s * s <= n * s
    BY <1>1, <1>5
  <2> HIDE DEF s, e
  <2> QED
    BY <1>1, <1>4, <2>1, <2>2
<1>6. CASE s > n
  <2>1. n * d <= n * (2 * n - s)
    BY <1>1, <1>6
  <2>2. (s - n) * (2 * n - s) >= 0
    BY <1>1, <1>6
  <2>3. (s - n) * (2 * n - s) = (2 * (n * s) - s * s) - n * (2 * n - s)
    BY <1>1
  <2> HIDE DEF s, e
  <2>4. n * (2 * n - s) \in Int
    BY <1>1
  <2> QED
    BY <1>1, <1>4, <2>1, <2>2, <2>3, <2>4
<1>7. n * d <= 2 * e
  BY <1>1, <1>5, <1>6
<1>8. e >= 0
  BY <1>1, <1>4, <1>7
<1>9. e <= n * n
  <2>1. (n - p) * (n - q) >= 0 /\ p * q >= 0
    BY <1>1
  <2>2. (n - p) * (n - q) = n * n - n * s + p * q
    BY <1>1
  <2> QED
    BY <1>1, <2>1, <2>2
<1> QED
  BY <1>7, <1>8, <1>9

(* Observed disagreement is at most twice the expected one, and that at most  *)
(* 3 * n * n, whoever is named first.                                         *)
LEMMA KappaBounds ==
  ASSUME NEW n, NEW a, NEW b, Rated(a, n), Rated(b, n)
  PROVE  /\ Judgments!Observed(a, b) \in Nat /\ Judgments!Expected(a, b) \in Nat
         /\ Judgments!Observed(a, b) <= 2 * Judgments!Expected(a, b)
         /\ Judgments!Expected(a, b) <= 3 * (n * n)
         /\ Judgments!Expected(a, b) = Judgments!Expected(b, a)
<1> DEFINE p1 == Reached(a, 1)
           p2 == Reached(a, 2)
           p3 == Reached(a, 3)
           q1 == Reached(b, 1)
           q2 == Reached(b, 2)
           q3 == Reached(b, 3)
           d1 == Differing(a, b, 1)
           d2 == Differing(a, b, 2)
           d3 == Differing(a, b, 3)
           e1 == n * (p1 + q1) - 2 * (p1 * q1)
           e2 == n * (p2 + q2) - 2 * (p2 * q2)
           e3 == n * (p3 + q3) - 2 * (p3 * q3)
           o == Judgments!Observed(a, b)
           e == Judgments!Expected(a, b)
           r == Judgments!Expected(b, a)
<1>1. 1 \in 1..3 /\ 2 \in 1..3 /\ 3 \in 1..3 /\ n \in Nat
  BY DEF Rated
<1>2. /\ p1 \in 0..n /\ p2 \in 0..n /\ p3 \in 0..n /\ q1 \in 0..n /\ q2 \in 0..n /\ q3 \in 0..n
  BY <1>1, ReachedIs
<1>3. /\ d1 \in Nat /\ d1 <= p1 + q1 /\ d1 <= 2 * n - (p1 + q1)
      /\ d2 \in Nat /\ d2 <= p2 + q2 /\ d2 <= 2 * n - (p2 + q2)
      /\ d3 \in Nat /\ d3 <= p3 + q3 /\ d3 <= 2 * n - (p3 + q3)
  BY <1>1, DifferingIs
<1>4. o = n * (d1 + d2 + d3)
  BY ObservedIs
<1>5. e = n * (q1 + q2 + q3) + (n - 2 * q1) * p1 + (n - 2 * q2) * p2 + (n - 2 * q3) * p3
  BY ExpectedIs
<1>6. r = n * (p1 + p2 + p3) + (n - 2 * p1) * q1 + (n - 2 * p2) * q2 + (n - 2 * p3) * q3
  BY ExpectedIs
<1> HIDE DEF p1, p2, p3, q1, q2, q3, d1, d2, d3, o, e, r
<1>7. /\ n * d1 <= 2 * e1 /\ e1 >= 0 /\ e1 <= n * n
      /\ n * d2 <= 2 * e2 /\ e2 >= 0 /\ e2 <= n * n
      /\ n * d3 <= 2 * e3 /\ e3 >= 0 /\ e3 <= n * n
  BY <1>1, <1>2, <1>3, OfOneGrade
<1>8. /\ p1 \in Int /\ p2 \in Int /\ p3 \in Int /\ q1 \in Int /\ q2 \in Int /\ q3 \in Int /\ n \in Int
      /\ d1 \in Int /\ d2 \in Int /\ d3 \in Int
  BY <1>1, <1>2, <1>3
<1>9. /\ n * (q1 + q2 + q3) = n * q1 + n * q2 + n * q3
      /\ n * (p1 + p2 + p3) = n * p1 + n * p2 + n * p3
      /\ n * (d1 + d2 + d3) = n * d1 + n * d2 + n * d3
      /\ n * (p1 + q1) = n * p1 + n * q1 /\ n * (p2 + q2) = n * p2 + n * q2 /\ n * (p3 + q3) = n * p3 + n * q3
  BY <1>8
<1>10. /\ (n - 2 * q1) * p1 = n * p1 - 2 * (p1 * q1) /\ (n - 2 * q2) * p2 = n * p2 - 2 * (p2 * q2)
       /\ (n - 2 * q3) * p3 = n * p3 - 2 * (p3 * q3)
       /\ (n - 2 * p1) * q1 = n * q1 - 2 * (p1 * q1) /\ (n - 2 * p2) * q2 = n * q2 - 2 * (p2 * q2)
       /\ (n - 2 * p3) * q3 = n * q3 - 2 * (p3 * q3)
  BY <1>8
<1>11. /\ n * p1 \in Int /\ n * p2 \in Int /\ n * p3 \in Int /\ n * q1 \in Int /\ n * q2 \in Int /\ n * q3 \in Int
       /\ p1 * q1 \in Int /\ p2 * q2 \in Int /\ p3 * q3 \in Int /\ n * n \in Int
       /\ n * d1 \in Int /\ n * d2 \in Int /\ n * d3 \in Int
  BY <1>8
<1>12. e = e1 + e2 + e3 /\ r = e1 + e2 + e3 /\ e1 \in Int /\ e2 \in Int /\ e3 \in Int
  BY <1>5, <1>6, <1>9, <1>10, <1>11
<1>13. o = n * d1 + n * d2 + n * d3
  BY <1>4, <1>9
<1>14. o \in Nat
  BY <1>1, <1>3, <1>4
<1> HIDE DEF e1, e2, e3
<1>15. e \in Nat /\ o <= 2 * e /\ e <= 3 * (n * n) /\ e = r
  BY <1>7, <1>11, <1>12, <1>13, <1>14
<1> QED
  BY <1>14, <1>15 DEF o, e, r

(* k measures agreement: between -1 and 1, 1 if nobody disagrees, and 1 only  *)
(* if nearly nobody does.                                                     *)
Measures(k, o, e) ==
  /\ -10000 <= k /\ k <= 10000
  /\ o = 0 => k = 10000
  /\ k = 10000 => 20000 * o <= e

(* Rounding to four digits leaves it so. *)
LEMMA KappaOf ==
  ASSUME NEW o \in Nat, NEW e \in Nat, e > 0, o <= 2 * e
  PROVE  Measures(Judgments!Rounded(10000 * (e - o), e), o, e)
<1> DEFINE x == 2 * (10000 * (e - o)) + e
           y == 2 * e
           k == Judgments!Rounded(10000 * (e - o), e)
<1>1. k = x \div y /\ x \in Int /\ y \in Nat /\ y > 0 /\ x = 20000 * e - 20000 * o + e
  BY DEF Judgments!Rounded
<1> HIDE DEF x, y, k
<1>2. k \in Int /\ k * y <= x /\ x < (k + 1) * y
  BY <1>1
<1>3. y = 2 * e
  BY DEF y
<1>4. k <= 10000
  <2> SUFFICES ASSUME 10001 <= k PROVE FALSE
    BY <1>2
  <2>1. 10001 * y <= k * y
    BY <1>1, <1>2
  <2>2. k * y \in Int
    BY <1>1, <1>2
  <2> QED
    BY <1>1, <1>2, <1>3, <2>1, <2>2
<1>5. k >= -10000
  <2> SUFFICES ASSUME k + 1 <= -10000 PROVE FALSE
    BY <1>2
  <2>1. (k + 1) * y <= (-10000) * y
    BY <1>1, <1>2
  <2>2. (k + 1) * y \in Int
    BY <1>1, <1>2
  <2> QED
    BY <1>1, <1>2, <1>3, <2>1, <2>2
<1>6. ASSUME o = 0 PROVE k = 10000
  <2> SUFFICES ASSUME k + 1 <= 10000 PROVE FALSE
    BY <1>2, <1>4
  <2>1. (k + 1) * y <= 10000 * y
    BY <1>1, <1>2
  <2>2. (k + 1) * y \in Int
    BY <1>1, <1>2
  <2> QED
    BY <1>1, <1>2, <1>3, <1>6, <2>1, <2>2
<1>7. ASSUME k = 10000 PROVE 20000 * o <= e
  BY <1>1, <1>2, <1>3, <1>7
<1>8. -10000 <= k /\ k <= 10000
  BY <1>2, <1>4, <1>5
<1>9. Measures(k, o, e)
  <2>1. o = 0 => k = 10000
    BY <1>6
  <2>2. k = 10000 => 20000 * o <= e
    BY <1>7
  <2> QED
    BY <1>8, <2>1, <2>2 DEF Measures
<1> QED
  BY <1>9 DEF k

(* What KappaSound says of the kappa of two rows, of the disagreement and of  *)
(* their length                                                            *)
Sound(k, l, o, e, n, same) ==
  /\ k = l
  /\ -10000 <= k /\ k <= 10000
  /\ same => k = 10000
  /\ k = 10000 /\ n <= 6666 => same
  /\ e = 0 => o = 0

(* What KappaSound says of two rows. *)
SoundFor(a, b) ==
  Sound(Judgments!Kappa(a, b), Judgments!Kappa(b, a), Judgments!Observed(a, b), Judgments!Expected(a, b),
        Len(a), a = b)

(* It holds of any two rows of as many grades. *)
LEMMA KappaIsSound ==
  ASSUME NEW n, NEW a, NEW b, Rated(a, n), Rated(b, n)
  PROVE  SoundFor(a, b)
<1> DEFINE o == Judgments!Observed(a, b)
           e == Judgments!Expected(a, b)
           k == Judgments!Kappa(a, b)
           l == Judgments!Kappa(b, a)
<1>1. o \in Nat /\ e \in Nat /\ o <= 2 * e /\ e <= 3 * (n * n) /\ e = Judgments!Expected(b, a)
  BY KappaBounds
<1>2. o = Judgments!Observed(b, a) /\ (a = b => o = 0) /\ (a # b => o >= n)
  BY ObservedIs
<1>3. Len(a) = n /\ n \in Nat /\ n > 0
  <2>1. 1 \in 1..3
    OBVIOUS
  <2>2. Len(a) = n
    BY <2>1, RatedIs
  <2> QED
    BY <2>2 DEF Rated
<1>4. k = IF e = 0 THEN (IF o = 0 THEN 10000 ELSE 0) ELSE Judgments!Rounded(10000 * (e - o), e)
  BY DEF Judgments!Kappa
<1>5. l = k
  BY <1>1, <1>2 DEF Judgments!Kappa
<1> HIDE DEF o, e, k, l
<1>6. CASE e = 0
  <2>1. o = 0 /\ k = 10000 /\ a = b
    BY <1>1, <1>2, <1>3, <1>4, <1>6
  <2>2. -10000 <= 10000 /\ 10000 <= 10000
    OBVIOUS
  <2>3. Sound(k, l, o, e, Len(a), a = b)
    BY <1>5, <2>1, <2>2 DEF Sound
  <2> QED
    BY <2>3 DEF SoundFor, o, e, k, l
<1>7. CASE e # 0
  <2>1. k = Judgments!Rounded(10000 * (e - o), e) /\ e > 0
    BY <1>1, <1>4, <1>7
  <2>2. Measures(Judgments!Rounded(10000 * (e - o), e), o, e)
    BY <1>1, <2>1, KappaOf
  <2>3. Measures(k, o, e)
    BY <2>1, <2>2
  <2>4. -10000 <= k /\ k <= 10000
    BY <2>3 DEF Measures
  <2>5. a = b => k = 10000
    BY <1>2, <2>3 DEF Measures
  <2>6. ASSUME k = 10000, n <= 6666 PROVE a = b
    <3> SUFFICES ASSUME a # b PROVE FALSE
      OBVIOUS
    <3>1. n <= o /\ 20000 * o <= e
      BY <1>2, <2>3, <2>6 DEF Measures
    <3>2. n * n <= 6666 * n
      BY <1>3, <2>6
    <3>3. n * n \in Nat
      BY <1>3
    <3> QED
      BY <1>1, <1>3, <3>1, <3>2, <3>3
  <2>7. Len(a) <= 6666 => n <= 6666
    BY <1>3
  <2>8. /\ k = l /\ -10000 <= k /\ k <= 10000 /\ (a = b => k = 10000)
        /\ k = 10000 /\ Len(a) <= 6666 => a = b
        /\ e = 0 => o = 0
    BY <1>5, <1>7, <2>4, <2>5, <2>6, <2>7
  <2>9. Sound(k, l, o, e, Len(a), a = b)
    BY <2>8 DEF Sound
  <2> QED
    BY <2>9 DEF SoundFor, o, e, k, l
<1> QED
  BY <1>6, <1>7

-----------------------------------------------------------------------------
(* What RetrievalJudgments compares is two rows of as many grades.           *)

Comparable(rows2) == \E n : Rated(rows2[1], n) /\ Rated(rows2[2], n)

(* One pair of grades that agree, and any two rows that are drawn, may be     *)
(* compared.                                                               *)
LEMMA PairsComparable ==
  /\ Comparable(<<<<0>>, <<0>>>>)
  /\ \A n \in Nat \ {0} : \A a, b \in [1..n -> 0..3] : Comparable(<<a, b>>)
<1>1. ASSUME NEW n \in Nat \ {0}, NEW a \in [1..n -> 0..3], NEW b \in [1..n -> 0..3]
      PROVE  Comparable(<<a, b>>)
  <2>1. Rated(a, n) /\ Rated(b, n)
    BY DEF Rated
  <2>2. <<a, b>>[1] = a /\ <<a, b>>[2] = b
    OBVIOUS
  <2> QED
    BY <2>1, <2>2 DEF Comparable
<1> DEFINE z == <<0>>
<1>2. 1 \in Nat \ {0} /\ z \in [1..1 -> 0..3]
  OBVIOUS
<1> HIDE DEF z
<1>3. Comparable(<<z, z>>)
  BY <1>1, <1>2
<1> QED
  BY <1>1, <1>3 DEF z

(* RetrievalJudgments compares such rows only. *)
LEMMA RatingsCompared == ASSUME Judgments!Step, Comparable(ratings) PROVE Comparable(ratings')
<1>1. CASE Judgments!Finalize
  BY <1>1 DEF Judgments!Finalize
<1>2. CASE Judgments!Compare
  <2>1. PICK n \in 1..MaxRatings : \E a, b \in [1..n -> 0..3] : ratings' = <<a, b>>
    BY <1>2 DEF Judgments!Compare, Judgments!Grades
  <2>2. n \in Nat \ {0}
    BY <2>1
  <2>3. PICK a \in [1..n -> 0..3], b \in [1..n -> 0..3] : ratings' = <<a, b>>
    BY <2>1
  <2>4. Comparable(<<a, b>>)
    BY <2>2, <2>3, PairsComparable
  <2> QED
    BY <2>3, <2>4
<1> QED
  BY <1>1, <1>2 DEF Judgments!Step

(* So kappa is sound of the rows compared. *)
LEMMA KappaHolds == ASSUME Comparable(ratings) PROVE Judgments!KappaSound
<1>1. PICK n : Rated(ratings[1], n) /\ Rated(ratings[2], n)
  BY DEF Comparable
<1> DEFINE a == ratings[1]
           b == ratings[2]
           k == Judgments!Kappa(a, b)
           l == Judgments!Kappa(b, a)
           o == Judgments!Observed(a, b)
           e == Judgments!Expected(a, b)
<1>2. SoundFor(a, b)
  <2> HIDE DEF a, b
  <2> QED
    BY <1>1, KappaIsSound DEF a, b
<1>3. Sound(k, l, o, e, Len(a), a = b)
  BY <1>2 DEF SoundFor
<1> HIDE DEF a, b, k, l, o, e
<1>4. k = l /\ -10000 <= k /\ k <= 10000
  BY <1>3 DEF Sound
<1>5. a = b => k = 10000
  BY <1>3 DEF Sound
<1>6. k = 10000 /\ Len(a) <= 6666 => a = b
  BY <1>3 DEF Sound
<1>7. e = 0 => o = 0
  BY <1>3 DEF Sound
<1> QED
  BY <1>4, <1>5, <1>6, <1>7 DEF Judgments!KappaSound, a, b, k, l, o, e
==============================================================================
