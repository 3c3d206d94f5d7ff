---------------------------- MODULE SumTheorems ----------------------------
(***************************************************************************)
(* What the sum of an integer function over a finite set is worth after    *)
(* one of its values changes.  The registrar's books are such sums (the    *)
(* escrow of every nota, the revenue of every hook), and the code never    *)
(* computes them: it moves one entry at a time and relies on the totals    *)
(* staying covered by its token balance.                                   *)
(*                                                                         *)
(* SumFunctionOnSet is a recursive function on the subsets of the index    *)
(* set.  Its existence is proved first, by counting how large the subsets  *)
(* are on which it is defined; the least counterexample argument (WFMin)   *)
(* takes the place of an induction rule.                                   *)
(***************************************************************************)
EXTENDS Integers, FiniteSets, Functions, FiniteSetTheorems,
        WellFoundedInduction, TLAPS

\* The element the fold takes first.
LOCAL Pick(s) == CHOOSE x \in s : TRUE

\* One unfolding of the fold on the set s, for the recursive function sum.
LOCAL SumStep(f, sum, s) == IF s = {} THEN 0 ELSE f[Pick(s)] + sum[s \ {Pick(s)}]

\* sum unfolds as the fold does on every subset of S with at most n elements.
LOCAL SumUpTo(f, S, n, sum) ==
    \A s \in SUBSET S : Cardinality(s) <= n => sum[s] = SumStep(f, sum, s)

\* sum is the function the fold over S recurses with.
LOCAL IsSum(f, S, sum) == \A s \in SUBSET S : sum[s] = SumStep(f, sum, s)

\* A set of naturals that has 0 and is closed under successor is Nat: the
\* induction every lemma below uses, with the set standing for the property.
LEMMA SetInduction ==
    ASSUME NEW P \in SUBSET Nat, 0 \in P, \A n \in P : n + 1 \in P
    PROVE  P = Nat
<1>1. SUFFICES ASSUME NEW k \in Nat, k \notin P PROVE FALSE
  OBVIOUS
<1> DEFINE Bad    == {m \in 0 .. k : m \notin P}
           Ranges == {0 .. m : m \in Bad}
<1>2. IsWellFoundedOn(StrictSubsetOrdering(0 .. k), FiniteSubsetsOf(0 .. k))
  BY FS_StrictSubsetOrderingWellFounded
<1>3. Ranges \subseteq FiniteSubsetsOf(0 .. k)
  <2>1. IsFiniteSet(0 .. k)
    BY FS_Interval
  <2>2. ASSUME NEW m \in Bad PROVE 0 .. m \in FiniteSubsetsOf(0 .. k)
    <3>1. 0 .. m \in SUBSET (0 .. k)
      OBVIOUS
    <3>2. IsFiniteSet(0 .. m)
      BY <2>1, <3>1, FS_Subset
    <3> QED BY <3>1, <3>2 DEF FiniteSubsetsOf
  <2> QED BY <2>2
<1>4. Ranges # {}
  BY <1>1
<1>5. PICK R \in Ranges :
         \A Q \in Ranges : ~(<<Q, R>> \in StrictSubsetOrdering(0 .. k))
  <2> HIDE DEF Ranges
  <2> QED BY <1>2, <1>3, <1>4, WFMin
<1>6. PICK m \in Bad : R = 0 .. m
  OBVIOUS
<1>7. m - 1 \in Bad
  <2>1. m # 0
    OBVIOUS
  <2> QED BY <2>1
<1>8. <<0 .. (m - 1), 0 .. m>> \in StrictSubsetOrdering(0 .. k)
  <2>1. 0 .. (m - 1) \in SUBSET (0 .. k) /\ 0 .. m \in SUBSET (0 .. k)
    OBVIOUS
  <2>2. m \in 0 .. m /\ m \notin 0 .. (m - 1)
    OBVIOUS
  <2>3. 0 .. (m - 1) \subseteq 0 .. m
    OBVIOUS
  <2> QED BY <2>1, <2>2, <2>3 DEF StrictSubsetOrdering
<1> QED BY <1>5, <1>6, <1>7, <1>8

\* There is a function that unfolds as the fold does on every subset of S.
LEMMA SumExists ==
    ASSUME NEW S, IsFiniteSet(S), NEW f, \A x \in S : f[x] \in Int
    PROVE  \E sum \in [SUBSET S -> Int] : IsSum(f, S, sum)
<1> DEFINE P == {n \in Nat : \E sum \in [SUBSET S -> Int] : SumUpTo(f, S, n, sum)}
<1>1. \A s \in SUBSET S : IsFiniteSet(s) /\ Cardinality(s) \in Nat
  BY FS_Subset, FS_CardinalityType
<1>2. \A s \in SUBSET S : s # {} =>
         /\ Pick(s) \in s
         /\ s \ {Pick(s)} \in SUBSET S
         /\ Cardinality(s \ {Pick(s)}) = Cardinality(s) - 1
  <2> SUFFICES ASSUME NEW s \in SUBSET S, s # {}
               PROVE  /\ Pick(s) \in s
                      /\ s \ {Pick(s)} \in SUBSET S
                      /\ Cardinality(s \ {Pick(s)}) = Cardinality(s) - 1
    OBVIOUS
  <2>1. Pick(s) \in s
    BY DEF Pick
  <2> HIDE DEF Pick
  <2> QED BY <1>1, <2>1, FS_RemoveElement
<1>3. \A s \in SUBSET S : Cardinality(s) = 0 <=> s = {}
  BY <1>1, FS_EmptySet
<1>4. 0 \in P
  <2> DEFINE sum == [s \in SUBSET S |-> 0]
  <2>1. SumUpTo(f, S, 0, sum)
    <3> SUFFICES ASSUME NEW s \in SUBSET S, Cardinality(s) <= 0
                 PROVE  sum[s] = SumStep(f, sum, s)
      BY DEF SumUpTo
    <3>1. s = {}
      BY <1>1, <1>3
    <3> QED BY <3>1 DEF SumStep
  <2>2. sum \in [SUBSET S -> Int]
    OBVIOUS
  <2> HIDE DEF sum
  <2> QED BY <2>1, <2>2
<1>5. ASSUME NEW n \in P PROVE n + 1 \in P
  <2>1. PICK sum \in [SUBSET S -> Int] : SumUpTo(f, S, n, sum)
    OBVIOUS
  <2> DEFINE next == [s \in SUBSET S |-> IF Cardinality(s) <= n THEN sum[s]
                                         ELSE SumStep(f, sum, s)]
  <2>2. ASSUME NEW s \in SUBSET S PROVE SumStep(f, sum, s) \in Int
    <3>1. CASE s = {}
      BY <3>1 DEF SumStep
    <3>2. CASE s # {}
      <4>1. Pick(s) \in S /\ sum[s \ {Pick(s)}] \in Int
        BY <1>2, <3>2
      <4> QED BY <3>2, <4>1 DEF SumStep
    <3> QED BY <3>1, <3>2
  <2>3. next \in [SUBSET S -> Int]
    BY <2>2
  <2>4. SumUpTo(f, S, n + 1, next)
    <3> SUFFICES ASSUME NEW s \in SUBSET S, Cardinality(s) <= n + 1
                 PROVE  next[s] = SumStep(f, next, s)
      BY DEF SumUpTo
    <3>1. next[s] = SumStep(f, sum, s)
      BY <2>1 DEF SumUpTo
    <3>2. CASE s = {}
      BY <3>1, <3>2 DEF SumStep
    <3>3. CASE s # {}
      <4>1. Cardinality(s \ {Pick(s)}) <= n /\ s \ {Pick(s)} \in SUBSET S
        BY <1>1, <1>2, <3>3
      <4>2. next[s \ {Pick(s)}] = sum[s \ {Pick(s)}]
        BY <4>1
      <4> HIDE DEF next
      <4> QED BY <3>1, <3>3, <4>2 DEF SumStep
    <3> QED BY <3>2, <3>3
  <2>5. \E g \in [SUBSET S -> Int] : SumUpTo(f, S, n + 1, g)
    <3> HIDE DEF next
    <3> QED BY <2>3, <2>4
  <2>6. n + 1 \in Nat
    OBVIOUS
  <2> QED BY <2>5, <2>6
<1>6. P = Nat
  <2> HIDE DEF P
  <2>1. P \in SUBSET Nat
    BY DEF P
  <2> QED BY <1>4, <1>5, <2>1, SetInduction
<1>7. PICK sum \in [SUBSET S -> Int] : SumUpTo(f, S, Cardinality(S), sum)
  <2>1. Cardinality(S) \in Nat
    BY <1>1
  <2> QED BY <1>6, <2>1
<1>8. \A s \in SUBSET S : Cardinality(s) <= Cardinality(S)
  BY FS_Subset
<1> QED BY <1>7, <1>8 DEF SumUpTo, IsSum

\* Two functions that unfold as the fold does agree wherever both are defined.
LEMMA SumUnique ==
    ASSUME NEW S, IsFiniteSet(S), NEW T \in SUBSET S, NEW f,
           NEW sum, IsSum(f, S, sum), NEW part, IsSum(f, T, part)
    PROVE  \A s \in SUBSET T : part[s] = sum[s]
<1> DEFINE P == {n \in Nat : \A s \in SUBSET T : Cardinality(s) <= n => part[s] = sum[s]}
<1>1. \A s \in SUBSET T : IsFiniteSet(s) /\ Cardinality(s) \in Nat
  BY FS_Subset, FS_CardinalityType
<1>2. \A s \in SUBSET T : Cardinality(s) = 0 <=> s = {}
  BY <1>1, FS_EmptySet
<1>3. 0 \in P
  <2> SUFFICES ASSUME NEW s \in SUBSET T, Cardinality(s) <= 0
               PROVE  part[s] = sum[s]
    OBVIOUS
  <2>1. s = {} /\ s \in SUBSET S
    BY <1>1, <1>2
  <2> QED BY <2>1 DEF IsSum, SumStep
<1>4. ASSUME NEW n \in P PROVE n + 1 \in P
  <2> SUFFICES ASSUME NEW s \in SUBSET T, Cardinality(s) <= n + 1
               PROVE  part[s] = sum[s]
    OBVIOUS
  <2>1. CASE s = {}
    <3>1. Cardinality(s) <= n
      BY <1>2, <2>1
    <3> QED BY <3>1
  <2>2. CASE s # {}
    <3> DEFINE r == s \ {Pick(s)}
    <3>1. Pick(s) \in s
      BY <2>2 DEF Pick
    <3>2. r \in SUBSET T /\ Cardinality(r) <= n
      <4>1. IsFiniteSet(s) /\ Cardinality(s) \in Nat
        BY <1>1
      <4> HIDE DEF Pick
      <4>2. Cardinality(r) = Cardinality(s) - 1
        BY <3>1, <4>1, FS_RemoveElement
      <4> QED BY <4>1, <4>2
    <3>3. part[r] = sum[r]
      BY <3>2
    <3>4. s \in SUBSET S
      OBVIOUS
    <3> QED BY <2>2, <3>3, <3>4 DEF IsSum, SumStep
  <2> QED BY <2>1, <2>2
<1>5. P = Nat
  <2> HIDE DEF P
  <2>1. P \in SUBSET Nat
    BY DEF P
  <2> QED BY <1>3, <1>4, <2>1, SetInduction
<1> SUFFICES ASSUME NEW s \in SUBSET T PROVE part[s] = sum[s]
  OBVIOUS
<1>6. Cardinality(s) \in P /\ Cardinality(s) \in Nat
  BY <1>1, <1>5
<1> QED BY <1>6

\* The library's sum is the value of any such function at the whole set.
LEMMA SumIs ==
    ASSUME NEW S, IsFiniteSet(S), NEW T \in SUBSET S, NEW f,
           \A x \in S : f[x] \in Int, NEW sum, IsSum(f, S, sum)
    PROVE  SumFunctionOnSet(f, T) = sum[T]
<1> DEFINE Unfolds(g) == g = [s \in SUBSET T |-> IF s = {} THEN 0
                                ELSE f[CHOOSE x \in s : TRUE]
                                       + g[s \ {CHOOSE x \in s : TRUE}]]
           iter == CHOOSE g : Unfolds(g)
<1>1. PICK part \in [SUBSET T -> Int] : IsSum(f, T, part)
  <2>1. IsFiniteSet(T) /\ \A x \in T : f[x] \in Int
    BY FS_Subset
  <2> QED BY <2>1, SumExists
<1>2. Unfolds(part)
  BY <1>1 DEF IsSum, SumStep, Pick
<1>3. Unfolds(iter)
  <2> HIDE DEF Unfolds
  <2> QED BY <1>2
<1>4. SumFunctionOnSet(f, T) = iter[T]
  BY DEF SumFunctionOnSet, FoldFunctionOnSet, MapThenFoldSet
<1>5. IsSum(f, T, iter)
  <2> HIDE DEF iter
  <2> QED BY <1>3 DEF IsSum, SumStep, Pick
<1>6. iter[T] = sum[T]
  <2> HIDE DEF iter
  <2> QED BY <1>5, SumUnique
<1> QED BY <1>4, <1>6

\* Sums over the subsets of S obey the fold's unfolding at every element, not
\* only at the one the fold picks: a sum does not depend on the order.
LEMMA SumRemove ==
    ASSUME NEW S, IsFiniteSet(S), NEW f, \A x \in S : f[x] \in Int,
           NEW T \in SUBSET S, NEW x \in T
    PROVE  /\ SumFunctionOnSet(f, T) \in Int
           /\ SumFunctionOnSet(f, T \ {x}) \in Int
           /\ SumFunctionOnSet(f, T) = f[x] + SumFunctionOnSet(f, T \ {x})
<1>1. PICK sum \in [SUBSET S -> Int] : IsSum(f, S, sum)
  BY SumExists
<1> DEFINE P == {n \in Nat : \A s \in SUBSET S : \A y \in s :
                    Cardinality(s) <= n => sum[s] = f[y] + sum[s \ {y}]}
<1>2. \A s \in SUBSET S : IsFiniteSet(s) /\ Cardinality(s) \in Nat
  BY FS_Subset, FS_CardinalityType
<1>3. 0 \in P
  BY <1>2, FS_EmptySet
<1>4. ASSUME NEW n \in P PROVE n + 1 \in P
  <2> SUFFICES ASSUME NEW s \in SUBSET S, NEW y \in s, Cardinality(s) <= n + 1
               PROVE  sum[s] = f[y] + sum[s \ {y}]
    OBVIOUS
  <2> DEFINE c == Pick(s)
  <2>1. c \in s
    BY DEF Pick
  <2> HIDE DEF c
  <2>2. sum[s] = f[c] + sum[s \ {c}]
    <3>1. s # {}
      OBVIOUS
    <3> QED BY <1>1, <3>1 DEF IsSum, SumStep, c
  <2>3. CASE c = y
    BY <2>2, <2>3
  <2>4. CASE c # y
    <3>1. \A z \in s : Cardinality(s \ {z}) <= n /\ s \ {z} \in SUBSET S
      <4>1. IsFiniteSet(s) /\ Cardinality(s) \in Nat
        BY <1>2
      <4>2. \A z \in s : Cardinality(s \ {z}) = Cardinality(s) - 1
        BY <4>1, FS_RemoveElement
      <4> QED BY <4>1, <4>2
    <3>2. sum[s \ {c}] = f[y] + sum[(s \ {c}) \ {y}]
      BY <2>1, <2>4, <3>1
    <3>3. sum[s \ {y}] = f[c] + sum[(s \ {c}) \ {y}]
      <4>1. (s \ {c}) \ {y} = (s \ {y}) \ {c}
        OBVIOUS
      <4>2. sum[s \ {y}] = f[c] + sum[(s \ {y}) \ {c}]
        BY <2>1, <2>4, <3>1
      <4> QED BY <4>1, <4>2
    <3>4. f[y] \in Int /\ f[c] \in Int /\ sum[(s \ {c}) \ {y}] \in Int
      BY <2>1
    <3>5. sum[s] = f[c] + (f[y] + sum[(s \ {c}) \ {y}])
      BY <2>2, <3>2
    <3> QED BY <3>3, <3>4, <3>5
  <2> QED BY <2>3, <2>4
<1>5. P = Nat
  <2> HIDE DEF P
  <2>1. P \in SUBSET Nat
    BY DEF P
  <2> QED BY <1>3, <1>4, <2>1, SetInduction
<1>6. sum[T] = f[x] + sum[T \ {x}]
  <2>1. Cardinality(T) \in P /\ Cardinality(T) \in Nat
    BY <1>2, <1>5
  <2> QED BY <2>1
<1>7. SumFunctionOnSet(f, T) = sum[T] /\ SumFunctionOnSet(f, T \ {x}) = sum[T \ {x}]
  BY <1>1, SumIs
<1> QED BY <1>6, <1>7

\* Functions that agree on T have the same sum over T.
LEMMA SumSame ==
    ASSUME NEW T, IsFiniteSet(T), NEW f, NEW g,
           \A x \in T : f[x] \in Int /\ g[x] = f[x]
    PROVE  SumFunctionOnSet(g, T) = SumFunctionOnSet(f, T)
<1>1. PICK sum \in [SUBSET T -> Int] : IsSum(f, T, sum)
  BY SumExists
<1>2. IsSum(g, T, sum)
  <2> SUFFICES ASSUME NEW s \in SUBSET T PROVE sum[s] = SumStep(g, sum, s)
    BY DEF IsSum
  <2>1. s # {} => Pick(s) \in s
    BY DEF Pick
  <2> QED BY <1>1, <2>1 DEF IsSum, SumStep
<1>3. SumFunctionOnSet(f, T) = sum[T]
  BY <1>1, SumIs
<1>4. SumFunctionOnSet(g, T) = sum[T]
  BY <1>2, SumIs
<1> QED BY <1>3, <1>4

\* The lemma the ledger proofs use: when g is f with one entry moved, the total
\* moves by as much.
THEOREM SumUpdate ==
    ASSUME NEW S, IsFiniteSet(S), NEW f, NEW g, NEW x \in S,
           \A y \in S : f[y] \in Int /\ g[y] \in Int,
           \A y \in S \ {x} : g[y] = f[y]
    PROVE  /\ SumFunctionOnSet(f, S) \in Int
           /\ SumFunctionOnSet(g, S) = SumFunctionOnSet(f, S) + g[x] - f[x]
<1>1. IsFiniteSet(S \ {x})
  BY FS_Subset
<1>2. SumFunctionOnSet(g, S \ {x}) = SumFunctionOnSet(f, S \ {x})
  BY <1>1, SumSame
<1>3. /\ SumFunctionOnSet(f, S) \in Int
      /\ SumFunctionOnSet(f, S \ {x}) \in Int
      /\ SumFunctionOnSet(f, S) = f[x] + SumFunctionOnSet(f, S \ {x})
  BY SumRemove
<1>4. SumFunctionOnSet(g, S) = g[x] + SumFunctionOnSet(g, S \ {x})
  BY SumRemove
<1> QED BY <1>2, <1>3, <1>4

\* A total of naturals is a natural, and no entry exceeds it.
THEOREM SumBounds ==
    ASSUME NEW S, IsFiniteSet(S), NEW f, \A y \in S : f[y] \in Nat
    PROVE  /\ SumFunctionOnSet(f, S) \in Nat
           /\ \A x \in S : f[x] <= SumFunctionOnSet(f, S)
<1>0. \A y \in S : f[y] \in Int
  OBVIOUS
<1>1. PICK sum \in [SUBSET S -> Int] : IsSum(f, S, sum)
  BY <1>0, SumExists
<1>2. \A s \in SUBSET S : SumFunctionOnSet(f, s) = sum[s]
  BY <1>0, <1>1, SumIs
<1> DEFINE P == {n \in Nat : \A s \in SUBSET S : Cardinality(s) <= n => sum[s] >= 0}
<1>3. \A s \in SUBSET S : IsFiniteSet(s) /\ Cardinality(s) \in Nat
  BY FS_Subset, FS_CardinalityType
<1>4. sum[{}] = 0
  BY <1>1 DEF IsSum, SumStep
<1>5. 0 \in P
  <2> SUFFICES ASSUME NEW s \in SUBSET S, Cardinality(s) <= 0 PROVE sum[s] >= 0
    OBVIOUS
  <2>1. s = {}
    BY <1>3, FS_EmptySet
  <2> QED BY <1>4, <2>1
<1>6. ASSUME NEW n \in P PROVE n + 1 \in P
  <2> SUFFICES ASSUME NEW s \in SUBSET S, Cardinality(s) <= n + 1 PROVE sum[s] >= 0
    OBVIOUS
  <2>1. CASE s = {}
    BY <1>4, <2>1
  <2>2. CASE s # {}
    <3>1. PICK y \in s : TRUE
      BY <2>2
    <3>2. sum[s] = f[y] + sum[s \ {y}]
      <4>1. SumFunctionOnSet(f, s) = f[y] + SumFunctionOnSet(f, s \ {y})
        BY <1>0, SumRemove
      <4> QED BY <1>2, <4>1
    <3>3. Cardinality(s \ {y}) <= n
      <4>1. Cardinality(s \ {y}) = Cardinality(s) - 1
        BY <1>3, FS_RemoveElement
      <4> QED BY <1>3, <4>1
    <3>4. sum[s \ {y}] >= 0 /\ sum[s \ {y}] \in Int
      BY <3>3
    <3> QED BY <3>2, <3>4
  <2> QED BY <2>1, <2>2
<1>7. P = Nat
  <2> HIDE DEF P
  <2>1. P \in SUBSET Nat
    BY DEF P
  <2> QED BY <1>5, <1>6, <2>1, SetInduction
<1>8. \A s \in SUBSET S : sum[s] >= 0
  BY <1>3, <1>7
<1>9. ASSUME NEW x \in S PROVE f[x] <= SumFunctionOnSet(f, S)
  <2>1. SumFunctionOnSet(f, S) = f[x] + SumFunctionOnSet(f, S \ {x})
    BY <1>0, SumRemove
  <2>2. sum[S] = f[x] + sum[S \ {x}]
    BY <1>2, <2>1
  <2>3. sum[S \ {x}] >= 0 /\ sum[S \ {x}] \in Int
    BY <1>8
  <2> QED BY <1>2, <2>2, <2>3
<1> QED BY <1>2, <1>8, <1>9

\* Zeros sum up to 0.
LEMMA ZeroSum ==
    ASSUME NEW S, IsFiniteSet(S), NEW f, \A x \in S : f[x] = 0
    PROVE  SumFunctionOnSet(f, S) = 0
<1> DEFINE sum == [s \in SUBSET S |-> 0]
<1>1. ASSUME NEW s \in SUBSET S PROVE sum[s] = SumStep(f, sum, s)
  <2>1. s # {} => Pick(s) \in s /\ s \ {Pick(s)} \in SUBSET S
    BY DEF Pick
  <2> QED BY <2>1 DEF SumStep
<1>2. IsSum(f, S, sum)
  BY <1>1 DEF IsSum
<1>3. \A x \in S : f[x] \in Int
  OBVIOUS
<1>4. S \in SUBSET S /\ sum[S] = 0
  OBVIOUS
<1> HIDE DEF sum
<1> QED BY <1>2, <1>3, <1>4, SumIs

\* A sum over the first places of a list takes in one more: the entries before it count
\* as they did.
LEMMA SumLast ==
    ASSUME NEW n \in Nat, NEW f, NEW g,
           \A k \in 1 .. n + 1 : g[k] \in Int, \A k \in 1 .. n : f[k] = g[k]
    PROVE  /\ SumFunctionOnSet(f, 1 .. n) \in Int
           /\ SumFunctionOnSet(g, 1 .. n + 1) = SumFunctionOnSet(f, 1 .. n) + g[n + 1]
<1> DEFINE S == 1 .. n + 1
           T == 1 .. n
<1>1. /\ IsFiniteSet(S) /\ IsFiniteSet(T) /\ S \in SUBSET S /\ n + 1 \in S
      /\ S \ {n + 1} = T
  <2>1. n \in Int /\ n + 1 \in Int /\ 1 \in Int
    OBVIOUS
  <2>2. IsFiniteSet(S) /\ IsFiniteSet(T)
    BY <2>1, FS_Interval
  <2> QED BY <2>2
<1>2. /\ \A k \in S : g[k] \in Int
      /\ \A k \in T : g[k] \in Int /\ f[k] = g[k]
  OBVIOUS
<1> HIDE DEF S, T
<1>3. SumFunctionOnSet(f, T) = SumFunctionOnSet(g, T)
  BY <1>1, <1>2, SumSame
<1>4. /\ SumFunctionOnSet(g, S \ {n + 1}) \in Int
      /\ SumFunctionOnSet(g, S) = g[n + 1] + SumFunctionOnSet(g, S \ {n + 1})
  BY <1>1, <1>2, SumRemove
<1>5. g[n + 1] \in Int
  BY <1>1, <1>2
<1>6. /\ SumFunctionOnSet(f, T) \in Int
      /\ SumFunctionOnSet(g, S) = SumFunctionOnSet(f, T) + g[n + 1]
  BY <1>1, <1>3, <1>4, <1>5
<1> QED BY <1>6 DEF S, T
=============================================================================
