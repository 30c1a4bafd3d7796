----------------------------- MODULE SumProofs -----------------------------
(***************************************************************************)
(* Lemmas about SumFunction, the sums with which the properties of Worker  *)
(* and DpdkCapture count packets.  The sum is a fold, a function defined   *)
(* by recursion on subsets; induction is replaced by the choice of a       *)
(* smallest counterexample.                                                *)
(***************************************************************************)
EXTENDS Integers, FiniteSets, Functions, FiniteSetTheorems, WellFoundedInduction, TLAPS

\* A non-empty set of natural numbers has a smallest one.
LEMMA NatMinimum ==
    ASSUME NEW P, P \subseteq Nat, P # {}
    PROVE  \E m \in P : \A i \in P : m <= i
<1>1. PICK m \in P : \A i \in P : ~(<<i, m>> \in OpToRel(<, Nat))
  BY NatLessThanWellFounded, WFMin
<1>2. ASSUME NEW i \in P PROVE m <= i
  <2>1. ~(<<i, m>> \in {ss \in Nat \X Nat : ss[1] < ss[2]})
    BY <1>1, Zenon DEF OpToRel
  <2> QED
    BY <2>1
<1> QED
  BY <1>2

\* A non-empty set of subsets of a finite set has a smallest one, from which no
\* element can be removed.
LEMMA SmallestSubset ==
    ASSUME NEW T, IsFiniteSet(T), NEW P, P \subseteq SUBSET T, P # {}
    PROVE  \E s \in P : \A u \in SUBSET s : u # s => u \notin P
<1> DEFINE N == {Cardinality(u) : u \in P}
<1>1. \A u \in P : IsFiniteSet(u) /\ Cardinality(u) \in Nat
  BY FS_Subset, FS_CardinalityType
<1>2. PICK m \in N : \A i \in N : m <= i
  <2>1. N \subseteq Nat /\ N # {}
    BY <1>1
  <2> HIDE DEF N
  <2> QED
    BY <2>1, NatMinimum
<1>3. PICK s \in P : m = Cardinality(s)
  OBVIOUS
<1>4. ASSUME NEW u \in SUBSET s, u # s, u \in P PROVE FALSE
  <2>1. Cardinality(u) <= Cardinality(s) /\ (Cardinality(s) = Cardinality(u) => s = u)
    BY <1>1, FS_Subset
  <2>2. m <= Cardinality(u) /\ m \in Nat /\ Cardinality(u) \in Nat
    BY <1>1, <1>2, <1>4
  <2> QED
    BY <1>3, <1>4, <2>1, <2>2
<1> QED
  BY <1>4
-----------------------------------------------------------------------------
\* The element the fold takes from a set, and one unfolding of its recursion.
Pick(s) == CHOOSE x \in s : TRUE
Unfold(f, g, s) == IF s = {} THEN 0 ELSE f[Pick(s)] + g[s \ {Pick(s)}]
Partial(f, T) == CHOOSE g : g = [s \in SUBSET T |-> Unfold(f, g, s)]

\* The sum over a set is the value of the recursive function at the whole set.
LEMMA SumIsPartial ==
    ASSUME NEW f, NEW T
    PROVE  SumFunctionOnSet(f, T) = Partial(f, T)[T]
  BY DEF SumFunctionOnSet, FoldFunctionOnSet, MapThenFoldSet, Partial, Unfold, Pick

\* The recursion defines a function, and its values are the sums.
Defined(f, T) ==
    /\ Partial(f, T) = [s \in SUBSET T |-> Unfold(f, Partial(f, T), s)]
    /\ \A s \in SUBSET T : Partial(f, T)[s] = SumFunctionOnSet(f, s)

\* One step of the recursion, in terms of the sums.
LEMMA DefinedStep ==
    ASSUME NEW f, NEW s, Defined(f, s)
    PROVE  SumFunctionOnSet(f, s) =
              IF s = {} THEN 0 ELSE f[Pick(s)] + SumFunctionOnSet(f, s \ {Pick(s)})
<1>1. SumFunctionOnSet(f, s) = Partial(f, s)[s]
  BY SumIsPartial
<1>2. Partial(f, s)[s] = Unfold(f, Partial(f, s), s)
  BY DEF Defined
<1>3. Partial(f, s)[s \ {Pick(s)}] = SumFunctionOnSet(f, s \ {Pick(s)})
  BY DEF Defined
<1> QED
  BY <1>1, <1>2, <1>3 DEF Unfold

\* If the recursion is sound below T, it is at T.
LEMMA DefinedAt ==
    ASSUME NEW f, NEW T, IsFiniteSet(T), \A s \in SUBSET T : s # T => Defined(f, s)
    PROVE  Defined(f, T)
<1> DEFINE Value(s) == IF s = {} THEN 0 ELSE f[Pick(s)] + SumFunctionOnSet(f, s \ {Pick(s)})
           g == [s \in SUBSET T |-> Value(s)]
<1>1. \A s \in SUBSET T : s # {} => Pick(s) \in s /\ s \ {Pick(s)} \in SUBSET T /\ s \ {Pick(s)} # T
  BY DEF Pick
<1>2. \A s \in SUBSET T : s # T => g[s] = SumFunctionOnSet(f, s)
  <2> SUFFICES ASSUME NEW s \in SUBSET T, s # T PROVE g[s] = SumFunctionOnSet(f, s)
    OBVIOUS
  <2>1. SumFunctionOnSet(f, s) = Value(s)
    BY DefinedStep
  <2> QED
    BY <2>1
<1>3. \A s \in SUBSET T : g[s] = Unfold(f, g, s)
  <2> SUFFICES ASSUME NEW s \in SUBSET T PROVE g[s] = Unfold(f, g, s)
    OBVIOUS
  <2>1. CASE s = {}
    BY <2>1 DEF Unfold
  <2>2. CASE s # {}
    <3>1. g[s \ {Pick(s)}] = SumFunctionOnSet(f, s \ {Pick(s)})
      BY <1>1, <1>2, <2>2
    <3>2. g[s] = f[Pick(s)] + SumFunctionOnSet(f, s \ {Pick(s)})
      BY <2>2
    <3> HIDE DEF g
    <3> QED
      BY <2>2, <3>1, <3>2 DEF Unfold
  <2> QED
    BY <2>1, <2>2
<1>4. g = [s \in SUBSET T |-> Unfold(f, g, s)]
  <2>1. g = [s \in SUBSET T |-> g[s]]
    OBVIOUS
  <2> HIDE DEF g
  <2> QED
    BY <1>3, <2>1
<1>5. Partial(f, T) = [s \in SUBSET T |-> Unfold(f, Partial(f, T), s)]
  <2> HIDE DEF g
  <2> QED
    BY <1>4 DEF Partial
<1>6. ASSUME NEW s \in SUBSET T, Partial(f, T)[s] # SumFunctionOnSet(f, s) PROVE FALSE
  <2> DEFINE P == {u \in SUBSET T : Partial(f, T)[u] # SumFunctionOnSet(f, u)}
  <2>1. PICK u \in P : \A v \in SUBSET u : v # u => v \notin P
    <3>1. P \subseteq SUBSET T /\ P # {}
      BY <1>6
    <3> HIDE DEF P
    <3> QED
      BY <3>1, SmallestSubset
  <2>2. u \in SUBSET T /\ Partial(f, T)[u] # SumFunctionOnSet(f, u)
    OBVIOUS
  <2>3. u # T
    BY <2>2, SumIsPartial
  <2>4. Partial(f, T)[u] = Unfold(f, Partial(f, T), u)
    BY <1>5, <2>2
  <2>5. SumFunctionOnSet(f, u) = Value(u)
    BY <2>2, <2>3, DefinedStep
  <2>6. CASE u = {}
    BY <2>2, <2>4, <2>5, <2>6 DEF Unfold
  <2>7. CASE u # {}
    <3>1. Pick(u) \in u
      BY <2>7 DEF Pick
    <3>2. u \ {Pick(u)} \in SUBSET u /\ u \ {Pick(u)} # u /\ u \ {Pick(u)} \in SUBSET T
      BY <2>2, <3>1
    <3>3. Partial(f, T)[u \ {Pick(u)}] = SumFunctionOnSet(f, u \ {Pick(u)})
      BY <2>1, <3>2
    <3> QED
      BY <2>2, <2>4, <2>5, <2>7, <3>3 DEF Unfold
  <2> QED
    BY <2>6, <2>7
<1> QED
  BY <1>5, <1>6 DEF Defined

\* The recursion is sound for every finite set.
LEMMA SumDefined ==
    ASSUME NEW f, NEW T, IsFiniteSet(T)
    PROVE  Defined(f, T)
<1> SUFFICES ASSUME ~Defined(f, T) PROVE FALSE
  OBVIOUS
<1> DEFINE P == {u \in SUBSET T : ~Defined(f, u)}
<1>1. PICK u \in P : \A v \in SUBSET u : v # u => v \notin P
  <2>1. P \subseteq SUBSET T /\ P # {}
    OBVIOUS
  <2> HIDE DEF P
  <2> QED
    BY <2>1, SmallestSubset
<1>2. u \in SUBSET T /\ ~Defined(f, u) /\ IsFiniteSet(u)
  BY FS_Subset
<1>3. \A v \in SUBSET u : v # u => Defined(f, v)
  BY <1>1, <1>2
<1> QED
  BY <1>2, <1>3, DefinedAt
-----------------------------------------------------------------------------
\* Sums of numbers are numbers, and any element can be taken out first.
TakesOut(f, s) ==
    /\ SumFunctionOnSet(f, s) \in Int
    /\ \A y \in s : SumFunctionOnSet(f, s) = f[y] + SumFunctionOnSet(f, s \ {y})

\* If it holds of the subsets of s, it holds of s.
LEMMA TakesOutAt ==
    ASSUME NEW f, NEW s, IsFiniteSet(s), \A x \in s : f[x] \in Int,
           \A u \in SUBSET s : u # s => TakesOut(f, u)
    PROVE  TakesOut(f, s)
<1>1. CASE s = {}
  <2>1. SumFunctionOnSet(f, s) = 0
    BY <1>1, SumDefined, DefinedStep
  <2> QED
    BY <1>1, <2>1 DEF TakesOut
<1>2. CASE s # {}
  <2> DEFINE x == Pick(s)
  <2>1. x \in s
    BY <1>2 DEF Pick
  <2>2. SumFunctionOnSet(f, s) = f[x] + SumFunctionOnSet(f, s \ {x})
    BY <1>2, SumDefined, DefinedStep
  <2> HIDE DEF x
  <2>3. \A y \in s : SumFunctionOnSet(f, s \ {y}) \in Int
    BY DEF TakesOut
  <2>4. ASSUME NEW y \in s, y # x
        PROVE  SumFunctionOnSet(f, s) = f[y] + SumFunctionOnSet(f, s \ {y})
    <3>1. y \in s \ {x} /\ x \in s \ {y} /\ (s \ {x}) \ {y} = (s \ {y}) \ {x}
      BY <2>1, <2>4
    <3>2. SumFunctionOnSet(f, s \ {x}) = f[y] + SumFunctionOnSet(f, (s \ {x}) \ {y})
      BY <2>1, <3>1 DEF TakesOut
    <3>3. SumFunctionOnSet(f, s \ {y}) = f[x] + SumFunctionOnSet(f, (s \ {y}) \ {x})
      BY <3>1 DEF TakesOut
    <3>4. SumFunctionOnSet(f, (s \ {y}) \ {x}) \in Int
      BY <2>4 DEF TakesOut
    <3>5. f[x] \in Int /\ f[y] \in Int
      BY <2>1
    <3>6. \A a, b, c \in Int : a + (b + c) = b + (a + c)
      OBVIOUS
    <3>7. SumFunctionOnSet(f, s) = f[x] + (f[y] + SumFunctionOnSet(f, (s \ {y}) \ {x}))
      BY <2>2, <3>1, <3>2
    <3> QED
      BY <3>3, <3>4, <3>5, <3>6, <3>7
  <2>5. SumFunctionOnSet(f, s) \in Int
    BY <2>1, <2>2, <2>3
  <2> QED
    BY <2>2, <2>4, <2>5 DEF TakesOut
<1> QED
  BY <1>1, <1>2

\* The same for every finite set.
LEMMA SumTakesOut ==
    ASSUME NEW f, NEW T, IsFiniteSet(T), \A x \in T : f[x] \in Int
    PROVE  TakesOut(f, T)
<1> SUFFICES ASSUME ~TakesOut(f, T) PROVE FALSE
  OBVIOUS
<1> DEFINE P == {u \in SUBSET T : ~TakesOut(f, u)}
<1>1. PICK u \in P : \A v \in SUBSET u : v # u => v \notin P
  <2>1. P \subseteq SUBSET T /\ P # {}
    OBVIOUS
  <2> HIDE DEF P
  <2> QED
    BY <2>1, SmallestSubset
<1>2. u \in SUBSET T /\ ~TakesOut(f, u) /\ IsFiniteSet(u)
  BY FS_Subset
<1>3. \A v \in SUBSET u : v # u => TakesOut(f, v)
  BY <1>1, <1>2
<1> QED
  BY <1>2, <1>3, TakesOutAt

\* The sum over no element.
LEMMA SumEmpty == ASSUME NEW f PROVE SumFunctionOnSet(f, {}) = 0
  BY FS_EmptySet, SumDefined, DefinedStep

\* The sum depends on the values only.
LEMMA SumSameValues ==
    ASSUME NEW T, IsFiniteSet(T), NEW f, NEW g, \A x \in T : f[x] \in Int /\ f[x] = g[x]
    PROVE  SumFunctionOnSet(f, T) = SumFunctionOnSet(g, T)
<1> SUFFICES ASSUME SumFunctionOnSet(f, T) # SumFunctionOnSet(g, T) PROVE FALSE
  OBVIOUS
<1> DEFINE P == {u \in SUBSET T : SumFunctionOnSet(f, u) # SumFunctionOnSet(g, u)}
<1>1. PICK u \in P : \A v \in SUBSET u : v # u => v \notin P
  <2>1. P \subseteq SUBSET T /\ P # {}
    OBVIOUS
  <2> HIDE DEF P
  <2> QED
    BY <2>1, SmallestSubset
<1>2. u \in SUBSET T /\ SumFunctionOnSet(f, u) # SumFunctionOnSet(g, u) /\ IsFiniteSet(u)
  BY FS_Subset
<1>3. u # {}
  BY <1>2, SumEmpty
<1>4. PICK x \in u : TRUE
  BY <1>3
<1>5. SumFunctionOnSet(f, u \ {x}) = SumFunctionOnSet(g, u \ {x})
  BY <1>1, <1>2
<1>6. TakesOut(f, u) /\ TakesOut(g, u)
  BY <1>2, SumTakesOut
<1> QED
  BY <1>2, <1>5, <1>6 DEF TakesOut

\* When one value changes, the sum changes by as much.
LEMMA SumChangesBy ==
    ASSUME NEW T, IsFiniteSet(T), NEW f \in [T -> Int], NEW g \in [T -> Int],
           NEW x \in T, \A y \in T : y # x => g[y] = f[y]
    PROVE  /\ SumFunction(g) = SumFunction(f) + (g[x] - f[x])
           /\ SumFunction(f) \in Int /\ SumFunction(g) \in Int
<1>1. SumFunction(f) = SumFunctionOnSet(f, T) /\ SumFunction(g) = SumFunctionOnSet(g, T)
  BY DEF SumFunction
<1>2. TakesOut(f, T) /\ TakesOut(g, T)
  BY SumTakesOut
<1>3. IsFiniteSet(T \ {x})
  BY FS_Subset
<1>4. SumFunctionOnSet(f, T \ {x}) = SumFunctionOnSet(g, T \ {x})
  BY <1>3, SumSameValues
<1>5. SumFunctionOnSet(f, T \ {x}) \in Int
  BY <1>3, SumTakesOut DEF TakesOut
<1>6. f[x] \in Int /\ g[x] \in Int
  OBVIOUS
<1> QED
  BY <1>1, <1>2, <1>4, <1>5, <1>6 DEF TakesOut

\* The sum of zeros is zero.
LEMMA SumOfZeros ==
    ASSUME NEW T, IsFiniteSet(T), NEW f \in [T -> {0}]
    PROVE  SumFunction(f) = 0
<1> DEFINE P == {u \in SUBSET T : SumFunctionOnSet(f, u) # 0}
<1>1. ASSUME P # {} PROVE FALSE
  <2>1. PICK u \in P : \A v \in SUBSET u : v # u => v \notin P
    <3>1. P \subseteq SUBSET T
      OBVIOUS
    <3> HIDE DEF P
    <3> QED
      BY <1>1, <3>1, SmallestSubset
  <2>2. u \in SUBSET T /\ SumFunctionOnSet(f, u) # 0 /\ IsFiniteSet(u)
    BY FS_Subset
  <2>3. PICK x \in u : TRUE
    BY <2>2, SumEmpty
  <2>4. SumFunctionOnSet(f, u \ {x}) = 0
    BY <2>1, <2>2
  <2>5. TakesOut(f, u)
    BY <2>2, SumTakesOut
  <2> QED
    BY <2>2, <2>4, <2>5 DEF TakesOut
<1> QED
  BY <1>1 DEF SumFunction
=============================================================================
