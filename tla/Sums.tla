-------------------------------- MODULE Sums --------------------------------
(***************************************************************************)
(* What SumFunctionOnSet of the community modules computes on a finite     *)
(* set.  It is a recursive function on the subsets of the set; the         *)
(* induction its facts need is stated about sets of subsets (a smallest    *)
(* counterexample), which takes no operator as a parameter.                *)
(***************************************************************************)
EXTENDS Integers, Functions, FiniteSetTheorems, WellFoundedInduction, TLAPS

\* What holds of a subset of S whenever it holds of the smaller ones holds of
\* every subset of S.
LEMMA SubsetInduction ==
  ASSUME NEW S, IsFiniteSet(S), NEW Good,
         \A T \in SUBSET S : (\A U \in SUBSET T : U # T => U \in Good) => T \in Good
  PROVE  \A T \in SUBSET S : T \in Good
<1> DEFINE Bad == {T \in SUBSET S : T \notin Good}
<1> SUFFICES ASSUME Bad # {}
             PROVE  FALSE
  OBVIOUS
<1>1. IsWellFoundedOn(StrictSubsetOrdering(S), SUBSET S)
  <2>1. FiniteSubsetsOf(S) = SUBSET S
    BY FS_FiniteSubsetsOfFinite
  <2>2. IsWellFoundedOn(StrictSubsetOrdering(S), FiniteSubsetsOf(S))
    BY FS_StrictSubsetOrderingWellFounded
  <2> QED
    BY <2>1, <2>2, Zenon
<1>2. Bad \subseteq SUBSET S
  OBVIOUS
<1> HIDE DEF Bad
<1>3. PICK T \in Bad : \A U \in Bad : <<U, T>> \notin StrictSubsetOrdering(S)
  BY <1>1, <1>2, WFMin
<1> USE DEF Bad
<1>4. ASSUME NEW U \in SUBSET T, U # T
      PROVE  U \in Good
  <2>1. U \in SUBSET S /\ T \in SUBSET S
    BY <1>4
  <2>2. <<U, T>> \in StrictSubsetOrdering(S)
    BY <1>4, <2>1 DEF StrictSubsetOrdering
  <2> QED
    BY <1>3, <2>1, <2>2
<1> QED
  BY <1>3, <1>4

-----------------------------------------------------------------------------
(* The recursive function. *)

Any(s) == CHOOSE x \in s : TRUE

\* g is the function SumFunctionOnSet(f, S) stands for.
Summing(f, S, g) ==
    g = [s \in SUBSET S |-> IF s = {} THEN 0 ELSE f[Any(s)] + g[s \ {Any(s)}]]

\* SumFunctionOnSet is that function's value.
LEMMA SumIsValue ==
  ASSUME NEW f, NEW S
  PROVE  SumFunctionOnSet(f, S) = (CHOOSE g : Summing(f, S, g))[S]
BY DEF SumFunctionOnSet, FoldFunctionOnSet, MapThenFoldSet, Summing, Any

\* A chosen element is one.
LEMMA AnyIn == \A s : s # {} => Any(s) \in s
  BY DEF Any

\* There is at most one.
LEMMA SummingUnique ==
  ASSUME NEW f, NEW S, IsFiniteSet(S), NEW g, Summing(f, S, g), NEW h, Summing(f, S, h)
  PROVE  g = h
<1> DEFINE Good == {T \in SUBSET S : g[T] = h[T]}
<1>1. ASSUME NEW T \in SUBSET S, \A U \in SUBSET T : U # T => U \in Good
      PROVE  T \in Good
  <2>1. CASE T = {}
    BY <2>1 DEF Summing
  <2>2. CASE T # {}
    <3>1. Any(T) \in T
      BY <2>2, AnyIn
    <3>2. T \ {Any(T)} \in SUBSET T /\ T \ {Any(T)} # T
      BY <3>1
    <3>3. g[T \ {Any(T)}] = h[T \ {Any(T)}]
      BY <1>1, <3>2
    <3> QED
      BY <2>2, <3>3 DEF Summing
  <2> QED
    BY <2>1, <2>2
<1> HIDE DEF Good
<1>2. \A T \in SUBSET S : T \in Good
  BY <1>1, SubsetInduction
<1>3. \A T \in SUBSET S : g[T] = h[T]
  BY <1>2 DEF Good
<1> QED
  BY <1>3 DEF Summing

\* On a smaller set it is the same function.
LEMMA SummingRestricted ==
  ASSUME NEW f, NEW S, NEW g, Summing(f, S, g), NEW T \in SUBSET S
  PROVE  Summing(f, T, [s \in SUBSET T |-> g[s]])
<1> DEFINE h == [s \in SUBSET T |-> g[s]]
<1>1. ASSUME NEW s \in SUBSET T
      PROVE  h[s] = IF s = {} THEN 0 ELSE f[Any(s)] + h[s \ {Any(s)}]
  <2>1. s \in SUBSET S /\ s \ {Any(s)} \in SUBSET T
    OBVIOUS
  <2> QED
    BY <2>1 DEF Summing
<1> QED
  BY <1>1 DEF Summing

\* There is one.
LEMMA SummingExists ==
  ASSUME NEW f, NEW S, IsFiniteSet(S)
  PROVE  \E g : Summing(f, S, g)
<1> DEFINE Good == {T \in SUBSET S : \E g : Summing(f, T, g)}
           V(T) == (CHOOSE g : Summing(f, T, g))[T]
           W(s) == IF s = {} THEN 0 ELSE f[Any(s)] + V(s \ {Any(s)})
<1>1. ASSUME NEW T \in SUBSET S, \A U \in SUBSET T : U # T => U \in Good
      PROVE  T \in Good
  <2> DEFINE h == [s \in SUBSET T |-> W(s)]
  <2>1. ASSUME NEW t \in SUBSET T, t # T
        PROVE  V(t) = W(t)
    <3> DEFINE g == CHOOSE g : Summing(f, t, g)
    <3>1. Summing(f, t, g)
      BY <1>1, <2>1
    <3>2. CASE t = {}
      BY <3>1, <3>2 DEF Summing
    <3>3. CASE t # {}
      <4> DEFINE u == t \ {Any(t)}
                 k == CHOOSE k : Summing(f, u, k)
      <4>1. u \in SUBSET t /\ u \in SUBSET T /\ u # T
        BY <2>1, <3>3, AnyIn
      <4>2. Summing(f, u, k)
        BY <1>1, <4>1
      <4>3. Summing(f, u, [s \in SUBSET u |-> g[s]])
        <5> HIDE DEF g, u
        <5> QED
          BY <3>1, <4>1, SummingRestricted
      <4>4. IsFiniteSet(u)
        BY <4>1, FS_Subset
      <4>5. k = [s \in SUBSET u |-> g[s]]
        <5> HIDE DEF g, u, k
        <5> QED
          BY <4>2, <4>3, <4>4, SummingUnique
      <4>6. g[u] = V(u)
        <5> HIDE DEF g
        <5> QED
          BY <4>5
      <4>7. g[t] = f[Any(t)] + g[u]
        <5> HIDE DEF g
        <5> QED
          BY <3>1, <3>3 DEF Summing
      <4> QED
        BY <3>3, <4>6, <4>7
    <3> QED
      BY <3>2, <3>3
  <2>2. ASSUME NEW s \in SUBSET T
        PROVE  h[s] = IF s = {} THEN 0 ELSE f[Any(s)] + h[s \ {Any(s)}]
    <3>1. CASE s = {}
      BY <3>1
    <3>2. CASE s # {}
      <4>1. s \ {Any(s)} \in SUBSET T /\ s \ {Any(s)} # T
        BY <3>2, AnyIn
      <4>2. V(s \ {Any(s)}) = W(s \ {Any(s)})
        <5> HIDE DEF V, W
        <5> QED
          BY <2>1, <4>1
      <4>3. h[s \ {Any(s)}] = W(s \ {Any(s)}) /\ h[s] = W(s)
        <5> HIDE DEF W
        <5> QED
          BY <4>1
      <4> QED
        BY <3>2, <4>2, <4>3
    <3> QED
      BY <3>1, <3>2
  <2>3. Summing(f, T, h)
    <3> HIDE DEF W
    <3>1. h = [s \in SUBSET T |-> h[s]]
      OBVIOUS
    <3> HIDE DEF h
    <3> QED
      BY <2>2, <3>1 DEF Summing
  <2> QED
    BY <2>3
<1> HIDE DEF Good
<1>2. S \in Good
  BY <1>1, SubsetInduction
<1> QED
  BY <1>2 DEF Good

-----------------------------------------------------------------------------
(* Sums. *)

\* The recursive equation, for the element the fold chooses.
LEMMA SumStep ==
  ASSUME NEW f, NEW S, IsFiniteSet(S)
  PROVE  SumFunctionOnSet(f, S) =
            IF S = {} THEN 0 ELSE f[Any(S)] + SumFunctionOnSet(f, S \ {Any(S)})
<1> DEFINE g == CHOOSE g : Summing(f, S, g)
           T == S \ {Any(S)}
           h == CHOOSE h : Summing(f, T, h)
<1>1. Summing(f, S, g)
  BY SummingExists
<1>2. T \in SUBSET S /\ IsFiniteSet(T)
  BY FS_Subset
<1>3. Summing(f, T, h)
  <2> HIDE DEF T
  <2> QED
    BY <1>2, SummingExists
<1>4. h = [s \in SUBSET T |-> g[s]]
  <2> HIDE DEF g, T, h
  <2>1. Summing(f, T, [s \in SUBSET T |-> g[s]])
    BY <1>1, <1>2, SummingRestricted
  <2> QED
    BY <1>2, <1>3, <2>1, SummingUnique
<1>5. SumFunctionOnSet(f, S) = g[S] /\ SumFunctionOnSet(f, T) = h[T]
  <2> HIDE DEF T
  <2> QED
    BY SumIsValue
<1>6. g[S] = IF S = {} THEN 0 ELSE f[Any(S)] + g[T]
  <2> HIDE DEF g
  <2> QED
    BY <1>1 DEF Summing
<1>7. h[T] = g[T]
  <2> HIDE DEF g, h
  <2> QED
    BY <1>4
<1> HIDE DEF g, h
<1> QED
  BY <1>5, <1>6, <1>7

\* A sum of integers is an integer.
LEMMA SumInt ==
  ASSUME NEW f, NEW S, IsFiniteSet(S), \A x \in S : f[x] \in Int
  PROVE  SumFunctionOnSet(f, S) \in Int
<1> DEFINE Good == {T \in SUBSET S : SumFunctionOnSet(f, T) \in Int}
<1>1. ASSUME NEW T \in SUBSET S, \A U \in SUBSET T : U # T => U \in Good
      PROVE  T \in Good
  <2>1. SumFunctionOnSet(f, T) =
           IF T = {} THEN 0 ELSE f[Any(T)] + SumFunctionOnSet(f, T \ {Any(T)})
    BY FS_Subset, SumStep
  <2>2. CASE T = {}
    BY <2>1, <2>2
  <2>3. CASE T # {}
    <3>1. Any(T) \in T /\ T \ {Any(T)} \in SUBSET T /\ T \ {Any(T)} # T
      BY <2>3, AnyIn
    <3>2. SumFunctionOnSet(f, T \ {Any(T)}) \in Int /\ f[Any(T)] \in Int
      BY <1>1, <3>1
    <3> QED
      BY <2>1, <2>3, <3>2
  <2> QED
    BY <2>2, <2>3
<1> HIDE DEF Good
<1>2. S \in Good
  BY <1>1, SubsetInduction
<1> QED
  BY <1>2 DEF Good


\* The empty sum.
LEMMA SumEmpty == \A f : SumFunctionOnSet(f, {}) = 0
  BY FS_EmptySet, SumStep

\* Any element may be taken out first.
LEMMA SumRemove ==
  ASSUME NEW f, NEW S, IsFiniteSet(S), \A x \in S : f[x] \in Int
  PROVE  \A y \in S : SumFunctionOnSet(f, S) = f[y] + SumFunctionOnSet(f, S \ {y})
<1> DEFINE Sum(T) == SumFunctionOnSet(f, T)
           Good == {T \in SUBSET S : \A y \in T : Sum(T) = f[y] + Sum(T \ {y})}
<1>1. \A T \in SUBSET S : Sum(T) \in Int
  BY FS_Subset, SumInt
<1>2. \A T \in SUBSET S : T # {} => Sum(T) = f[Any(T)] + Sum(T \ {Any(T)})
  BY FS_Subset, SumStep
<1> HIDE DEF Sum
<1>3. ASSUME NEW T \in SUBSET S, \A U \in SUBSET T : U # T => U \in Good
      PROVE  T \in Good
  <2> SUFFICES ASSUME NEW y \in T
               PROVE  Sum(T) = f[y] + Sum(T \ {y})
    OBVIOUS
  <2> DEFINE x == Any(T)
  <2>1. x \in T
    BY AnyIn
  <2>2. Sum(T) = f[x] + Sum(T \ {x})
    BY <1>2
  <2> HIDE DEF x
  <2>3. CASE x # y
    <3>1. T \ {x} \in Good /\ T \ {y} \in Good
      BY <1>3, <2>1
    <3> DEFINE U == (T \ {x}) \ {y}
    <3>2. (T \ {y}) \ {x} = U
      OBVIOUS
    <3>3. Sum(T \ {x}) = f[y] + Sum(U) /\ Sum(T \ {y}) = f[x] + Sum(U)
      BY <2>1, <2>3, <3>1, <3>2
    <3>4. Sum(U) \in Int /\ f[x] \in Int /\ f[y] \in Int
      BY <1>1, <2>1
    <3> HIDE DEF U
    <3> QED
      BY <2>2, <3>3, <3>4
  <2> QED
    BY <2>2, <2>3
<1> HIDE DEF Good
<1>4. S \in Good
  BY <1>3, SubsetInduction
<1> QED
  BY <1>4 DEF Good, Sum

\* An element added to the set adds its value.
LEMMA SumAdd ==
  ASSUME NEW f, NEW S, IsFiniteSet(S), NEW y, y \notin S, \A x \in S \cup {y} : f[x] \in Int
  PROVE  SumFunctionOnSet(f, S \cup {y}) = SumFunctionOnSet(f, S) + f[y]
<1> DEFINE T == S \cup {y}
<1>1. IsFiniteSet(T) /\ y \in T /\ T \ {y} = S
  BY FS_AddElement
<1>2. SumFunctionOnSet(f, S) \in Int /\ f[y] \in Int
  BY SumInt
<1>3. \A x \in T : f[x] \in Int
  OBVIOUS
<1> HIDE DEF T
<1>4. SumFunctionOnSet(f, T) = f[y] + SumFunctionOnSet(f, S)
  BY <1>1, <1>3, SumRemove
<1>5. SumFunctionOnSet(f, T) = SumFunctionOnSet(f, S) + f[y]
  BY <1>2, <1>4
<1> QED
  BY <1>5 DEF T

\* Larger values have a larger sum.
LEMMA SumMonotonic ==
  ASSUME NEW f, NEW g, NEW S, IsFiniteSet(S),
         \A x \in S : f[x] \in Int /\ g[x] \in Int /\ f[x] <= g[x]
  PROVE  SumFunctionOnSet(f, S) <= SumFunctionOnSet(g, S)
<1> DEFINE Good == {T \in SUBSET S : SumFunctionOnSet(f, T) <= SumFunctionOnSet(g, T)}
<1>1. ASSUME NEW T \in SUBSET S, \A U \in SUBSET T : U # T => U \in Good
      PROVE  T \in Good
  <2>1. CASE T = {}
    BY <2>1, SumEmpty
  <2>2. CASE T # {}
    <3>1. PICK y \in T : TRUE
      BY <2>2
    <3> DEFINE U == T \ {y}
    <3>2. U \in SUBSET T /\ U # T /\ IsFiniteSet(U) /\ IsFiniteSet(T)
      BY FS_Subset
    <3>3. /\ SumFunctionOnSet(f, T) = f[y] + SumFunctionOnSet(f, U)
          /\ SumFunctionOnSet(g, T) = g[y] + SumFunctionOnSet(g, U)
      BY <3>2, SumRemove
    <3>4. SumFunctionOnSet(f, U) \in Int /\ SumFunctionOnSet(g, U) \in Int
      BY <3>2, SumInt
    <3>5. SumFunctionOnSet(f, U) <= SumFunctionOnSet(g, U)
      BY <1>1, <3>2
    <3> HIDE DEF U
    <3> QED
      BY <3>3, <3>4, <3>5
  <2> QED
    BY <2>1, <2>2
<1> HIDE DEF Good
<1>2. S \in Good
  BY <1>1, SubsetInduction
<1> QED
  BY <1>2 DEF Good

\* Equal values have the same sum.
LEMMA SumSame ==
  ASSUME NEW f, NEW g, NEW S, IsFiniteSet(S), \A x \in S : f[x] \in Int /\ g[x] = f[x]
  PROVE  SumFunctionOnSet(f, S) = SumFunctionOnSet(g, S)
<1>1. SumFunctionOnSet(f, S) <= SumFunctionOnSet(g, S)
  BY SumMonotonic
<1>2. SumFunctionOnSet(g, S) <= SumFunctionOnSet(f, S)
  BY SumMonotonic
<1>3. SumFunctionOnSet(f, S) \in Int /\ SumFunctionOnSet(g, S) \in Int
  BY SumInt
<1> QED
  BY <1>1, <1>2, <1>3

\* One value changed changes the sum by as much.
LEMMA SumPoint ==
  ASSUME NEW f, NEW g, NEW S, IsFiniteSet(S), NEW y \in S,
         \A x \in S : f[x] \in Int /\ g[x] \in Int,
         \A x \in S \ {y} : g[x] = f[x]
  PROVE  SumFunctionOnSet(g, S) = SumFunctionOnSet(f, S) + (g[y] - f[y])
<1> DEFINE T == S \ {y}
<1>1. IsFiniteSet(T) /\ T \subseteq S
  BY FS_Subset
<1>2. /\ SumFunctionOnSet(f, S) = f[y] + SumFunctionOnSet(f, T)
      /\ SumFunctionOnSet(g, S) = g[y] + SumFunctionOnSet(g, T)
  BY SumRemove
<1>3. SumFunctionOnSet(f, T) = SumFunctionOnSet(g, T)
  BY <1>1, SumSame
<1>4. SumFunctionOnSet(f, T) \in Int
  BY <1>1, SumInt
<1> HIDE DEF T
<1> QED
  BY <1>2, <1>3, <1>4

\* Zeros add up to zero.
LEMMA SumZero ==
  ASSUME NEW f, NEW S, IsFiniteSet(S), \A x \in S : f[x] = 0
  PROVE  SumFunctionOnSet(f, S) = 0
<1> DEFINE Good == {T \in SUBSET S : SumFunctionOnSet(f, T) = 0}
<1>1. ASSUME NEW T \in SUBSET S, \A U \in SUBSET T : U # T => U \in Good
      PROVE  T \in Good
  <2>1. SumFunctionOnSet(f, T) =
           IF T = {} THEN 0 ELSE f[Any(T)] + SumFunctionOnSet(f, T \ {Any(T)})
    BY FS_Subset, SumStep
  <2>2. CASE T # {}
    <3>1. Any(T) \in T /\ T \ {Any(T)} \in SUBSET T /\ T \ {Any(T)} # T
      BY <2>2, AnyIn
    <3>2. SumFunctionOnSet(f, T \ {Any(T)}) = 0 /\ f[Any(T)] = 0
      BY <1>1, <3>1
    <3> QED
      BY <2>1, <2>2, <3>2
  <2> QED
    BY <2>1, <2>2
<1> HIDE DEF Good
<1>2. S \in Good
  BY <1>1, SubsetInduction
<1> QED
  BY <1>2 DEF Good

\* A part and the rest make the whole.
LEMMA SumPartition ==
  ASSUME NEW f, NEW S, IsFiniteSet(S), NEW T \in SUBSET S, \A x \in S : f[x] \in Int
  PROVE  SumFunctionOnSet(f, S) = SumFunctionOnSet(f, T) + SumFunctionOnSet(f, S \ T)
<1> DEFINE Sum(U) == SumFunctionOnSet(f, U)
           Good == {U \in SUBSET S : Sum(S) = Sum(U) + Sum(S \ U)}
<1>1. \A U \in SUBSET S : Sum(U) \in Int
  BY FS_Subset, SumInt
<1>2. ASSUME NEW U \in SUBSET S, \A V \in SUBSET U : V # U => V \in Good
      PROVE  U \in Good
  <2>1. CASE U = {}
    <3>1. Sum(U) = 0 /\ S \ U = S
      BY <2>1, SumEmpty
    <3>2. Sum(S) \in Int
      BY <1>1
    <3>3. Sum(S \ U) = Sum(S)
      BY <3>1
    <3> HIDE DEF Sum
    <3>4. Sum(S) = Sum(U) + Sum(S \ U)
      BY <3>1, <3>2, <3>3
    <3> QED
      BY <3>4
  <2>2. CASE U # {}
    <3>1. PICK y \in U : TRUE
      BY <2>2
    <3>2. PICK V \in SUBSET S : V = U \ {y}
      OBVIOUS
    <3>3. Sum(S) = Sum(V) + Sum(S \ V)
      BY <1>2, <3>1, <3>2
    <3>4. Sum(U) = f[y] + Sum(V)
      BY <3>1, <3>2, FS_Subset, SumRemove
    <3>5. Sum(S \ V) = Sum(S \ U) + f[y]
      <4>1. S \ V = (S \ U) \cup {y} /\ y \notin S \ U /\ IsFiniteSet(S \ U) /\ y \in S
        BY <3>1, <3>2, FS_Subset
      <4>2. Sum((S \ U) \cup {y}) = Sum(S \ U) + f[y]
        BY <4>1, SumAdd
      <4> QED
        BY <4>1, <4>2
    <3>6. Sum(V) \in Int /\ Sum(S \ U) \in Int /\ f[y] \in Int
      BY <1>1, <3>1
    <3> HIDE DEF Sum
    <3>7. Sum(S) = Sum(U) + Sum(S \ U)
      BY <3>3, <3>4, <3>5, <3>6
    <3> QED
      BY <3>7
  <2> QED
    BY <2>1, <2>2
<1> HIDE DEF Good
<1>3. T \in Good
  BY <1>2, SubsetInduction
<1> QED
  BY <1>3 DEF Good

\* Part of the values that are not negative have a smaller sum.
LEMMA SumSubset ==
  ASSUME NEW f, NEW S, IsFiniteSet(S), NEW T \in SUBSET S, \A x \in S : f[x] \in Nat
  PROVE  SumFunctionOnSet(f, T) \in Nat /\ SumFunctionOnSet(f, T) <= SumFunctionOnSet(f, S)
<1> DEFINE zero == [x \in S |-> 0]
           part == [x \in S |-> IF x \in T THEN f[x] ELSE 0]
           Good == {U \in SUBSET S : SumFunctionOnSet(part, U) = SumFunctionOnSet(f, U \cap T)}
<1>1. ASSUME NEW U \in SUBSET S, \A V \in SUBSET U : V # U => V \in Good
      PROVE  U \in Good
  <2>1. CASE U = {}
    <3>1. U \cap T = {}
      BY <2>1
    <3> QED
      BY <2>1, <3>1, SumEmpty
  <2>2. CASE U # {}
    <3>1. PICK y \in U : TRUE
      BY <2>2
    <3> DEFINE V == U \ {y}
    <3>2. V \in Good /\ IsFiniteSet(V) /\ IsFiniteSet(U) /\ IsFiniteSet(U \cap T) /\ IsFiniteSet(V \cap T)
      BY <1>1, FS_Subset
    <3>3. \A x \in U : part[x] \in Int /\ f[x] \in Int
      OBVIOUS
    <3>4. part[y] = IF y \in T THEN f[y] ELSE 0
      BY <3>1
    <3> HIDE DEF part
    <3>5. SumFunctionOnSet(part, U) = part[y] + SumFunctionOnSet(part, V)
      BY <3>2, <3>3, SumRemove
    <3>6. SumFunctionOnSet(f, U \cap T) =
             (IF y \in T THEN f[y] ELSE 0) + SumFunctionOnSet(f, V \cap T)
      <4>1. CASE y \in T
        <5>1. (U \cap T) \ {y} = V \cap T /\ y \in U \cap T
          BY <4>1
        <5>2. SumFunctionOnSet(f, U \cap T) = f[y] + SumFunctionOnSet(f, (U \cap T) \ {y})
          <6>1. \A x \in U \cap T : f[x] \in Int
            BY <3>3
          <6> QED
            BY <3>2, <5>1, <6>1, SumRemove
        <5> QED
          BY <4>1, <5>1, <5>2
      <4>2. CASE y \notin T
        <5>1. U \cap T = V \cap T
          BY <4>2
        <5>2. SumFunctionOnSet(f, V \cap T) \in Int
          BY <3>2, <3>3, SumInt
        <5> QED
          BY <4>2, <5>1, <5>2
      <4> QED
        BY <4>1, <4>2
    <3> QED
      BY <3>2, <3>4, <3>5, <3>6
  <2> QED
    BY <2>1, <2>2
<1>2. /\ \A x \in S : zero[x] \in Int /\ part[x] \in Int /\ f[x] \in Int
      /\ \A x \in S : zero[x] = 0 /\ zero[x] <= part[x] /\ part[x] <= f[x]
  OBVIOUS
<1>3. S \cap T = T
  OBVIOUS
<1> HIDE DEF Good
<1>4. S \in Good
  BY <1>1, SubsetInduction
<1>5. SumFunctionOnSet(part, S) = SumFunctionOnSet(f, T)
  BY <1>3, <1>4 DEF Good
<1> HIDE DEF zero, part
<1>6. SumFunctionOnSet(zero, S) = 0
  BY <1>2, SumZero
<1>7. /\ SumFunctionOnSet(zero, S) <= SumFunctionOnSet(part, S)
      /\ SumFunctionOnSet(part, S) <= SumFunctionOnSet(f, S)
  BY <1>2, SumMonotonic
<1>8. SumFunctionOnSet(f, T) \in Int
  BY FS_Subset, SumInt
<1> QED
  BY <1>5, <1>6, <1>7, <1>8

\* The same values under other names have the same sum.
LEMMA SumRenamed ==
  ASSUME NEW f, NEW S, IsFiniteSet(S), \A x \in S : f[x] \in Int,
         NEW g, NEW h, \A x \in S : g[h[x]] = f[x],
         \A x, y \in S : h[x] = h[y] => x = y
  PROVE  SumFunctionOnSet(f, S) = SumFunctionOnSet(g, {h[x] : x \in S})
<1> DEFINE Names(T) == {h[x] : x \in T}
           Good == {T \in SUBSET S : /\ IsFiniteSet(Names(T))
                                     /\ SumFunctionOnSet(f, T) = SumFunctionOnSet(g, Names(T))}
<1>1. ASSUME NEW T \in SUBSET S, \A U \in SUBSET T : U # T => U \in Good
      PROVE  T \in Good
  <2>1. CASE T = {}
    <3>1. Names(T) = {}
      BY <2>1
    <3> QED
      BY <2>1, <3>1, SumEmpty, FS_EmptySet
  <2>2. CASE T # {}
    <3>1. PICK y \in T : TRUE
      BY <2>2
    <3> DEFINE U == T \ {y}
    <3>2. U \in Good /\ IsFiniteSet(T)
      BY <1>1, FS_Subset
    <3>3. Names(T) = Names(U) \cup {h[y]} /\ h[y] \notin Names(U)
      BY <3>1
    <3>4. \A z \in Names(T) : g[z] \in Int
      OBVIOUS
    <3>5. SumFunctionOnSet(f, T) = f[y] + SumFunctionOnSet(f, U)
      BY <3>2, SumRemove
    <3>6. /\ IsFiniteSet(Names(U))
          /\ SumFunctionOnSet(f, U) = SumFunctionOnSet(g, Names(U))
      BY <3>2
    <3>7. g[h[y]] = f[y] /\ f[y] \in Int
      BY <3>1
    <3> HIDE DEF Names, U
    <3>8. IsFiniteSet(Names(T))
      BY <3>3, <3>6, FS_AddElement
    <3>9. SumFunctionOnSet(g, Names(T)) = SumFunctionOnSet(g, Names(U)) + g[h[y]]
      BY <3>3, <3>4, <3>6, SumAdd
    <3>10. SumFunctionOnSet(g, Names(U)) \in Int
      BY <3>3, <3>4, <3>6, SumInt
    <3> QED
      BY <3>5, <3>6, <3>7, <3>8, <3>9, <3>10
  <2> QED
    BY <2>1, <2>2
<1> HIDE DEF Good
<1>2. S \in Good
  BY <1>1, SubsetInduction
<1> QED
  BY <1>2 DEF Good
=============================================================================
