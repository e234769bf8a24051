-------------------------------- MODULE Sums --------------------------------
(***************************************************************************)
(* What a sum over a finite set does when the set or a summand changes.  The *)
(* induction on the size of the set is by least counterexample, for a least   *)
(* natural number is all that the theorems on well-founded relations need.   *)
(***************************************************************************)
EXTENDS Integers, FiniteSets, Functions, FiniteSetTheorems, WellFoundedInduction, TLAPS

\* A set of natural numbers that is not empty has a least member.
LEMMA LeastNumber ==
    ASSUME NEW T, T # {}, T \subseteq Nat
    PROVE  \E n \in T : \A m \in T : n <= m
<1>1. PICK n \in T : \A m \in T : ~ (<<m, n>> \in OpToRel(<, Nat))
  BY NatLessThanWellFounded, WFMin
<1>2. ASSUME NEW m \in T PROVE n <= m
  <2>1. CASE m < n
    <3>1. <<m, n>> \in Nat \X Nat /\ <<m, n>>[1] < <<m, n>>[2]
      BY <2>1
    <3>2. <<m, n>> \in OpToRel(<, Nat)
      BY <3>1 DEF OpToRel
    <3>. QED BY <1>1, <3>2
  <2>. QED BY <2>1
<1>. QED BY <1>2

\* A set of finite sets that is not empty has a smallest member.
LEMMA SmallestSet ==
    ASSUME NEW T, T # {}, \A s \in T : IsFiniteSet(s)
    PROVE  \E s \in T : \A t \in T : Cardinality(s) <= Cardinality(t)
<1>. DEFINE Sizes == {Cardinality(s) : s \in T}
<1>1. Sizes \subseteq Nat /\ Sizes # {}
  BY FS_CardinalityType
<1>2. \E n \in Sizes : \A m \in Sizes : n <= m
  BY <1>1, LeastNumber
<1>. QED BY <1>2

FirstOf(s) == CHOOSE x \in s : TRUE

\* g adds up f over the subsets of S that it is defined for.
AddsUp(f, g, D) == g = [s \in D |-> IF s = {} THEN 0 ELSE f[FirstOf(s)] + g[s \ {FirstOf(s)}]]

\* The sum, as the function that adds up all subsets of S.
LEMMA SumAddsUp ==
    ASSUME NEW f, NEW S
    PROVE  SumFunctionOnSet(f, S) = (CHOOSE g : AddsUp(f, g, SUBSET S))[S]
BY DEF SumFunctionOnSet, FoldFunctionOnSet, MapThenFoldSet, AddsUp, FirstOf

\* Two functions that add up f agree where both are defined.
LEMMA SumsAgree ==
    ASSUME NEW f, NEW g, NEW h, NEW D, NEW E, AddsUp(f, g, D), AddsUp(f, h, E),
           \A s \in D : IsFiniteSet(s) /\ \A t \in SUBSET s : t \in D,
           \A s \in E : \A t \in SUBSET s : t \in E
    PROVE  \A s \in D \cap E : g[s] = h[s]
<1>. DEFINE T == {s \in D \cap E : g[s] # h[s]}
<1>1. SUFFICES ASSUME T # {} PROVE FALSE
  OBVIOUS
<1>2. PICK s \in T : \A t \in T : Cardinality(s) <= Cardinality(t)
  BY <1>1, SmallestSet
<1>3. \A t \in D \cap E : t # {} => g[t] = f[FirstOf(t)] + g[t \ {FirstOf(t)}] /\ h[t] = f[FirstOf(t)] + h[t \ {FirstOf(t)}]
  BY DEF AddsUp
<1>4. \A t \in D \cap E : t = {} => g[t] = 0 /\ h[t] = 0
  BY DEF AddsUp
<1>5. s # {} /\ FirstOf(s) \in s
  BY <1>4 DEF FirstOf
<1>. DEFINE t == s \ {FirstOf(s)}
<1>6. t \in D \cap E
  OBVIOUS
<1>7. IsFiniteSet(s) /\ Cardinality(t) < Cardinality(s)
  <2>1. IsFiniteSet(s)
    OBVIOUS
  <2>2. Cardinality(s) \in Nat /\ Cardinality(t) = Cardinality(s) - 1
    BY <1>5, <2>1, FS_RemoveElement, FS_CardinalityType
  <2>. QED BY <2>1, <2>2
<1>8. g[t] = h[t]
  BY <1>2, <1>6, <1>7, FS_CardinalityType, FS_Subset
<1>. QED BY <1>3, <1>5, <1>8

\* There is one that adds up the subsets of a finite set.
LEMMA SumExists ==
    ASSUME NEW f, NEW S, IsFiniteSet(S)
    PROVE  \E g : AddsUp(f, g, SUBSET S)
<1>. DEFINE Small(n) == {s \in SUBSET S : Cardinality(s) <= n}
            T == {n \in Nat : ~ \E g : AddsUp(f, g, Small(n))}
<1>1. \A s \in SUBSET S : IsFiniteSet(s) /\ Cardinality(s) \in Nat /\ Cardinality(s) <= Cardinality(S)
  BY FS_Subset, FS_CardinalityType
<1>2. T = {}
  <2>1. SUFFICES ASSUME T # {} PROVE FALSE
    OBVIOUS
  <2>2. PICK n \in T : \A m \in T : n <= m
    BY <2>1, LeastNumber
  <2>3. CASE n = 0
    <3>1. \A s \in Small(0) : s = {}
      BY <1>1, FS_EmptySet
    <3>2. AddsUp(f, [s \in Small(0) |-> 0], Small(0))
      BY <3>1 DEF AddsUp
    <3>. QED BY <2>2, <2>3, <3>2
  <2>4. CASE n # 0
    <3>1. n - 1 \in Nat /\ n - 1 \notin T
      <4>1. n \in Nat /\ n - 1 \in Nat /\ ~ n <= n - 1
        BY <2>4
      <4>. QED BY <2>2, <4>1
    <3>2. PICK g : AddsUp(f, g, Small(n - 1))
      BY <3>1
    <3>. DEFINE h == [s \in Small(n) |-> IF s = {} THEN 0 ELSE f[FirstOf(s)] + g[s \ {FirstOf(s)}]]
    <3>3. ASSUME NEW s \in Small(n), s # {} PROVE s \ {FirstOf(s)} \in Small(n - 1)
      <4>1. FirstOf(s) \in s
        BY <3>3 DEF FirstOf
      <4>. QED BY <1>1, <2>2, <4>1, FS_RemoveElement
    <3>4. ASSUME NEW s \in Small(n - 1) PROVE s \in Small(n) /\ h[s] = g[s]
      <4>1. s \in Small(n)
        BY <1>1, <2>2
      <4>2. g[s] = IF s = {} THEN 0 ELSE f[FirstOf(s)] + g[s \ {FirstOf(s)}]
        BY <3>2, <3>4 DEF AddsUp
      <4>. QED BY <4>1, <4>2
    <3>5. AddsUp(f, h, Small(n))
      BY <3>3, <3>4 DEF AddsUp
    <3>. QED BY <2>2, <3>5
  <2>. QED BY <2>3, <2>4
<1>3. Small(Cardinality(S)) = SUBSET S
  BY <1>1
<1>. QED BY <1>1, <1>2, <1>3

\* A sum takes its first element, then the rest.
LEMMA SumUnfolds ==
    ASSUME NEW f, NEW S, IsFiniteSet(S)
    PROVE  SumFunctionOnSet(f, S) = IF S = {} THEN 0 ELSE f[FirstOf(S)] + SumFunctionOnSet(f, S \ {FirstOf(S)})
<1>. DEFINE g(D) == CHOOSE g : AddsUp(f, g, SUBSET D)
<1>1. \A D \in SUBSET S : IsFiniteSet(D)
  BY FS_Subset
<1>2. \A D \in SUBSET S : AddsUp(f, g(D), SUBSET D)
  BY <1>1, SumExists
<1>3. \A D \in SUBSET S : SumFunctionOnSet(f, D) = g(D)[D]
  BY SumAddsUp
<1>. HIDE DEF g
<1>4. CASE S = {}
  BY <1>2, <1>3, <1>4 DEF AddsUp
<1>5. CASE S # {}
  <2>. DEFINE R == S \ {FirstOf(S)}
  <2>1. g(S)[S] = f[FirstOf(S)] + g(S)[R]
    BY <1>2, <1>5 DEF AddsUp
  <2>2. g(S)[R] = g(R)[R]
    <3>1. AddsUp(f, g(S), SUBSET S) /\ AddsUp(f, g(R), SUBSET R)
      BY <1>2
    <3>. QED BY <1>1, <3>1, SumsAgree
  <2>. QED BY <1>3, <1>5, <2>1, <2>2
<1>. QED BY <1>4, <1>5

\* The sum of integers over a finite set is an integer, and may take any element first.
LEMMA SumTakes ==
    ASSUME NEW f, NEW S, IsFiniteSet(S), \A x \in S : f[x] \in Int
    PROVE  /\ SumFunctionOnSet(f, S) \in Int
           /\ \A x \in S : SumFunctionOnSet(f, S) = f[x] + SumFunctionOnSet(f, S \ {x})
<1>. DEFINE Sum(s) == SumFunctionOnSet(f, s)
<1>1. \A s \in SUBSET S : IsFiniteSet(s) /\ Sum(s) = IF s = {} THEN 0 ELSE f[FirstOf(s)] + Sum(s \ {FirstOf(s)})
  BY FS_Subset, SumUnfolds
<1>2. \A s \in SUBSET S : s # {} => FirstOf(s) \in s
  BY DEF FirstOf
<1>3. ASSUME NEW s \in SUBSET S, NEW x \in s PROVE ~ Cardinality(s) <= Cardinality(s \ {x})
  <2>1. Cardinality(s) \in Nat /\ Cardinality(s \ {x}) = Cardinality(s) - 1
    BY <1>1, <1>3, FS_RemoveElement, FS_CardinalityType
  <2>. QED BY <2>1
<1>. HIDE DEF Sum
<1>4. \A s \in SUBSET S : Sum(s) \in Int
  <2>. DEFINE T == {s \in SUBSET S : Sum(s) \notin Int}
  <2>1. SUFFICES ASSUME T # {} PROVE FALSE
    OBVIOUS
  <2>2. PICK s \in T : \A t \in T : Cardinality(s) <= Cardinality(t)
    BY <1>1, <2>1, SmallestSet
  <2>3. s # {}
    <3>1. s \in SUBSET S /\ Sum(s) \notin Int
      OBVIOUS
    <3>2. s = {} => Sum(s) = 0
      BY <1>1, <3>1
    <3>. QED BY <3>1, <3>2
  <2>4. s \ {FirstOf(s)} \in SUBSET S /\ s \ {FirstOf(s)} \notin T
    <3>1. FirstOf(s) \in s /\ s \ {FirstOf(s)} \in SUBSET S
      BY <1>2, <2>3
    <3>2. ~ Cardinality(s) <= Cardinality(s \ {FirstOf(s)})
      BY <1>3, <3>1
    <3>. QED BY <2>2, <3>1, <3>2
  <2>. QED BY <1>1, <1>2, <2>3, <2>4
<1>5. \A s \in SUBSET S : \A x \in s : Sum(s) = f[x] + Sum(s \ {x})
  <2>. DEFINE T == {s \in SUBSET S : \E x \in s : Sum(s) # f[x] + Sum(s \ {x})}
  <2>1. SUFFICES ASSUME T # {} PROVE FALSE
    OBVIOUS
  <2>2. PICK s \in T : \A t \in T : Cardinality(s) <= Cardinality(t)
    BY <1>1, <2>1, SmallestSet
  <2>3. PICK x \in s : Sum(s) # f[x] + Sum(s \ {x})
    OBVIOUS
  <2>. DEFINE c == FirstOf(s)
              both == (s \ {c}) \ {x}
  <2>4. c \in s /\ Sum(s) = f[c] + Sum(s \ {c}) /\ c # x
    BY <1>1, <1>2, <2>3
  <2>5. s \ {c} \notin T /\ s \ {x} \notin T
    <3>1. s \ {c} \in SUBSET S /\ s \ {x} \in SUBSET S
      OBVIOUS
    <3>2. ~ Cardinality(s) <= Cardinality(s \ {c}) /\ ~ Cardinality(s) <= Cardinality(s \ {x})
      BY <1>3, <2>4
    <3>. QED BY <2>2, <3>2
  <2>6. Sum(s \ {c}) = f[x] + Sum(both)
    BY <2>4, <2>5
  <2>7. both = (s \ {x}) \ {c}
    OBVIOUS
  <2>8. Sum(s \ {x}) = f[c] + Sum(both)
    BY <2>4, <2>5, <2>7
  <2>9. Sum(both) \in Int /\ f[x] \in Int /\ f[c] \in Int
    BY <1>4, <2>4
  <2>. QED BY <2>3, <2>4, <2>6, <2>8, <2>9
<1>. QED BY <1>4, <1>5 DEF Sum

\* The sum of nothing is zero.
LEMMA SumOfNone == \A f : SumFunctionOnSet(f, {}) = 0
BY SumUnfolds, FS_EmptySet

\* The sum of naturals is a natural, at least as large as each.
LEMMA SumIsNatural ==
    ASSUME NEW f, NEW S, IsFiniteSet(S), \A x \in S : f[x] \in Nat
    PROVE  SumFunctionOnSet(f, S) \in Nat /\ \A x \in S : f[x] <= SumFunctionOnSet(f, S)
<1>. DEFINE Sum(s) == SumFunctionOnSet(f, s)
            T == {s \in SUBSET S : Sum(s) \notin Nat}
<1>1. \A s \in SUBSET S : IsFiniteSet(s) /\ Sum(s) = IF s = {} THEN 0 ELSE f[FirstOf(s)] + Sum(s \ {FirstOf(s)})
  BY FS_Subset, SumUnfolds
<1>2. \A s \in SUBSET S : s # {} => FirstOf(s) \in s
  BY DEF FirstOf
<1>3. T = {}
  <2>1. SUFFICES ASSUME T # {} PROVE FALSE
    OBVIOUS
  <2>2. PICK s \in T : \A t \in T : Cardinality(s) <= Cardinality(t)
    BY <1>1, <2>1, SmallestSet
  <2>. HIDE DEF Sum
  <2>3. s \in SUBSET S /\ s # {}
    <3>1. s \in SUBSET S /\ Sum(s) \notin Nat
      OBVIOUS
    <3>2. s = {} => Sum(s) = 0
      BY <1>1, <3>1
    <3>. QED BY <3>1, <3>2
  <2>4. FirstOf(s) \in s /\ s \ {FirstOf(s)} \in SUBSET S
    BY <1>2, <2>3
  <2>5. s \ {FirstOf(s)} \notin T
    <3>1. Cardinality(s) \in Nat /\ Cardinality(s \ {FirstOf(s)}) = Cardinality(s) - 1
      BY <1>1, <2>3, <2>4, FS_RemoveElement, FS_CardinalityType
    <3>2. ~ Cardinality(s) <= Cardinality(s \ {FirstOf(s)})
      BY <3>1
    <3>. QED BY <2>2, <2>4, <3>2
  <2>6. Sum(s \ {FirstOf(s)}) \in Nat /\ Sum(s) = f[FirstOf(s)] + Sum(s \ {FirstOf(s)}) /\ f[FirstOf(s)] \in Nat
    BY <1>1, <2>3, <2>4, <2>5
  <2>. QED BY <2>6
<1>4. \A s \in SUBSET S : Sum(s) \in Nat
  BY <1>3
<1>5. ASSUME NEW x \in S PROVE f[x] <= Sum(S)
  <2>1. Sum(S) = f[x] + Sum(S \ {x}) /\ Sum(S \ {x}) \in Nat
    BY <1>4, SumTakes
  <2>. HIDE DEF Sum
  <2>. QED BY <2>1
<1>. QED BY <1>4, <1>5

\* Functions that agree on a finite set have the same sum over it.
LEMMA SumDependsOnValues ==
    ASSUME NEW f, NEW g, NEW S, IsFiniteSet(S), \A x \in S : f[x] = g[x]
    PROVE  SumFunctionOnSet(f, S) = SumFunctionOnSet(g, S)
<1>. DEFINE Sum(h, s) == SumFunctionOnSet(h, s)
            T == {s \in SUBSET S : Sum(f, s) # Sum(g, s)}
<1>1. \A s \in SUBSET S : /\ IsFiniteSet(s)
                          /\ Sum(f, s) = IF s = {} THEN 0 ELSE f[FirstOf(s)] + Sum(f, s \ {FirstOf(s)})
                          /\ Sum(g, s) = IF s = {} THEN 0 ELSE g[FirstOf(s)] + Sum(g, s \ {FirstOf(s)})
  BY FS_Subset, SumUnfolds
<1>2. \A s \in SUBSET S : s # {} => FirstOf(s) \in s
  BY DEF FirstOf
<1>. HIDE DEF Sum
<1>3. SUFFICES ASSUME T # {} PROVE FALSE
  BY DEF Sum
<1>4. PICK s \in T : \A t \in T : Cardinality(s) <= Cardinality(t)
  BY <1>1, <1>3, SmallestSet
<1>5. s \in SUBSET S /\ Sum(f, s) # Sum(g, s)
  OBVIOUS
<1>6. s # {}
  BY <1>1, <1>5
<1>7. FirstOf(s) \in s /\ s \ {FirstOf(s)} \in SUBSET S
  BY <1>2, <1>5, <1>6
<1>8. s \ {FirstOf(s)} \notin T
  <2>1. Cardinality(s) \in Nat /\ Cardinality(s \ {FirstOf(s)}) = Cardinality(s) - 1
    BY <1>1, <1>5, <1>7, FS_RemoveElement, FS_CardinalityType
  <2>2. ~ Cardinality(s) <= Cardinality(s \ {FirstOf(s)})
    BY <2>1
  <2>. QED BY <1>4, <1>7, <2>2
<1>. QED BY <1>1, <1>5, <1>6, <1>7, <1>8

\* f over S becomes g over T, and only x comes, goes or changes its value.
OneChanges(f, g, S, T, x) ==
    /\ IsFiniteSet(S) /\ IsFiniteSet(T) /\ S \ {x} = T \ {x}
    /\ \A y \in S : f[y] \in Int
    /\ \A y \in T : g[y] \in Int
    /\ \A y \in S \ {x} : g[y] = f[y]

\* What a sum is worth when one element x may come, go or change its value.
LEMMA SumChanges ==
    ASSUME NEW f, NEW g, NEW S, NEW T, NEW x, OneChanges(f, g, S, T, x)
    PROVE  /\ SumFunctionOnSet(f, S) \in Int /\ SumFunctionOnSet(g, T) \in Int
           /\ SumFunctionOnSet(g, T) = SumFunctionOnSet(f, S) - (IF x \in S THEN f[x] ELSE 0) + (IF x \in T THEN g[x] ELSE 0)
<1>0. /\ IsFiniteSet(S) /\ IsFiniteSet(T) /\ S \ {x} = T \ {x}
      /\ \A y \in S : f[y] \in Int
      /\ \A y \in T : g[y] \in Int
      /\ \A y \in S \ {x} : g[y] = f[y]
  BY DEF OneChanges
<1>. USE <1>0
<1>. DEFINE Sum(h, s) == SumFunctionOnSet(h, s)
<1>1. Sum(f, S) \in Int /\ Sum(f, S \ {x}) \in Int
  <2>1. IsFiniteSet(S \ {x}) /\ \A y \in S \ {x} : f[y] \in Int
    BY FS_RemoveElement
  <2>. QED BY <2>1, SumTakes
<1>a. x \in S => Sum(f, S) = f[x] + Sum(f, S \ {x})
  BY SumTakes
<1>b. x \notin S => Sum(f, S \ {x}) = Sum(f, S)
  <2>1. x \notin S => S \ {x} = S
    OBVIOUS
  <2>. QED BY <2>1
<1>2. /\ x \in T => Sum(g, T) = g[x] + Sum(g, T \ {x})
      /\ x \notin T => Sum(g, T) = Sum(g, T \ {x})
  <2>1. x \notin T => T \ {x} = T
    OBVIOUS
  <2>2. x \in T => Sum(g, T) = g[x] + Sum(g, T \ {x})
    BY SumTakes
  <2>. QED BY <2>1, <2>2
<1>3. Sum(g, T \ {x}) = Sum(f, S \ {x})
  <2>1. IsFiniteSet(S \ {x})
    BY FS_Subset
  <2>. QED BY <2>1, SumDependsOnValues
<1>. HIDE DEF Sum
<1>4. Sum(g, T) = Sum(f, S) - (IF x \in S THEN f[x] ELSE 0) + (IF x \in T THEN g[x] ELSE 0)
  <2>1. Sum(f, S) - (IF x \in S THEN f[x] ELSE 0) = Sum(f, S \ {x})
    <3>1. x \in S => f[x] \in Int
      OBVIOUS
    <3>. QED BY <1>1, <1>a, <1>b, <3>1
  <2>2. x \in T => g[x] \in Int
    OBVIOUS
  <2>3. Sum(g, T) = Sum(f, S \ {x}) + (IF x \in T THEN g[x] ELSE 0)
    BY <1>1, <1>2, <1>3, <2>2
  <2>. QED BY <2>1, <2>3
<1>5. Sum(g, T) \in Int
  BY SumTakes DEF Sum
<1>. QED BY <1>1, <1>4, <1>5 DEF Sum

\* The same fact, with the change spelt out.
LEMMA SumOfOneChange ==
    ASSUME NEW f, NEW g, NEW S, NEW T, NEW x, IsFiniteSet(S), IsFiniteSet(T), S \ {x} = T \ {x},
           \A y \in S : f[y] \in Int, \A y \in T : g[y] \in Int, \A y \in S \ {x} : g[y] = f[y]
    PROVE  /\ SumFunctionOnSet(f, S) \in Int
           /\ SumFunctionOnSet(g, T) = SumFunctionOnSet(f, S) - (IF x \in S THEN f[x] ELSE 0) + (IF x \in T THEN g[x] ELSE 0)
<1>1. OneChanges(f, g, S, T, x)
  BY DEF OneChanges
<1>. QED BY <1>1, SumChanges
=============================================================================
