---------------------------- MODULE DataLemmas ----------------------------
(* Induction in the form the provers can use, with sets in place of           *)
(* predicates, and what the sums of the models compute: SumFunctionOnSet over *)
(* finite sets.                                                               *)
EXTENDS Integers, FiniteSets, Functions, FiniteSetTheorems,
        WellFoundedInduction, TLAPS

\* Induction over the naturals.
LEMMA NaturalSet ==
    ASSUME NEW N, N \subseteq Nat, 0 \in N, \A n \in N : n + 1 \in N
    PROVE  N = Nat
  <1> DEFINE Bad == Nat \ N
  <1> SUFFICES ASSUME Bad # {} PROVE FALSE
    OBVIOUS
  <1>1. PICK n \in Bad : \A m \in Bad : ~ (<<m, n>> \in OpToRel(<, Nat))
    <2>1. Bad \subseteq Nat
      OBVIOUS
    <2> HIDE DEF Bad
    <2> QED
      BY <2>1, NatLessThanWellFounded, WFMin
  <1>2. n # 0 /\ n - 1 \in Nat /\ n - 1 < n
    OBVIOUS
  <1>3. <<n - 1, n>> \in OpToRel(<, Nat)
    BY <1>2 DEF OpToRel
  <1>4. n - 1 \in N
    BY <1>1, <1>2, <1>3
  <1> QED
    BY <1>2, <1>4

\* A set of naturals has a least element.
LEMMA LeastNatural ==
    ASSUME NEW S, S \subseteq Nat, S # {}
    PROVE  \E n \in S : \A m \in S : n <= m
  <1>1. PICK n \in S : \A m \in S : ~ (<<m, n>> \in OpToRel(<, Nat))
    BY NatLessThanWellFounded, WFMin
  <1>2. \A m \in S : ~ (m < n)
    BY <1>1 DEF OpToRel
  <1> QED
    BY <1>2

\* Induction over the subsets of a finite set: of the subsets that violate a
\* claim, one violates it none of whose proper subsets does.
LEMMA MinimalSubset ==
    ASSUME NEW S, IsFiniteSet(S), NEW T, T \subseteq SUBSET S, T # {}
    PROVE  \E U \in T : \A V \in T : V \subseteq U => V = U
  <1>1. FiniteSubsetsOf(S) = SUBSET S
    BY FS_FiniteSubsetsOfFinite
  <1>2. IsWellFoundedOn(StrictSubsetOrdering(S), SUBSET S)
    BY <1>1, FS_StrictSubsetOrderingWellFounded
  <1>3. \E U \in T : \A V \in T : ~ (<<V, U>> \in StrictSubsetOrdering(S))
    BY <1>2, WFMin
  <1> QED
    BY <1>3 DEF StrictSubsetOrdering

\* A subset of a finite set is finite, and so is one without an element.
LEMMA FiniteSubsets ==
    ASSUME NEW S, IsFiniteSet(S)
    PROVE  /\ \A U : U \subseteq S => IsFiniteSet(U)
           /\ \A x : IsFiniteSet(S \ {x})
  BY FS_Subset

----------------------------------------------------------------------------
(* The recursive function inside SumFunctionOnSet exists.                     *)

Adds(f, S, sum) ==
    sum = [U \in SUBSET S |->
             IF U = {} THEN 0
             ELSE LET x == CHOOSE x \in U : TRUE IN f[x] + sum[U \ {x}]]

\* The function does not depend on the set it is defined for.
LEMMA AddsUnique ==
    ASSUME NEW f, NEW S, IsFiniteSet(S), NEW T, NEW U, U \subseteq S, U \subseteq T,
           NEW g, Adds(f, S, g), NEW h, Adds(f, T, h)
    PROVE  g[U] = h[U]
  <1> DEFINE Bad == {V \in SUBSET U : g[V] # h[V]}
  <1> SUFFICES ASSUME Bad # {} PROVE FALSE
    OBVIOUS
  <1>1. IsFiniteSet(U) /\ Bad \subseteq SUBSET U
    BY FiniteSubsets
  <1>2. PICK V \in Bad : \A W \in Bad : W \subseteq V => W = V
    <2> HIDE DEF Bad
    <2> QED
      BY <1>1, MinimalSubset
  <1>3. V \in SUBSET S /\ V \in SUBSET T
    BY <1>2
  <1>4. V # {}
    BY <1>2, <1>3 DEF Adds
  <1> DEFINE x == CHOOSE x \in V : TRUE
  <1>5. x \in V
    BY <1>4
  <1>6. g[V] = f[x] + g[V \ {x}] /\ h[V] = f[x] + h[V \ {x}]
    BY <1>3, <1>4 DEF Adds
  <1>7. g[V \ {x}] = h[V \ {x}]
    BY <1>2, <1>5
  <1> QED
    BY <1>2, <1>6, <1>7

\* Such a function exists.
LEMMA AddsExists ==
    ASSUME NEW f, NEW S, IsFiniteSet(S)
    PROVE  \E g : Adds(f, S, g)
  <1> DEFINE Bad == {U \in SUBSET S : ~ \E g : Adds(f, U, g)}
  <1> SUFFICES ASSUME Bad # {} PROVE FALSE
    OBVIOUS
  <1>1. PICK U \in Bad : \A V \in Bad : V \subseteq U => V = U
    <2>1. Bad \subseteq SUBSET S
      OBVIOUS
    <2> HIDE DEF Bad
    <2> QED
      BY <2>1, MinimalSubset
  <1>2. ASSUME NEW V \in SUBSET U, V # U
        PROVE  \E g : Adds(f, V, g)
    BY <1>1, <1>2
  <1> DEFINE Sub(V) == CHOOSE g : Adds(f, V, g)
  <1>3. ASSUME NEW V \in SUBSET U, V # U
        PROVE  Adds(f, V, Sub(V))
    BY <1>2, <1>3
  <1> HIDE DEF Sub
  <1> DEFINE Value(V) == LET x == CHOOSE x \in V : TRUE IN f[x] + Sub(V \ {x})[V \ {x}]
             h == [V \in SUBSET U |-> IF V = {} THEN 0 ELSE Value(V)]
  <1>4. ASSUME NEW V \in SUBSET U, V # {}, NEW x \in V
        PROVE  h[V \ {x}] = Sub(V \ {x})[V \ {x}]
    <2> DEFINE W == V \ {x}
    <2>1. W \in SUBSET U /\ W # U
      BY <1>4
    <2>2. Adds(f, W, Sub(W))
      BY <1>3, <2>1
    <2>3. CASE W = {}
      BY <2>1, <2>2, <2>3 DEF Adds
    <2>4. CASE W # {}
      <3> DEFINE y == CHOOSE y \in W : TRUE
      <3>1. y \in W
        BY <2>4
      <3>2. W \ {y} \in SUBSET U /\ W \ {y} # U
        BY <3>1, <2>1
      <3>3. Adds(f, W \ {y}, Sub(W \ {y}))
        BY <1>3, <3>2
      <3>4. IsFiniteSet(W)
        BY FiniteSubsets, <2>1, <1>1
      <3>5. Sub(W)[W \ {y}] = Sub(W \ {y})[W \ {y}]
        <4> DEFINE Y == W \ {y}
        <4>1. Y \subseteq W /\ Y \subseteq Y
          OBVIOUS
        <4> HIDE DEF W, Y
        <4> QED
          BY AddsUnique, <3>3, <2>2, <3>4, <4>1 DEF Y
      <3>6. Sub(W)[W] = f[y] + Sub(W)[W \ {y}]
        BY <2>2, <2>4 DEF Adds
      <3>7. h[W] = f[y] + Sub(W \ {y})[W \ {y}]
        BY <2>4, <2>1
      <3> QED
        BY <3>5, <3>6, <3>7
    <2> QED
      BY <2>3, <2>4
  <1>5. ASSUME NEW V \in SUBSET U, V # {}
        PROVE  h[V] = LET x == CHOOSE x \in V : TRUE IN f[x] + h[V \ {x}]
    <2> DEFINE x == CHOOSE x \in V : TRUE
    <2>1. x \in V
      BY <1>5
    <2>2. h[V] = f[x] + Sub(V \ {x})[V \ {x}]
      BY <1>5
    <2>3. h[V \ {x}] = Sub(V \ {x})[V \ {x}]
      BY <1>4, <1>5, <2>1
    <2> QED
      BY <2>2, <2>3
  <1>6. h[{}] = 0
    OBVIOUS
  <1>7. h = [V \in SUBSET U |-> h[V]]
    OBVIOUS
  <1> HIDE DEF h
  <1>8. Adds(f, U, h)
    BY <1>5, <1>6, <1>7 DEF Adds
  <1> QED
    BY <1>1, <1>8

\* The sum over the empty set is 0; over another, it is the value at some
\* element plus the sum over the others.
LEMMA SumUnfold ==
    ASSUME NEW f, NEW S, IsFiniteSet(S)
    PROVE  /\ S = {} => SumFunctionOnSet(f, S) = 0
           /\ S # {} => \E x \in S :
                SumFunctionOnSet(f, S) = f[x] + SumFunctionOnSet(f, S \ {x})
  <1> DEFINE Sum(T) == CHOOSE g : Adds(f, T, g)
  <1>1. ASSUME NEW T PROVE SumFunctionOnSet(f, T) = Sum(T)[T]
    BY DEF SumFunctionOnSet, FoldFunctionOnSet, MapThenFoldSet, Adds
  <1>2. ASSUME NEW T, IsFiniteSet(T) PROVE Adds(f, T, Sum(T))
    BY AddsExists, <1>2
  <1> HIDE DEF Sum
  <1>3. S = {} => Sum(S)[S] = 0
    BY <1>2 DEF Adds
  <1>4. ASSUME S # {}
        PROVE  \E x \in S : Sum(S)[S] = f[x] + Sum(S \ {x})[S \ {x}]
    <2> DEFINE x == CHOOSE x \in S : TRUE
               T == S \ {x}
    <2>1. x \in S /\ T \subseteq S /\ T \subseteq T
      BY <1>4
    <2>2. Adds(f, S, Sum(S))
      BY <1>2
    <2>3. Adds(f, T, Sum(T))
      BY <1>2, FiniteSubsets
    <2>4. Sum(S)[S] = f[x] + Sum(S)[T]
      BY <2>2, <1>4 DEF Adds
    <2> HIDE DEF T
    <2>5. Sum(S)[T] = Sum(T)[T]
      BY <2>1, <2>2, <2>3, AddsUnique
    <2> QED
      BY <2>1, <2>4, <2>5 DEF T
  <1> QED
    BY <1>1, <1>3, <1>4
----------------------------------------------------------------------------
(* Consequences.                                                              *)

\* The image of a finite set is finite.
LEMMA ImageFinite ==
    ASSUME NEW b, NEW S, IsFiniteSet(S)
    PROVE  IsFiniteSet({b[x] : x \in S})
  <1> DEFINE T == {b[x] : x \in S}
             f == [x \in S |-> b[x]]
  <1>1. f \in Surjection(S, T)
    BY DEF Surjection
  <1> HIDE DEF T, f
  <1>2. IsFiniteSet(T)
    BY <1>1, FS_Surjection
  <1> QED
    BY <1>2 DEF T

IntegersOn(f, S) == \A x \in S : f[x] \in Int

\* A sum of integers is an integer.
LEMMA SumType ==
    ASSUME NEW f, NEW S, IsFiniteSet(S), IntegersOn(f, S)
    PROVE  SumFunctionOnSet(f, S) \in Int
  <1> DEFINE Bad == {U \in SUBSET S : SumFunctionOnSet(f, U) \notin Int}
  <1> SUFFICES ASSUME Bad # {} PROVE FALSE
    OBVIOUS
  <1>1. PICK U \in Bad : \A V \in Bad : V \subseteq U => V = U
    <2>1. Bad \subseteq SUBSET S
      OBVIOUS
    <2> HIDE DEF Bad
    <2> QED
      BY <2>1, MinimalSubset
  <1>2. IsFiniteSet(U)
    BY FiniteSubsets
  <1>3. PICK x \in U : SumFunctionOnSet(f, U) = f[x] + SumFunctionOnSet(f, U \ {x})
    BY <1>1, <1>2, SumUnfold
  <1>4. SumFunctionOnSet(f, U \ {x}) \in Int
    BY <1>1
  <1> QED
    BY <1>1, <1>3, <1>4 DEF IntegersOn

\* A sum of naturals is a natural.
LEMMA SumNatural ==
    ASSUME NEW f, NEW S, IsFiniteSet(S), \A x \in S : f[x] \in Nat
    PROVE  SumFunctionOnSet(f, S) \in Nat
  <1> DEFINE Bad == {U \in SUBSET S : SumFunctionOnSet(f, U) \notin Nat}
  <1> SUFFICES ASSUME Bad # {} PROVE FALSE
    OBVIOUS
  <1>1. PICK U \in Bad : \A V \in Bad : V \subseteq U => V = U
    <2>1. Bad \subseteq SUBSET S
      OBVIOUS
    <2> HIDE DEF Bad
    <2> QED
      BY <2>1, MinimalSubset
  <1>2. IsFiniteSet(U)
    BY FiniteSubsets
  <1>3. PICK x \in U : SumFunctionOnSet(f, U) = f[x] + SumFunctionOnSet(f, U \ {x})
    BY <1>1, <1>2, SumUnfold
  <1>4. SumFunctionOnSet(f, U \ {x}) \in Nat
    BY <1>1
  <1> QED
    BY <1>1, <1>3, <1>4

\* Any element may be taken out first.
LEMMA SumRemove ==
    ASSUME NEW f, NEW S, IsFiniteSet(S), IntegersOn(f, S), NEW x \in S
    PROVE  SumFunctionOnSet(f, S) = f[x] + SumFunctionOnSet(f, S \ {x})
  <1> DEFINE Fine(U, y) == SumFunctionOnSet(f, U) = f[y] + SumFunctionOnSet(f, U \ {y})
             Bad == {U \in SUBSET S : \E y \in U : ~ Fine(U, y)}
  <1> SUFFICES ASSUME Bad # {} PROVE FALSE
    OBVIOUS
  <1>1. PICK U \in Bad : \A V \in Bad : V \subseteq U => V = U
    <2>1. Bad \subseteq SUBSET S
      OBVIOUS
    <2> HIDE DEF Bad
    <2> QED
      BY <2>1, MinimalSubset
  <1>2. PICK y \in U : ~ Fine(U, y)
    BY <1>1
  <1>3. U \subseteq S /\ IsFiniteSet(U)
    BY <1>1, FiniteSubsets
  <1>4. PICK z \in U : Fine(U, z)
    BY <1>2, <1>3, SumUnfold
  <1>5. y # z
    BY <1>2, <1>4
  <1>6. ASSUME NEW V \in SUBSET U, V # U, NEW v \in V
        PROVE  Fine(V, v)
    BY <1>1, <1>3, <1>6
  <1>7. Fine(U \ {z}, y) /\ Fine(U \ {y}, z)
    <2>1. y \in U \ {z} /\ z \in U \ {y}
      BY <1>5
    <2> HIDE DEF Fine
    <2> QED
      BY <1>6, <2>1
  <1>8. (U \ {z}) \ {y} = (U \ {y}) \ {z}
    OBVIOUS
  <1>9. /\ SumFunctionOnSet(f, (U \ {y}) \ {z}) \in Int
        /\ f[y] \in Int /\ f[z] \in Int
    <2>1. (U \ {y}) \ {z} \subseteq S
      BY <1>3
    <2> QED
      BY <1>3, <2>1, FiniteSubsets, SumType DEF IntegersOn
  <1> DEFINE rest == SumFunctionOnSet(f, (U \ {y}) \ {z})
  <1>10. /\ SumFunctionOnSet(f, U) = f[z] + SumFunctionOnSet(f, U \ {z})
         /\ SumFunctionOnSet(f, U \ {z}) = f[y] + rest
         /\ SumFunctionOnSet(f, U \ {y}) = f[z] + rest
         /\ SumFunctionOnSet(f, U) # f[y] + SumFunctionOnSet(f, U \ {y})
    BY <1>2, <1>4, <1>7, <1>8
  <1>11. rest \in Int /\ f[y] \in Int /\ f[z] \in Int
    BY <1>9
  <1> HIDE DEF rest, Bad, Fine
  <1> QED
    BY <1>10, <1>11

\* Only the values on the set matter.
LEMMA SumSame ==
    ASSUME NEW f, NEW g, NEW S, IsFiniteSet(S), \A x \in S : f[x] = g[x],
           IntegersOn(g, S)
    PROVE  SumFunctionOnSet(f, S) = SumFunctionOnSet(g, S)
  <1> DEFINE Bad == {U \in SUBSET S : SumFunctionOnSet(f, U) # SumFunctionOnSet(g, U)}
  <1> SUFFICES ASSUME Bad # {} PROVE FALSE
    OBVIOUS
  <1>1. PICK U \in Bad : \A V \in Bad : V \subseteq U => V = U
    <2>1. Bad \subseteq SUBSET S
      OBVIOUS
    <2> HIDE DEF Bad
    <2> QED
      BY <2>1, MinimalSubset
  <1>2. IsFiniteSet(U) /\ IntegersOn(g, U) /\ U \subseteq S
    BY <1>1, FiniteSubsets DEF IntegersOn
  <1>3. PICK x \in U : SumFunctionOnSet(f, U) = f[x] + SumFunctionOnSet(f, U \ {x})
    BY <1>1, <1>2, SumUnfold
  <1>4. SumFunctionOnSet(g, U) = g[x] + SumFunctionOnSet(g, U \ {x})
    BY <1>2, SumRemove
  <1>5. SumFunctionOnSet(f, U \ {x}) = SumFunctionOnSet(g, U \ {x})
    BY <1>1
  <1> QED
    BY <1>1, <1>2, <1>3, <1>4, <1>5

\* A set and its complement add up.
LEMMA SumSplit ==
    ASSUME NEW f, NEW S, IsFiniteSet(S), IntegersOn(f, S), NEW T, T \subseteq S
    PROVE  SumFunctionOnSet(f, S) = SumFunctionOnSet(f, T) + SumFunctionOnSet(f, S \ T)
  <1> DEFINE Fine(U) == SumFunctionOnSet(f, S)
                          = SumFunctionOnSet(f, U) + SumFunctionOnSet(f, S \ U)
             Bad == {U \in SUBSET S : ~ Fine(U)}
  <1> SUFFICES ASSUME Bad # {} PROVE FALSE
    OBVIOUS
  <1>1. PICK U \in Bad : \A V \in Bad : V \subseteq U => V = U
    <2>1. Bad \subseteq SUBSET S
      OBVIOUS
    <2> HIDE DEF Bad
    <2> QED
      BY <2>1, MinimalSubset
  <1>2. IsFiniteSet(U) /\ U \subseteq S /\ IntegersOn(f, U)
    BY <1>1, FiniteSubsets DEF IntegersOn
  <1>3. SumFunctionOnSet(f, S) \in Int
    BY SumType
  <1>4. CASE U = {}
    <2>1. SumFunctionOnSet(f, U) = 0
      BY <1>2, <1>4, SumUnfold
    <2>2. S \ U = S
      BY <1>4
    <2> DEFINE sum == SumFunctionOnSet(f, S)
    <2>3. sum # 0 + sum
      BY <1>1, <2>1, <2>2
    <2>4. sum \in Int
      BY <1>3
    <2> HIDE DEF sum, Bad, Fine
    <2> QED
      BY <2>3, <2>4
  <1>5. CASE U # {}
    <2>1. PICK x \in U : TRUE
      BY <1>5
    <2>2. SumFunctionOnSet(f, U) = f[x] + SumFunctionOnSet(f, U \ {x})
      BY <1>2, <2>1, SumRemove
    <2> DEFINE W == S \ (U \ {x})
    <2>3. IsFiniteSet(W) /\ IntegersOn(f, W) /\ x \in W /\ W \ {x} = S \ U
      BY <1>2, <2>1, FiniteSubsets DEF IntegersOn
    <2>4. SumFunctionOnSet(f, W) = f[x] + SumFunctionOnSet(f, S \ U)
      <3> HIDE DEF W
      <3> QED
        BY <2>3, SumRemove
    <2>5. Fine(U \ {x})
      BY <1>1, <2>1
    <2>6. /\ SumFunctionOnSet(f, S \ U) \in Int /\ f[x] \in Int
          /\ SumFunctionOnSet(f, U \ {x}) \in Int
      <3>1. IsFiniteSet(S \ U) /\ IntegersOn(f, S \ U)
        BY FiniteSubsets DEF IntegersOn
      <3>2. IsFiniteSet(U \ {x}) /\ IntegersOn(f, U \ {x})
        BY <1>2, FiniteSubsets DEF IntegersOn
      <3>3. f[x] \in Int
        BY <1>2, <2>1 DEF IntegersOn
      <3> QED
        BY <3>1, <3>2, <3>3, SumType
    <2> DEFINE some == SumFunctionOnSet(f, U \ {x})
               others == SumFunctionOnSet(f, S \ U)
    <2>7. /\ SumFunctionOnSet(f, S) = some + (f[x] + others)
          /\ SumFunctionOnSet(f, S) # (f[x] + some) + others
      BY <1>1, <2>2, <2>4, <2>5
    <2>8. some \in Int /\ others \in Int /\ f[x] \in Int
      BY <2>6
    <2> HIDE DEF some, others, Bad, Fine
    <2> QED
      BY <2>7, <2>8
  <1> QED
    BY <1>4, <1>5

\* A sum may be taken over another set with as many places.
LEMMA SumReindex ==
    ASSUME NEW S, IsFiniteSet(S), NEW b, NEW f, NEW g,
           \A x, y \in S : b[x] = b[y] => x = y,
           \A x \in S : f[x] = g[b[x]] /\ f[x] \in Int
    PROVE  SumFunctionOnSet(f, S) = SumFunctionOnSet(g, {b[x] : x \in S})
  <1> DEFINE Image(U) == {b[x] : x \in U}
             Fine(U) == SumFunctionOnSet(f, U) = SumFunctionOnSet(g, Image(U))
             Bad == {U \in SUBSET S : ~ Fine(U)}
  <1> SUFFICES ASSUME Bad # {} PROVE FALSE
    OBVIOUS
  <1>1. PICK U \in Bad : \A V \in Bad : V \subseteq U => V = U
    <2>1. Bad \subseteq SUBSET S
      OBVIOUS
    <2> HIDE DEF Bad
    <2> QED
      BY <2>1, MinimalSubset
  <1>2. IsFiniteSet(U) /\ U \subseteq S
    BY <1>1, FiniteSubsets
  <1>3. IsFiniteSet(Image(U)) /\ IntegersOn(g, Image(U))
    BY <1>2, ImageFinite DEF IntegersOn
  <1>4. CASE U = {}
    <2>1. Image(U) = {}
      BY <1>4
    <2> QED
      BY <1>1, <1>2, <1>3, <1>4, <2>1, SumUnfold
  <1>5. CASE U # {}
    <2>1. PICK x \in U : SumFunctionOnSet(f, U) = f[x] + SumFunctionOnSet(f, U \ {x})
      BY <1>2, <1>5, SumUnfold
    <2>2. b[x] \in Image(U) /\ Image(U) \ {b[x]} = Image(U \ {x})
      BY <1>2, <2>1
    <2>3. SumFunctionOnSet(g, Image(U)) = g[b[x]] + SumFunctionOnSet(g, Image(U) \ {b[x]})
      <3> HIDE DEF Image
      <3> QED
        BY <1>3, <2>2, SumRemove
    <2>4. Fine(U \ {x})
      BY <1>1, <2>1
    <2>5. f[x] = g[b[x]]
      BY <1>2, <2>1
    <2> QED
      BY <1>1, <2>1, <2>2, <2>3, <2>4, <2>5
  <1> QED
    BY <1>4, <1>5

\* The sum after one value has changed.
LEMMA SumExcept ==
    ASSUME NEW f, NEW g, NEW S, IsFiniteSet(S), IntegersOn(f, S), NEW x \in S,
           g[x] \in Int, \A y \in S \ {x} : g[y] = f[y]
    PROVE  SumFunctionOnSet(g, S) = SumFunctionOnSet(f, S) - f[x] + g[x]
  <1>1. IsFiniteSet(S \ {x}) /\ IntegersOn(f, S \ {x}) /\ IntegersOn(g, S)
    BY FiniteSubsets DEF IntegersOn
  <1>2. SumFunctionOnSet(g, S \ {x}) = SumFunctionOnSet(f, S \ {x})
    BY <1>1, SumSame
  <1>3. /\ SumFunctionOnSet(f, S) = f[x] + SumFunctionOnSet(f, S \ {x})
        /\ SumFunctionOnSet(g, S) = g[x] + SumFunctionOnSet(g, S \ {x})
    BY <1>1, SumRemove
  <1>4. SumFunctionOnSet(f, S \ {x}) \in Int /\ f[x] \in Int
    BY <1>1, SumType DEF IntegersOn
  <1> QED
    BY <1>2, <1>3, <1>4

\* A sum of zeros is zero.
LEMMA SumZero ==
    ASSUME NEW f, NEW S, IsFiniteSet(S), \A x \in S : f[x] = 0
    PROVE  SumFunctionOnSet(f, S) = 0
  <1> DEFINE Bad == {U \in SUBSET S : SumFunctionOnSet(f, U) # 0}
  <1> SUFFICES ASSUME Bad # {} PROVE FALSE
    OBVIOUS
  <1>1. PICK U \in Bad : \A V \in Bad : V \subseteq U => V = U
    <2>1. Bad \subseteq SUBSET S
      OBVIOUS
    <2> HIDE DEF Bad
    <2> QED
      BY <2>1, MinimalSubset
  <1>2. IsFiniteSet(U)
    BY FiniteSubsets
  <1>3. PICK x \in U : SumFunctionOnSet(f, U) = f[x] + SumFunctionOnSet(f, U \ {x})
    BY <1>1, <1>2, SumUnfold
  <1>4. SumFunctionOnSet(f, U \ {x}) = 0 /\ f[x] = 0
    BY <1>1
  <1> QED
    BY <1>1, <1>3, <1>4
============================================================================
