----------------------------- MODULE SumTheorems -----------------------------
(***************************************************************************)
(* Sums of functions over finite sets (SumFunction of the community        *)
(* modules): what they are when an element is added, taken from either end *)
(* of a sequence or left alone.                                            *)
(*                                                                         *)
(* The sum is a recursive function over the subsets of its index set, and  *)
(* the library's induction theorems take an operator.  The induction used  *)
(* here is over sets: a set of numbers with 0 that is closed under         *)
(* successor is Nat, because its complement has no least element.          *)
(***************************************************************************)
EXTENDS Integers, Sequences, FiniteSets, Functions,
        FiniteSetTheorems, WellFoundedInduction, TLAPS

\* Induction over the natural numbers, for a set instead of a predicate.
LEMMA SetInduction ==
    ASSUME NEW P, P \subseteq Nat, 0 \in P, \A k \in P : k + 1 \in P
    PROVE  P = Nat
<1> DEFINE R == OpToRel(<, Nat)
           T == Nat \ P
<1>1. IsWellFoundedOn(R, Nat)
  BY NatLessThanWellFounded
<1> SUFFICES ASSUME T # {} PROVE FALSE
  OBVIOUS
<1>2. \E x \in T : \A y \in T : <<y, x>> \notin R
  <2> HIDE DEF R
  <2>1. T \subseteq Nat
    OBVIOUS
  <2> HIDE DEF T
  <2> QED BY <1>1, <2>1, WFMin
<1>3. PICK x \in T : \A y \in T : <<y, x>> \notin R
  BY <1>2
<1>4. x - 1 \in T /\ x - 1 < x
  OBVIOUS
<1>5. <<x - 1, x>> \in R
  BY <1>4 DEF OpToRel
<1> QED BY <1>3, <1>4, <1>5

\* g is the sum of f over each of the sets in D, as Folds defines it.
Sums(g, f, D) ==
    g = [s \in D |->
            IF s = {} THEN 0
            ELSE f[CHOOSE x \in s : TRUE] + g[s \ {CHOOSE x \in s : TRUE}]]

LEMMA SumIsChosen ==
    ASSUME NEW f, NEW S
    PROVE  SumFunctionOnSet(f, S) = (CHOOSE g : Sums(g, f, SUBSET S))[S]
BY DEF SumFunctionOnSet, FoldFunctionOnSet, MapThenFoldSet, Sums

Small(S, k) == {s \in SUBSET S : Cardinality(s) <= k}

LEMMA ChosenIsMember == \A s : s # {} => (CHOOSE x \in s : TRUE) \in s
OBVIOUS

\* Taking the chosen element out of a set leaves a smaller one.
LEMMA Shrinks ==
    ASSUME NEW S, IsFiniteSet(S), NEW s \in SUBSET S, NEW x \in s
    PROVE  /\ IsFiniteSet(s)
           /\ s \ {x} \in SUBSET S
           /\ Cardinality(s) \in Nat
           /\ Cardinality(s \ {x}) \in Nat
           /\ Cardinality(s \ {x}) = Cardinality(s) - 1
<1>1. IsFiniteSet(s)
  BY FS_Subset
<1>2. IsFiniteSet(s \ {x})
  BY <1>1, FS_RemoveElement
<1> QED BY <1>1, <1>2, FS_RemoveElement, FS_CardinalityType

\* The recursion has a solution on the sets of at most k elements, for every k.
LEMMA SumsExist ==
    ASSUME NEW f, NEW S, IsFiniteSet(S)
    PROVE  \E g : Sums(g, f, SUBSET S)
<1> DEFINE P == {k \in Nat : \E g : Sums(g, f, Small(S, k))}
<1>1. 0 \in P
  <2> DEFINE g == [s \in Small(S, 0) |-> 0]
  <2>1. ASSUME NEW s \in Small(S, 0) PROVE s = {}
    <3>1. IsFiniteSet(s) /\ Cardinality(s) \in Nat
      BY FS_Subset, FS_CardinalityType DEF Small
    <3> QED BY <3>1, FS_EmptySet DEF Small
  <2>2. Sums(g, f, Small(S, 0))
    BY <2>1 DEF Sums
  <2> HIDE DEF g
  <2> QED BY <2>2
<1>2. ASSUME NEW k \in P PROVE k + 1 \in P
  <2>0. k \in Nat
    OBVIOUS
  <2>1. PICK g : Sums(g, f, Small(S, k))
    OBVIOUS
  <2> DEFINE h == [s \in Small(S, k + 1) |->
                     IF s = {} THEN 0
                     ELSE f[CHOOSE x \in s : TRUE] + g[s \ {CHOOSE x \in s : TRUE}]]
  <2>2. ASSUME NEW s \in Small(S, k + 1), s # {}
        PROVE  s \ {CHOOSE x \in s : TRUE} \in Small(S, k)
    <3>1. (CHOOSE x \in s : TRUE) \in s
      BY <2>2, ChosenIsMember
    <3> DEFINE x == CHOOSE x \in s : TRUE
    <3> HIDE DEF x
    <3>2. x \in s
      BY <3>1 DEF x
    <3>3. s \in SUBSET S /\ Cardinality(s) <= k + 1
      BY DEF Small
    <3>4. s \ {x} \in SUBSET S /\ Cardinality(s \ {x}) <= k
      <4> HIDE DEF P
      <4> QED BY <2>0, <3>2, <3>3, Shrinks
    <3> QED BY <3>4 DEF Small, x
  <2>3. ASSUME NEW s \in Small(S, k) PROVE g[s] = h[s]
    <3>1. s \in Small(S, k + 1)
      <4>1. Cardinality(s) \in Nat
        BY FS_Subset, FS_CardinalityType DEF Small
      <4> QED BY <4>1 DEF Small
    <3> QED BY <2>1, <3>1 DEF Sums
  <2>4. Sums(h, f, Small(S, k + 1))
    <3>1. ASSUME NEW s \in Small(S, k + 1), s # {}
          PROVE  g[s \ {CHOOSE x \in s : TRUE}] = h[s \ {CHOOSE x \in s : TRUE}]
      <4> HIDE DEF h
      <4> QED BY <3>1, <2>2, <2>3
    <3>2. h = [s \in Small(S, k + 1) |->
                 IF s = {} THEN 0
                 ELSE f[CHOOSE x \in s : TRUE] + h[s \ {CHOOSE x \in s : TRUE}]]
      <4>1. ASSUME NEW s \in Small(S, k + 1)
            PROVE  (IF s = {} THEN 0
                    ELSE f[CHOOSE x \in s : TRUE] + g[s \ {CHOOSE x \in s : TRUE}])
                 = (IF s = {} THEN 0
                    ELSE f[CHOOSE x \in s : TRUE] + h[s \ {CHOOSE x \in s : TRUE}])
        <5> HIDE DEF h
        <5> QED BY <3>1, <4>1
      <4> QED BY ZenonT(40), <4>1
    <3> HIDE DEF h
    <3> QED BY <3>2 DEF Sums
  <2> HIDE DEF h
  <2> QED BY <2>4
<1>3. P = Nat
  <2> HIDE DEF P
  <2> QED BY <1>1, <1>2, SetInduction DEF P
<1>4. Cardinality(S) \in Nat
  BY FS_CardinalityType
<1>5. Small(S, Cardinality(S)) = SUBSET S
  <2> SUFFICES ASSUME NEW s \in SUBSET S PROVE Cardinality(s) <= Cardinality(S)
    BY DEF Small
  <2> HIDE DEF P
  <2> QED BY FS_Subset
<1>6. PICK g : Sums(g, f, Small(S, Cardinality(S)))
  BY <1>3, <1>4
<1> QED BY <1>5, <1>6

\* Two functions that agree on a set have the same sum over it.
LEMMA SumsAgree ==
    ASSUME NEW f, NEW g, NEW S, IsFiniteSet(S), NEW D, NEW E,
           SUBSET S \subseteq D, SUBSET S \subseteq E,
           NEW u, Sums(u, f, D), NEW v, Sums(v, g, E),
           \A x \in S : f[x] = g[x]
    PROVE  u[S] = v[S]
<1> DEFINE P == {k \in Nat : \A s \in SUBSET S : Cardinality(s) = k => u[s] = v[s]}
<1>1. 0 \in P
  <2> SUFFICES ASSUME NEW s \in SUBSET S, Cardinality(s) = 0 PROVE u[s] = v[s]
    OBVIOUS
  <2>1. s = {}
    BY FS_Subset, FS_EmptySet
  <2>2. s \in D /\ s \in E
    OBVIOUS
  <2> QED BY <2>1, <2>2 DEF Sums
<1>2. ASSUME NEW k \in P PROVE k + 1 \in P
  <2> SUFFICES ASSUME NEW s \in SUBSET S, Cardinality(s) = k + 1 PROVE u[s] = v[s]
    OBVIOUS
  <2>1. s # {}
    BY FS_EmptySet
  <2>2. s \in D /\ s \in E
    OBVIOUS
  <2> DEFINE x == CHOOSE x \in s : TRUE
  <2>3. x \in s
    BY <2>1, ChosenIsMember
  <2>4. u[s] = f[x] + u[s \ {x}] /\ v[s] = g[x] + v[s \ {x}]
    BY <2>1, <2>2 DEF Sums
  <2> HIDE DEF x
  <2>5. u[s \ {x}] = v[s \ {x}]
    BY <2>3, Shrinks
  <2> QED BY <2>3, <2>4, <2>5
<1>3. P = Nat
  <2> HIDE DEF P
  <2> QED BY <1>1, <1>2, SetInduction DEF P
<1> QED BY <1>3, FS_CardinalityType

LEMMA SumOfAgreeing ==
    ASSUME NEW S, IsFiniteSet(S), NEW f, NEW g, \A x \in S : f[x] = g[x]
    PROVE  SumFunctionOnSet(f, S) = SumFunctionOnSet(g, S)
<1>1. PICK u : u = CHOOSE h : Sums(h, f, SUBSET S)
  OBVIOUS
<1>2. PICK v : v = CHOOSE h : Sums(h, g, SUBSET S)
  OBVIOUS
<1>3. Sums(u, f, SUBSET S)
  BY <1>1, SumsExist
<1>4. Sums(v, g, SUBSET S)
  BY <1>2, SumsExist
<1>5. u[S] = v[S]
  BY <1>3, <1>4, SumsAgree
<1> QED BY <1>1, <1>2, <1>5, SumIsChosen

\* A sum is taken apart at the chosen element.
LEMMA SumUnfolds ==
    ASSUME NEW S, IsFiniteSet(S), NEW f
    PROVE  /\ S = {} => SumFunctionOnSet(f, S) = 0
           /\ S # {} => SumFunctionOnSet(f, S) =
                 f[CHOOSE x \in S : TRUE]
                   + SumFunctionOnSet(f, S \ {CHOOSE x \in S : TRUE})
<1>1. PICK u : u = CHOOSE h : Sums(h, f, SUBSET S)
  OBVIOUS
<1>2. Sums(u, f, SUBSET S) /\ SumFunctionOnSet(f, S) = u[S]
  BY <1>1, SumsExist, SumIsChosen
<1>3. CASE S = {}
  BY <1>2, <1>3 DEF Sums
<1>4. CASE S # {}
  <2> DEFINE x == CHOOSE x \in S : TRUE
  <2>1. x \in S
    BY <1>4, ChosenIsMember
  <2>2. u[S] = f[x] + u[S \ {x}]
    BY <1>2, <1>4 DEF Sums
  <2> HIDE DEF x
  <2>3. IsFiniteSet(S \ {x})
    BY FS_RemoveElement
  <2>4. PICK v : v = CHOOSE h : Sums(h, f, SUBSET (S \ {x}))
    OBVIOUS
  <2>5. Sums(v, f, SUBSET (S \ {x})) /\ SumFunctionOnSet(f, S \ {x}) = v[S \ {x}]
    BY <2>3, <2>4, SumsExist, SumIsChosen
  <2>6. u[S \ {x}] = v[S \ {x}]
    <3>1. PICK T : T = S \ {x}
      OBVIOUS
    <3>2. SUBSET T \subseteq SUBSET S /\ SUBSET T \subseteq SUBSET T
      BY <3>1
    <3>3. IsFiniteSet(T) /\ Sums(u, f, SUBSET S) /\ Sums(v, f, SUBSET T)
      BY <1>2, <2>3, <2>5, <3>1
    <3>4. u[T] = v[T]
      <4>1. PICK D, E : D = SUBSET S /\ E = SUBSET T
        OBVIOUS
      <4>2. PICK g : g = f
        OBVIOUS
      <4>3. SUBSET T \subseteq D /\ SUBSET T \subseteq E
        BY <3>2, <4>1
      <4>4. Sums(u, f, D) /\ Sums(v, g, E)
        BY <3>3, <4>1, <4>2
      <4>5. \A y \in T : f[y] = g[y]
        BY <4>2
      <4>6. IsFiniteSet(T)
        BY <3>3
      <4> QED BY <4>3, <4>4, <4>5, <4>6, SumsAgree
    <3> QED BY <3>1, <3>4
  <2> QED BY <1>2, <1>4, <2>2, <2>5, <2>6 DEF x
<1> QED BY <1>3, <1>4

LEMMA SumIsNumber ==
    ASSUME NEW S, IsFiniteSet(S), NEW Number, Number \in {Nat, Int},
           NEW f, \A x \in S : f[x] \in Number
    PROVE  SumFunctionOnSet(f, S) \in Number
<1> DEFINE P == {k \in Nat : \A s \in SUBSET S :
                   Cardinality(s) = k => SumFunctionOnSet(f, s) \in Number}
<1>1. 0 \in P
  <2> SUFFICES ASSUME NEW s \in SUBSET S, Cardinality(s) = 0
               PROVE  SumFunctionOnSet(f, s) \in Number
    OBVIOUS
  <2>1. IsFiniteSet(s) /\ s = {}
    BY FS_Subset, FS_EmptySet
  <2> HIDE DEF P
  <2>2. SumFunctionOnSet(f, s) = 0
    BY <2>1, SumUnfolds
  <2> QED BY <2>2
<1>2. ASSUME NEW k \in P PROVE k + 1 \in P
  <2>0. k \in Nat
    OBVIOUS
  <2> SUFFICES ASSUME NEW s \in SUBSET S, Cardinality(s) = k + 1
               PROVE  SumFunctionOnSet(f, s) \in Number
    OBVIOUS
  <2> DEFINE x == CHOOSE x \in s : TRUE
  <2>1. IsFiniteSet(s) /\ s # {}
    BY <2>0, FS_Subset, FS_EmptySet
  <2>2. x \in s
    BY <2>1, ChosenIsMember
  <2>3. SumFunctionOnSet(f, s) = f[x] + SumFunctionOnSet(f, s \ {x})
    BY <2>1, SumUnfolds
  <2> HIDE DEF x
  <2>4. s \ {x} \in SUBSET S /\ Cardinality(s \ {x}) = k
    <3> HIDE DEF P
    <3> QED BY <2>0, <2>2, Shrinks
  <2> QED BY <2>2, <2>3, <2>4
<1>3. P = Nat
  <2> HIDE DEF P
  <2> QED BY <1>1, <1>2, SetInduction DEF P
<1> QED BY <1>3, FS_CardinalityType

LEMMA SumIsInt ==
    ASSUME NEW S, IsFiniteSet(S), NEW f, \A x \in S : f[x] \in Int
    PROVE  SumFunctionOnSet(f, S) \in Int
BY SumIsNumber

LEMMA SumIsNat ==
    ASSUME NEW S, IsFiniteSet(S), NEW f, \A x \in S : f[x] \in Nat
    PROVE  SumFunctionOnSet(f, S) \in Nat
BY SumIsNumber

\* ... and at any other element as well.
LEMMA SumWithout ==
    ASSUME NEW S, IsFiniteSet(S), NEW f, \A x \in S : f[x] \in Int, NEW y \in S
    PROVE  SumFunctionOnSet(f, S) = f[y] + SumFunctionOnSet(f, S \ {y})
<1> DEFINE Sum(s) == SumFunctionOnSet(f, s)
           P == {k \in Nat : \A s \in SUBSET S : Cardinality(s) = k =>
                   \A z \in s : Sum(s) = f[z] + Sum(s \ {z})}
<1>0. ASSUME NEW s \in SUBSET S PROVE Sum(s) \in Int
  BY SumIsInt, FS_Subset
<1>1. 0 \in P
  <2> SUFFICES ASSUME NEW s \in SUBSET S, Cardinality(s) = 0 PROVE s = {}
    OBVIOUS
  <2> QED BY FS_Subset, FS_EmptySet
<1>2. ASSUME NEW k \in P PROVE k + 1 \in P
  <2>0. k \in Nat
    OBVIOUS
  <2> SUFFICES ASSUME NEW s \in SUBSET S, Cardinality(s) = k + 1, NEW z \in s
               PROVE  Sum(s) = f[z] + Sum(s \ {z})
    OBVIOUS
  <2> DEFINE x == CHOOSE x \in s : TRUE
  <2>1. IsFiniteSet(s) /\ s # {}
    BY FS_Subset
  <2>2. x \in s
    BY <2>1, ChosenIsMember
  <2>3. Sum(s) = f[x] + Sum(s \ {x})
    BY <2>1, SumUnfolds
  <2> HIDE DEF x
  <2>4. ASSUME NEW w \in s
        PROVE  s \ {w} \in SUBSET S /\ Cardinality(s \ {w}) = k
    <3> HIDE DEF P
    <3> QED BY <2>0, Shrinks
  <2>5. CASE x # z
    <3>1. Sum(s \ {x}) = f[z] + Sum((s \ {x}) \ {z})
      <4>1. z \in s \ {x}
        BY <2>5
      <4> HIDE DEF Sum
      <4> QED BY <2>2, <2>4, <4>1
    <3>2. Sum(s \ {z}) = f[x] + Sum((s \ {z}) \ {x})
      <4>1. x \in s \ {z}
        BY <2>2, <2>5
      <4> HIDE DEF Sum
      <4> QED BY <2>4, <4>1
    <3>3. PICK t : t = (s \ {x}) \ {z}
      OBVIOUS
    <3>4. t = (s \ {z}) \ {x}
      BY <3>3
    <3>5. Sum(t) \in Int /\ f[x] \in Int /\ f[z] \in Int
      BY <1>0, <2>2, <3>3
    <3> HIDE DEF Sum, P
    <3>6. Sum(s \ {x}) = f[z] + Sum(t)
      BY <3>1, <3>3, Zenon
    <3>7. Sum(s \ {z}) = f[x] + Sum(t)
      BY <3>2, <3>4, Zenon
    <3> QED BY <2>3, <3>5, <3>6, <3>7
  <2>6. CASE x = z
    BY <2>3, <2>6
  <2> QED BY <2>5, <2>6
<1>3. P = Nat
  <2> HIDE DEF P
  <2> QED BY <1>1, <1>2, SetInduction DEF P
<1>4. Cardinality(S) \in P
  BY <1>3, FS_CardinalityType
<1> QED BY <1>4

-----------------------------------------------------------------------------
\* A sequence of numbers: its sum and what an element at either end adds.

LEMMA SumOfNone == ASSUME NEW f, DOMAIN f = {} PROVE SumFunction(f) = 0
BY SumUnfolds, FS_EmptySet DEF SumFunction

LEMMA SumWithLast ==
    ASSUME NEW n \in Nat, NEW f, DOMAIN f = 1 .. n + 1,
           \A i \in 1 .. n + 1 : f[i] \in Int,
           NEW g, DOMAIN g = 1 .. n, \A i \in 1 .. n : g[i] = f[i]
    PROVE  /\ SumFunction(g) \in Int
           /\ SumFunction(f) = SumFunction(g) + f[n + 1]
<1>1. IsFiniteSet(1 .. n) /\ IsFiniteSet(1 .. n + 1)
  BY FS_Interval
<1>2. PICK S : S = 1 .. n + 1
  OBVIOUS
<1>3. SumFunctionOnSet(f, S) = f[n + 1] + SumFunctionOnSet(f, S \ {n + 1})
  <2>1. IsFiniteSet(S) /\ n + 1 \in S /\ \A i \in S : f[i] \in Int
    BY <1>1, <1>2
  <2> QED BY <2>1, SumWithout
<1>4. PICK T : T = 1 .. n
  OBVIOUS
<1>5. S \ {n + 1} = T
  BY <1>2, <1>4
<1>6. SumFunctionOnSet(f, T) = SumFunctionOnSet(g, T)
  <2>1. IsFiniteSet(T) /\ \A i \in T : f[i] = g[i]
    BY <1>1, <1>4
  <2> QED BY <2>1, SumOfAgreeing
<1>7. SumFunctionOnSet(g, T) \in Int
  <2>1. IsFiniteSet(T) /\ \A i \in T : g[i] \in Int
    BY <1>1, <1>4
  <2> QED BY <2>1, SumIsInt
<1>8. SumFunction(f) = SumFunctionOnSet(f, S) /\ SumFunction(g) = SumFunctionOnSet(g, T)
  BY <1>2, <1>4 DEF SumFunction
<1>9. SumFunctionOnSet(f, S) = f[n + 1] + SumFunctionOnSet(f, T)
  BY <1>3, <1>5, Zenon
<1>10. f[n + 1] \in Int
  OBVIOUS
<1> QED BY <1>6, <1>7, <1>8, <1>9, <1>10

LEMMA SumShifts ==
    ASSUME NEW n \in Nat, NEW f, \A i \in 2 .. n + 1 : f[i] \in Int,
           NEW g, \A i \in 1 .. n : g[i] = f[i + 1]
    PROVE  SumFunctionOnSet(g, 1 .. n) = SumFunctionOnSet(f, 2 .. n + 1)
<1> DEFINE P == {k \in Nat : k <= n =>
                   SumFunctionOnSet(g, 1 .. k) = SumFunctionOnSet(f, 2 .. k + 1)}
<1>1. 0 \in P
  <2>1. PICK s, t : s = 1 .. 0 /\ t = 2 .. 0 + 1
    OBVIOUS
  <2>2. s = {} /\ t = {}
    BY <2>1
  <2>3. SumFunctionOnSet(g, s) = 0 /\ SumFunctionOnSet(f, t) = 0
    <3> HIDE DEF P
    <3> QED BY <2>2, SumUnfolds, FS_EmptySet
  <2> QED BY <2>1, <2>3
<1>2. ASSUME NEW k \in P PROVE k + 1 \in P
  <2> SUFFICES ASSUME k + 1 <= n
               PROVE  SumFunctionOnSet(g, 1 .. k + 1) = SumFunctionOnSet(f, 2 .. k + 1 + 1)
    OBVIOUS
  <2>0. k \in Nat
    OBVIOUS
  <2>1. PICK s, t, u, v : /\ s = 1 .. k /\ t = 2 .. k + 1
                          /\ u = 1 .. k + 1 /\ v = 2 .. k + 1 + 1
    OBVIOUS
  <2>2. SumFunctionOnSet(g, s) = SumFunctionOnSet(f, t)
    BY <2>0, <2>1
  <2> HIDE DEF P
  <2>3. IsFiniteSet(u) /\ IsFiniteSet(v)
    BY <2>0, <2>1, FS_Interval
  <2>4. u \ {k + 1} = s /\ v \ {k + 1 + 1} = t
    BY <2>0, <2>1
  <2>5. k + 1 \in u /\ k + 1 + 1 \in v
    BY <2>0, <2>1
  <2>6. (\A i \in u : g[i] \in Int) /\ (\A i \in v : f[i] \in Int)
    BY SMTT(30), <2>0, <2>1
  <2>7. SumFunctionOnSet(g, u) = g[k + 1] + SumFunctionOnSet(g, u \ {k + 1})
    BY <2>3, <2>5, <2>6, SumWithout
  <2>8. SumFunctionOnSet(f, v) = f[k + 1 + 1] + SumFunctionOnSet(f, v \ {k + 1 + 1})
    BY <2>3, <2>5, <2>6, SumWithout
  <2>9. g[k + 1] = f[k + 1 + 1]
    BY <2>0
  <2>10. SumFunctionOnSet(g, u) = g[k + 1] + SumFunctionOnSet(g, s)
    BY <2>4, <2>7, Zenon
  <2>11. SumFunctionOnSet(f, v) = f[k + 1 + 1] + SumFunctionOnSet(f, t)
    BY <2>4, <2>8, Zenon
  <2>12. SumFunctionOnSet(g, u) = SumFunctionOnSet(f, v)
    BY <2>2, <2>9, <2>10, <2>11, Zenon
  <2> QED BY <2>1, <2>12, Zenon
<1>3. P = Nat
  <2> HIDE DEF P
  <2> QED BY <1>1, <1>2, SetInduction DEF P
<1> QED BY <1>3

LEMMA SumWithFirst ==
    ASSUME NEW n \in Nat, NEW f, DOMAIN f = 1 .. n + 1,
           \A i \in 1 .. n + 1 : f[i] \in Int,
           NEW g, DOMAIN g = 1 .. n, \A i \in 1 .. n : g[i] = f[i + 1]
    PROVE  /\ SumFunction(g) \in Int
           /\ SumFunction(f) = f[1] + SumFunction(g)
<1>1. PICK S, T, U : S = 1 .. n + 1 /\ T = 2 .. n + 1 /\ U = 1 .. n
  OBVIOUS
<1>2. IsFiniteSet(S) /\ IsFiniteSet(U)
  BY <1>1, FS_Interval
<1>3. 1 \in S /\ (\A i \in S : f[i] \in Int) /\ (\A i \in U : g[i] \in Int)
  BY <1>1
<1>4. SumFunctionOnSet(f, S) = f[1] + SumFunctionOnSet(f, S \ {1})
  BY <1>2, <1>3, SumWithout
<1>5. S \ {1} = T
  BY <1>1
<1>6. SumFunctionOnSet(g, U) = SumFunctionOnSet(f, T)
  <2>1. (\A i \in 2 .. n + 1 : f[i] \in Int) /\ \A i \in 1 .. n : g[i] = f[i + 1]
    OBVIOUS
  <2> QED BY <1>1, <2>1, SumShifts
<1>7. SumFunctionOnSet(g, U) \in Int
  BY <1>2, <1>3, SumIsInt
<1>8. SumFunction(f) = SumFunctionOnSet(f, S) /\ SumFunction(g) = SumFunctionOnSet(g, U)
  BY <1>1 DEF SumFunction
<1>9. SumFunctionOnSet(f, S) = f[1] + SumFunctionOnSet(f, T)
  BY <1>4, <1>5, Zenon
<1> QED BY <1>6, <1>7, <1>8, <1>9
=============================================================================
