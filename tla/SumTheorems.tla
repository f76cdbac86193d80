------------------------------ MODULE SumTheorems ------------------------------
(***************************************************************************)
(* What a sum over a finite set is.  SumFunctionOnSet folds over the set   *)
(* in an order it does not tell; the lemmas below say that the result      *)
(* depends on the summands only and how it changes with one of them.       *)
(*                                                                         *)
(* The fold is a recursive function on subsets.  The number of units of    *)
(* the summands, counted one by one, solves its equation, and two          *)
(* solutions agree: a smallest subset on which they differ cannot exist.   *)
(***************************************************************************)
EXTENDS Integers, FiniteSets, Functions, FiniteSetTheorems, TLAPS

Units(f, S) == UNION { {x} \X (1..f[x]) : x \in S }

\* Finitely many natural numbers have finitely many units.
LEMMA UnitsFinite ==
  ASSUME NEW S, IsFiniteSet(S), NEW f, \A x \in S : f[x] \in Nat
  PROVE  IsFiniteSet(Units(f, S)) /\ Cardinality(Units(f, S)) \in Nat
<1> DEFINE U == { {x} \X (1..f[x]) : x \in S }
<1>1. IsFiniteSet(U)
  <2> DEFINE g == [x \in S |-> {x} \X (1..f[x])]
  <2>1. g \in Surjection(S, U) BY DEF Surjection
  <2> HIDE DEF g
  <2> QED BY <2>1, FS_Surjection
<1>2. ASSUME NEW u \in U PROVE IsFiniteSet(u)
  <2>1. PICK x \in S : u = {x} \X (1..f[x]) OBVIOUS
  <2>2. IsFiniteSet({x}) BY FS_Singleton
  <2>3. IsFiniteSet(1..f[x]) BY FS_Interval
  <2> QED BY <2>1, <2>2, <2>3, FS_Product
<1>3. IsFiniteSet(UNION U)
  <2> HIDE DEF U
  <2> QED BY <1>1, <1>2, FS_UNION
<1> QED BY <1>3, FS_CardinalityType DEF Units

\* Units are counted summand by summand.
LEMMA UnitsRemove ==
  ASSUME NEW S, IsFiniteSet(S), NEW f, \A x \in S : f[x] \in Nat, NEW x \in S
  PROVE  Cardinality(Units(f, S)) = f[x] + Cardinality(Units(f, S \ {x}))
<1> DEFINE A == {x} \X (1..f[x])
           R == Units(f, S \ {x})
<1>1. IsFiniteSet(A) /\ Cardinality(A) = f[x]
  <2>1. IsFiniteSet({x}) /\ Cardinality({x}) = 1 BY FS_Singleton
  <2>2. IsFiniteSet(1..f[x]) /\ Cardinality(1..f[x]) = f[x] BY FS_Interval
  <2> QED BY <2>1, <2>2, FS_Product
<1>2. IsFiniteSet(S \ {x}) BY FS_RemoveElement
<1>3. IsFiniteSet(R) /\ Cardinality(R) \in Nat BY <1>2, UnitsFinite
<1>4. Units(f, S) = A \cup R BY DEF Units
<1>5. A \cap R = {} BY DEF Units
<1> HIDE DEF A, R
<1>6. Cardinality(A \cup R) = Cardinality(A) + Cardinality(R) - Cardinality(A \cap R)
  BY <1>1, <1>3, FS_Union
<1>7. Cardinality(A \cap R) = 0 BY <1>5, FS_EmptySet
<1>8. f[x] \in Nat OBVIOUS
<1>9. Cardinality(A \cup R) = f[x] + Cardinality(R) BY <1>1, <1>3, <1>6, <1>7, <1>8
<1> QED BY <1>4, <1>9 DEF R

\* Nothing has no units.
LEMMA UnitsEmpty == ASSUME NEW f PROVE Cardinality(Units(f, {})) = 0
<1>1. Units(f, {}) = {} BY DEF Units
<1> QED BY <1>1, FS_EmptySet

\* A sum of natural numbers is the number of their units.
LEMMA SumIsUnits ==
  ASSUME NEW S, IsFiniteSet(S), NEW f, \A x \in S : f[x] \in Nat
  PROVE  SumFunctionOnSet(f, S) = Cardinality(Units(f, S))
<1> DEFINE c(s) == CHOOSE x \in s : TRUE
           Solves(g) == g = [s \in SUBSET S |->
                              IF s = {} THEN 0 ELSE f[c(s)] + g[s \ {c(s)}]]
           w == [s \in SUBSET S |-> Cardinality(Units(f, s))]
           g == CHOOSE h : Solves(h)
<1>1. SumFunctionOnSet(f, S) = g[S]
  BY DEF SumFunctionOnSet, FoldFunctionOnSet, MapThenFoldSet
<1>2. \A s \in SUBSET S : IsFiniteSet(s) /\ \A x \in s : f[x] \in Nat BY FS_Subset
<1>3. \A s \in SUBSET S : s # {} => c(s) \in s /\ s \ {c(s)} \in SUBSET S OBVIOUS
<1> HIDE DEF c
<1>4. ASSUME NEW s \in SUBSET S
      PROVE  w[s] = IF s = {} THEN 0 ELSE f[c(s)] + w[s \ {c(s)}]
  <2>1. CASE s = {} BY <2>1, UnitsEmpty
  <2>2. CASE s # {}
    <3>1. c(s) \in s /\ s \ {c(s)} \in SUBSET S BY <1>3, <2>2
    <3>2. Cardinality(Units(f, s)) = f[c(s)] + Cardinality(Units(f, s \ {c(s)}))
      BY <1>2, <3>1, UnitsRemove
    <3> QED BY <2>2, <3>1, <3>2
  <2> QED BY <2>1, <2>2
<1>5. Solves(w)
  <2>1. w = [s \in SUBSET S |-> w[s]] OBVIOUS
  <2> HIDE DEF w
  <2> QED BY <1>4, <2>1
<1>6. Solves(g) BY <1>5
<1>7. ASSUME NEW s \in SUBSET S
      PROVE  g[s] = IF s = {} THEN 0 ELSE f[c(s)] + g[s \ {c(s)}]
  <2> HIDE DEF g
  <2> QED BY <1>6
<1> HIDE DEF g, w, Solves
<1> DEFINE T == { s \in SUBSET S : g[s] # w[s] }
<1>8. T = {}
  <2> SUFFICES ASSUME T # {} PROVE FALSE OBVIOUS
  <2>1. IsWellFoundedOn(StrictSubsetOrdering(S), SUBSET S)
    BY FS_StrictSubsetOrderingWellFounded, FS_FiniteSubsetsOfFinite
  <2>2. T \subseteq SUBSET S OBVIOUS
  <2> HIDE DEF T
  <2>3. PICK s \in T : \A t \in T : ~(<<t, s>> \in StrictSubsetOrdering(S))
    BY <2>1, <2>2, WFMin
  <2>4. s \in SUBSET S /\ g[s] # w[s] BY <2>3 DEF T
  <2>5. s # {} BY <1>4, <1>7, <2>4
  <2> DEFINE r == s \ {c(s)}
  <2>6. c(s) \in s /\ r \in SUBSET S BY <1>3, <2>4, <2>5
  <2>7. <<r, s>> \in StrictSubsetOrdering(S)
    BY <2>4, <2>6 DEF StrictSubsetOrdering
  <2>8. g[r] = w[r] BY <2>3, <2>6, <2>7 DEF T
  <2> QED BY <1>4, <1>7, <2>4, <2>5, <2>8
<1>9. S \in SUBSET S OBVIOUS
<1>10. g[S] = w[S] BY <1>8, <1>9
<1> QED BY <1>1, <1>9, <1>10 DEF w

-----------------------------------------------------------------------------
(* Sums.                                                                   *)

\* The sum of natural numbers is one.
LEMMA SumNat ==
  ASSUME NEW S, IsFiniteSet(S), NEW f, \A x \in S : f[x] \in Nat
  PROVE  SumFunctionOnSet(f, S) \in Nat
BY SumIsUnits, UnitsFinite

\* The empty sum.
LEMMA SumEmpty == ASSUME NEW f PROVE SumFunctionOnSet(f, {}) = 0
<1>1. \A x \in {} : f[x] \in Nat OBVIOUS
<1> QED BY <1>1, SumIsUnits, UnitsEmpty, FS_EmptySet

\* Zeros sum to zero.
LEMMA SumZero ==
  ASSUME NEW S, IsFiniteSet(S), NEW f, \A x \in S : f[x] = 0
  PROVE  SumFunctionOnSet(f, S) = 0
<1>1. \A x \in S : f[x] \in Nat OBVIOUS
<1>2. Units(f, S) = {} BY DEF Units
<1> QED BY <1>1, <1>2, SumIsUnits, FS_EmptySet

\* Equal summands have equal sums.
LEMMA SumSame ==
  ASSUME NEW S, IsFiniteSet(S), NEW f, NEW g,
         \A x \in S : f[x] \in Nat /\ g[x] = f[x]
  PROVE  SumFunctionOnSet(g, S) = SumFunctionOnSet(f, S)
<1>1. Units(g, S) = Units(f, S) BY DEF Units
<1>2. \A x \in S : f[x] \in Nat /\ g[x] \in Nat OBVIOUS
<1> QED BY <1>1, <1>2, SumIsUnits

\* One summand can be taken out.
LEMMA SumRemove ==
  ASSUME NEW S, IsFiniteSet(S), NEW f, \A x \in S : f[x] \in Nat, NEW x \in S
  PROVE  SumFunctionOnSet(f, S) = f[x] + SumFunctionOnSet(f, S \ {x})
<1>1. IsFiniteSet(S \ {x}) BY FS_RemoveElement
<1> QED BY <1>1, SumIsUnits, UnitsRemove

\* A sum changes by what one summand changes.
LEMMA SumUpdate ==
  ASSUME NEW S, IsFiniteSet(S), NEW f, NEW g, NEW x \in S,
         \A y \in S : f[y] \in Nat /\ g[y] \in Nat,
         \A y \in S : y # x => g[y] = f[y]
  PROVE  SumFunctionOnSet(g, S) = SumFunctionOnSet(f, S) - f[x] + g[x]
<1> DEFINE R == S \ {x}
<1>1. IsFiniteSet(R) BY FS_RemoveElement
<1>2. SumFunctionOnSet(g, R) = SumFunctionOnSet(f, R) BY <1>1, SumSame
<1>3. SumFunctionOnSet(f, S) = f[x] + SumFunctionOnSet(f, R) BY SumRemove
<1>4. SumFunctionOnSet(g, S) = g[x] + SumFunctionOnSet(g, R) BY SumRemove
<1>5. SumFunctionOnSet(f, R) \in Nat BY <1>1, SumNat
<1>6. f[x] \in Nat /\ g[x] \in Nat OBVIOUS
<1> HIDE DEF R
<1> QED BY <1>2, <1>3, <1>4, <1>5, <1>6

-----------------------------------------------------------------------------
(* The same for SumFunction, the sum of all values of a function.          *)

\* The sum of a function's values is a natural number if they are.
LEMMA FunctionSumNat ==
  ASSUME NEW S, IsFiniteSet(S), NEW f \in [S -> Nat] PROVE SumFunction(f) \in Nat
<1>1. DOMAIN f = S /\ \A x \in S : f[x] \in Nat OBVIOUS
<1> QED BY <1>1, SumNat DEF SumFunction

\* A function that is zero everywhere sums to zero.
LEMMA FunctionSumZero ==
  ASSUME NEW S, IsFiniteSet(S), NEW f \in [S -> Nat], \A x \in S : f[x] = 0
  PROVE  SumFunction(f) = 0
<1>1. DOMAIN f = S /\ \A x \in S : f[x] \in Nat OBVIOUS
<1>2. Units(f, S) = {} BY DEF Units
<1> QED BY <1>1, <1>2, SumIsUnits, FS_EmptySet DEF SumFunction

\* If one value changes, the sum changes by as much.
LEMMA FunctionSumUpdate ==
  ASSUME NEW S, IsFiniteSet(S), NEW f \in [S -> Nat], NEW g \in [S -> Nat],
         NEW x \in S, \A y \in S : y # x => g[y] = f[y]
  PROVE  SumFunction(g) = SumFunction(f) - f[x] + g[x]
<1>1. DOMAIN f = S /\ DOMAIN g = S /\ \A y \in S : f[y] \in Nat /\ g[y] \in Nat
  OBVIOUS
<1> QED BY <1>1, SumUpdate DEF SumFunction

\* Moving an amount from one place to another keeps the sum.
LEMMA FunctionSumMove ==
  ASSUME NEW S, IsFiniteSet(S), NEW f \in [S -> Nat], NEW g \in [S -> Nat],
         NEW x \in S, NEW y \in S, x # y, NEW n \in Nat,
         g[x] = f[x] - n, g[y] = f[y] + n,
         \A z \in S : z # x /\ z # y => g[z] = f[z]
  PROVE  SumFunction(g) = SumFunction(f)
<1> DEFINE m == [f EXCEPT ![x] = g[x]]
<1>1. m \in [S -> Nat] /\ m[x] = g[x] /\ \A z \in S : z # x => m[z] = f[z] OBVIOUS
<1> HIDE DEF m
<1>2. SumFunction(m) = SumFunction(f) - f[x] + g[x] BY <1>1, FunctionSumUpdate
<1>3. \A z \in S : z # y => g[z] = m[z] BY <1>1
<1>4. SumFunction(g) = SumFunction(m) - m[y] + g[y] BY <1>1, <1>3, FunctionSumUpdate
<1>5. m[y] = f[y] BY <1>1
<1>6. SumFunction(f) \in Nat /\ f[x] \in Nat /\ f[y] \in Nat BY FunctionSumNat
<1> QED BY <1>2, <1>4, <1>5, <1>6
=============================================================================
