---------------------------- MODULE SumTheorems ----------------------------
(***************************************************************************)
(* What SumFunctionOnSet (module Functions) computes: the money of the     *)
(* other modules is a sum over the allocations of a payment, over the      *)
(* payments of a loan, over disbursements.  The sum is defined by recursion*)
(* on a finite set whose elements CHOOSE takes in some order; here it is   *)
(* shown to have a solution, one only, and not to depend on the order.     *)
(*                                                                         *)
(* The library states induction with an operator as a parameter, which the *)
(* provers cannot instantiate.  Every induction here is instead the least  *)
(* counterexample of a set of natural numbers (LeastNatural).              *)
(***************************************************************************)
EXTENDS Integers, FiniteSets, Functions, FiniteSetTheorems, WellFoundedInduction, TLAPS

\* the element the fold takes first, and the equation of the fold
Taken(s) == CHOOSE x \in s : TRUE
SumStep(g, f, s) == IF s = {} THEN 0 ELSE f[Taken(s)] + g[s \ {Taken(s)}]
SolvesSum(g, f, D) == g = [s \in D |-> SumStep(g, f, s)]
IsSum(g, f, S) == \A s \in SUBSET S : g[s] = SumStep(g, f, s)
SubsetsUpTo(S, n) == {t \in SUBSET S : Cardinality(t) <= n}

(* A nonempty set of natural numbers has a least element: induction in the  *)
(* form the provers can use, without an operator as a parameter.            *)
LEMMA LeastNatural ==
  ASSUME NEW T, T \subseteq Nat, T # {}
  PROVE  \E n \in T : \A m \in T : n <= m
<1>1. PICK n \in T : \A m \in T : ~ (<<m, n>> \in OpToRel(<, Nat))
  BY NatLessThanWellFounded, WFMin
<1>2. \A m \in T : ~ (m < n) BY <1>1 DEF OpToRel
<1> QED BY <1>2

(* Induction on finite sets: of any collection of them, one has no element   *)
(* whose removal stays in the collection.                                   *)
LEMMA SmallestSet ==
  ASSUME NEW Bad, Bad # {}, \A s \in Bad : IsFiniteSet(s)
  PROVE  \E s \in Bad : \A x \in s : s \ {x} \notin Bad
<1> DEFINE Sizes == {Cardinality(s) : s \in Bad}
<1>1. Sizes \subseteq Nat /\ Sizes # {} BY FS_CardinalityType
<1> HIDE DEF Sizes
<1>2. PICK n \in Sizes : \A m \in Sizes : n <= m BY <1>1, LeastNatural
<1>3. PICK s \in Bad : Cardinality(s) = n BY <1>2 DEF Sizes
<1>4. ASSUME NEW x \in s, s \ {x} \in Bad PROVE FALSE
  <2>1. Cardinality(s \ {x}) \in Sizes BY <1>4 DEF Sizes
  <2>2. Cardinality(s \ {x}) = n - 1 BY <1>3, FS_RemoveElement
  <2> QED BY <2>1, <2>2, <1>1, <1>2
<1> QED BY <1>4

(* What is left of a set after an element is taken.                          *)
LEMMA RestSmaller ==
  ASSUME NEW s, IsFiniteSet(s), s # {}
  PROVE  /\ Taken(s) \in s /\ IsFiniteSet(s \ {Taken(s)})
         /\ Cardinality(s) \in Nat /\ Cardinality(s \ {Taken(s)}) = Cardinality(s) - 1
<1>1. Taken(s) \in s BY DEF Taken
<1> QED BY <1>1, FS_RemoveElement, FS_CardinalityType

(* The equation has a solution on the subsets of up to n elements.          *)
LEMMA SolutionUpTo ==
  ASSUME NEW f, NEW S, IsFiniteSet(S)
  PROVE  \A n \in Nat : \E h : SolvesSum(h, f, SubsetsUpTo(S, n))
<1> DEFINE Dom(n) == {t \in SUBSET S : Cardinality(t) <= n}
           Good(n) == \E h : h = [s \in Dom(n) |-> SumStep(h, f, s)]
           Bad == {n \in Nat : ~Good(n)}
<1>f. \A t \in SUBSET S : IsFiniteSet(t) /\ Cardinality(t) \in Nat
  BY FS_Subset, FS_CardinalityType
<1>1. Good(0)
  <2>1. \A t \in Dom(0) : t = {}
    BY <1>f, FS_EmptySet
  <2> DEFINE h == [s \in Dom(0) |-> 0]
  <2>2. h = [s \in Dom(0) |-> SumStep(h, f, s)]
    BY <2>1 DEF SumStep
  <2> QED BY <2>2
<1>2. ASSUME NEW n \in Nat, Good(n) PROVE Good(n + 1)
  <2>1. PICK h : h = [s \in Dom(n) |-> SumStep(h, f, s)] BY <1>2
  <2> DEFINE g == [s \in Dom(n + 1) |-> SumStep(h, f, s)]
  <2>2. Dom(n) \subseteq Dom(n + 1) BY <1>f
  <2>3. \A s \in Dom(n) : g[s] = h[s] BY <2>1, <2>2
  <2>4. ASSUME NEW s \in Dom(n + 1) PROVE g[s] = SumStep(g, f, s)
    <3>1. CASE s = {} BY <3>1 DEF SumStep
    <3>2. CASE s # {}
      <4>1. s \ {Taken(s)} \in Dom(n) BY <3>2, <1>f, RestSmaller
      <4> QED BY <4>1, <2>3 DEF SumStep
    <3> QED BY <3>1, <3>2
  <2>5. g = [s \in Dom(n + 1) |-> SumStep(g, f, s)] BY <2>4
  <2> QED BY <2>5
<1> HIDE DEF Good
<1>3. Bad = {}
  <2> SUFFICES ASSUME Bad # {} PROVE FALSE OBVIOUS
  <2>1. PICK n \in Bad : \A m \in Bad : n <= m BY LeastNatural
  <2>2. n # 0 BY <1>1
  <2>3. n - 1 \in Nat /\ n - 1 \notin Bad BY <2>1, <2>2
  <2>4. Good(n) BY <2>3, <1>2
  <2> QED BY <2>4
<1>4. \A n \in Nat : Good(n) BY <1>3
<1>5. ASSUME NEW n \in Nat PROVE \E h : SolvesSum(h, f, SubsetsUpTo(S, n))
  <2>1. PICK h : h = [s \in Dom(n) |-> SumStep(h, f, s)] BY <1>4 DEF Good
  <2> QED BY <2>1 DEF SolvesSum, SubsetsUpTo
<1> QED BY <1>5

(* It has one solution only.                                                *)
LEMMA SolutionUnique ==
  ASSUME NEW f, NEW S, IsFiniteSet(S), NEW g, NEW h, IsSum(g, f, S), IsSum(h, f, S)
  PROVE  \A s \in SUBSET S : g[s] = h[s]
<1> DEFINE Differ == {s \in SUBSET S : g[s] # h[s]}
<1> SUFFICES ASSUME Differ # {} PROVE FALSE OBVIOUS
<1>f. \A t \in SUBSET S : IsFiniteSet(t) /\ Cardinality(t) \in Nat
  BY FS_Subset, FS_CardinalityType
<1>2. Differ \subseteq SUBSET S OBVIOUS
<1> HIDE DEF Differ
<1>3. PICK s \in Differ : \A x \in s : s \ {x} \notin Differ BY <1>2, <1>f, SmallestSet
<1> USE DEF Differ
<1>0. \A t \in SUBSET S : g[t] = SumStep(g, f, t) /\ h[t] = SumStep(h, f, t)
  BY DEF IsSum
<1>4. s # {} BY <1>0, <1>3 DEF SumStep
<1>5. Taken(s) \in s /\ s \ {Taken(s)} \in SUBSET S
  BY <1>3, <1>4, <1>f, RestSmaller
<1>6. s \ {Taken(s)} \notin Differ BY <1>3, <1>5
<1>7. g[s \ {Taken(s)}] = h[s \ {Taken(s)}] BY <1>5, <1>6
<1>8. g[s] = f[Taken(s)] + g[s \ {Taken(s)}] /\ h[s] = f[Taken(s)] + h[s \ {Taken(s)}]
  BY <1>0, <1>3, <1>4 DEF SumStep
<1> QED BY <1>3, <1>7, <1>8

\* the function the library's CHOOSE gives
SumFold(f, S) == CHOOSE g : g = [s \in SUBSET S |-> SumStep(g, f, s)]

(* The sum of the library is that solution.                                 *)
LEMMA FoldSolves ==
  ASSUME NEW f, NEW S, IsFiniteSet(S)
  PROVE  /\ IsSum(SumFold(f, S), f, S)
         /\ SumFunctionOnSet(f, S) = SumFold(f, S)[S]
<1>0. Cardinality(S) \in Nat BY FS_CardinalityType
<1>1. PICK h : SolvesSum(h, f, SubsetsUpTo(S, Cardinality(S))) BY <1>0, SolutionUpTo
<1>2. SubsetsUpTo(S, Cardinality(S)) = SUBSET S
  BY FS_Subset, FS_CardinalityType DEF SubsetsUpTo
<1>3. h = [s \in SUBSET S |-> SumStep(h, f, s)] BY <1>1, <1>2 DEF SolvesSum
<1>4. SumFunctionOnSet(f, S) = SumFold(f, S)[S]
  BY DEF SumFunctionOnSet, FoldFunctionOnSet, MapThenFoldSet, SumFold, SumStep, Taken
<1>5. SumFold(f, S) = [s \in SUBSET S |-> SumStep(SumFold(f, S), f, s)]
  BY <1>3 DEF SumFold
<1>6. ASSUME NEW s \in SUBSET S PROVE SumFold(f, S)[s] = SumStep(SumFold(f, S), f, s)
  BY <1>5
<1> QED BY <1>4, <1>6 DEF IsSum

(* The sum of nothing.                                                      *)
THEOREM SumEmpty == ASSUME NEW f PROVE SumFunctionOnSet(f, {}) = 0
<1>1. \A s \in SUBSET {} : SumFold(f, {})[s] = SumStep(SumFold(f, {}), f, s)
  BY FoldSolves, FS_EmptySet DEF IsSum
<1>2. SumFunctionOnSet(f, {}) = SumFold(f, {})[{}]
  BY FoldSolves, FS_EmptySet
<1>3. SumStep(SumFold(f, {}), f, {}) = 0 BY DEF SumStep
<1> QED BY <1>1, <1>2, <1>3

(* One step of the fold.                                                    *)
LEMMA SumUnfold ==
  ASSUME NEW f, NEW S, IsFiniteSet(S), S # {}
  PROVE  SumFunctionOnSet(f, S) = f[Taken(S)] + SumFunctionOnSet(f, S \ {Taken(S)})
<1> DEFINE T == S \ {Taken(S)}
<1>f. IsFiniteSet(T) BY RestSmaller
<1>s. T \in SUBSET S OBVIOUS
<1>1. IsSum(SumFold(f, S), f, S) /\ SumFunctionOnSet(f, S) = SumFold(f, S)[S]
  BY FoldSolves
<1> HIDE DEF T
<1>2. IsSum(SumFold(f, T), f, T) /\ SumFunctionOnSet(f, T) = SumFold(f, T)[T]
  BY FoldSolves, <1>f
<1>3. IsSum(SumFold(f, S), f, T) BY <1>1, <1>s DEF IsSum
<1>4. \A s \in SUBSET T : SumFold(f, S)[s] = SumFold(f, T)[s]
  BY <1>2, <1>3, <1>f, SolutionUnique
<1>5. SumFold(f, S)[S] = SumStep(SumFold(f, S), f, S) BY <1>1 DEF IsSum
<1>6. SumFold(f, S)[T] = SumFold(f, T)[T] BY <1>4
<1>7. SumFold(f, S)[S] = f[Taken(S)] + SumFold(f, S)[T] BY <1>5 DEF SumStep, T
<1> QED BY <1>1, <1>2, <1>6, <1>7 DEF T

(* The sum of integers is one.                                              *)
THEOREM SumInt ==
  ASSUME NEW f, NEW S, IsFiniteSet(S), \A x \in S : f[x] \in Int
  PROVE  SumFunctionOnSet(f, S) \in Int
<1> DEFINE Bad == {s \in SUBSET S : SumFunctionOnSet(f, s) \notin Int}
<1> SUFFICES ASSUME Bad # {} PROVE FALSE OBVIOUS
<1>f. \A t \in SUBSET S : IsFiniteSet(t) /\ Cardinality(t) \in Nat
  BY FS_Subset, FS_CardinalityType
<1>2. Bad \subseteq SUBSET S OBVIOUS
<1> HIDE DEF Bad
<1>3. PICK s \in Bad : \A x \in s : s \ {x} \notin Bad BY <1>2, <1>f, SmallestSet
<1> USE DEF Bad
<1>4. s # {} BY <1>3, SumEmpty
<1>5. Taken(s) \in s /\ s \ {Taken(s)} \in SUBSET S
  BY <1>3, <1>4, <1>f, RestSmaller
<1>6. s \ {Taken(s)} \notin Bad BY <1>3, <1>5
<1>7. SumFunctionOnSet(f, s) = f[Taken(s)] + SumFunctionOnSet(f, s \ {Taken(s)})
  BY <1>3, <1>4, <1>f, SumUnfold
<1> QED BY <1>3, <1>5, <1>6, <1>7

(* The elements can be taken in any order.                                  *)
THEOREM SumRemove ==
  ASSUME NEW f, NEW S, IsFiniteSet(S), \A y \in S : f[y] \in Int, NEW x \in S
  PROVE  SumFunctionOnSet(f, S) = f[x] + SumFunctionOnSet(f, S \ {x})
<1> DEFINE Sum(s) == SumFunctionOnSet(f, s)
           Bad == {s \in SUBSET S : \E y \in s : Sum(s) # f[y] + Sum(s \ {y})}
<1> SUFFICES ASSUME Bad # {} PROVE FALSE OBVIOUS
<1>f. \A t \in SUBSET S : IsFiniteSet(t) /\ Cardinality(t) \in Nat
  BY FS_Subset, FS_CardinalityType
<1>i. \A t \in SUBSET S : Sum(t) \in Int
  BY <1>f, SumInt
<1>2. Bad \subseteq SUBSET S OBVIOUS
<1> HIDE DEF Bad
<1>3. PICK s \in Bad : \A z \in s : s \ {z} \notin Bad BY <1>2, <1>f, SmallestSet
<1> USE DEF Bad
<1>4. PICK y \in s : Sum(s) # f[y] + Sum(s \ {y}) BY <1>3
<1> DEFINE c == Taken(s)
<1>5. c \in s BY <1>3, <1>4, <1>f, RestSmaller
<1>6. Sum(s) = f[c] + Sum(s \ {c})
  BY <1>3, <1>4, <1>f, SumUnfold
<1>7. c # y BY <1>6, <1>4
<1> HIDE DEF c
<1>9. s \ {c} \notin Bad /\ s \ {y} \notin Bad BY <1>3, <1>4, <1>5
<1>10. s \ {c} \in SUBSET S /\ s \ {y} \in SUBSET S BY <1>3
<1>11. Sum(s \ {c}) = f[y] + Sum((s \ {c}) \ {y}) BY <1>7, <1>9, <1>10, <1>4
<1>12. Sum(s \ {y}) = f[c] + Sum((s \ {y}) \ {c}) BY <1>7, <1>9, <1>10, <1>5
<1>13. (s \ {c}) \ {y} = (s \ {y}) \ {c} OBVIOUS
<1>14. f[c] \in Int /\ f[y] \in Int /\ Sum((s \ {y}) \ {c}) \in Int BY <1>3, <1>4, <1>5, <1>i
<1> DEFINE r == Sum((s \ {y}) \ {c})
<1>15. Sum(s) = f[c] + (f[y] + r) /\ Sum(s \ {y}) = f[c] + r
  BY <1>6, <1>11, <1>12, <1>13
<1>16. r \in Int BY <1>14
<1> HIDE DEF r, Sum
<1>17. f[c] + (f[y] + r) = f[y] + (f[c] + r) BY <1>14, <1>16
<1> QED BY <1>15, <1>17, <1>4

(* An element that is added to the set adds its value.                      *)
THEOREM SumAdd ==
  ASSUME NEW f, NEW S, IsFiniteSet(S), \A y \in S : f[y] \in Int,
         NEW x, x \notin S, f[x] \in Int
  PROVE  SumFunctionOnSet(f, S \cup {x}) = SumFunctionOnSet(f, S) + f[x]
<1> DEFINE T == S \cup {x}
<1>1. IsFiniteSet(T) BY FS_AddElement
<1>2. x \in T /\ \A y \in T : f[y] \in Int OBVIOUS
<1>3. T \ {x} = S OBVIOUS
<1> HIDE DEF T
<1>4. SumFunctionOnSet(f, T) = f[x] + SumFunctionOnSet(f, T \ {x})
  BY <1>1, <1>2, SumRemove
<1>5. SumFunctionOnSet(f, S) \in Int BY SumInt
<1>6. SumFunctionOnSet(f, T) = f[x] + SumFunctionOnSet(f, S) BY <1>3, <1>4
<1>7. f[x] + SumFunctionOnSet(f, S) = SumFunctionOnSet(f, S) + f[x] BY <1>5
<1> QED BY <1>6, <1>7 DEF T

(* Term by term: greater terms, a greater sum.                              *)
THEOREM SumAtMost ==
  ASSUME NEW f, NEW g, NEW S, IsFiniteSet(S),
         \A x \in S : f[x] \in Int /\ g[x] \in Int /\ f[x] <= g[x]
  PROVE  SumFunctionOnSet(f, S) <= SumFunctionOnSet(g, S)
<1> DEFINE F(s) == SumFunctionOnSet(f, s)
           G(s) == SumFunctionOnSet(g, s)
           Bad == {s \in SUBSET S : ~ (F(s) <= G(s))}
<1> SUFFICES ASSUME Bad # {} PROVE FALSE OBVIOUS
<1>f. \A t \in SUBSET S : IsFiniteSet(t) /\ Cardinality(t) \in Nat
  BY FS_Subset, FS_CardinalityType
<1>i. \A t \in SUBSET S : F(t) \in Int /\ G(t) \in Int
  BY <1>f, SumInt
<1>2. Bad \subseteq SUBSET S OBVIOUS
<1> HIDE DEF Bad
<1>3. PICK s \in Bad : \A x \in s : s \ {x} \notin Bad BY <1>2, <1>f, SmallestSet
<1> USE DEF Bad
<1>4. s # {} BY <1>3, SumEmpty
<1>5. PICK x : x \in s BY <1>4
<1>6. F(s) = f[x] + F(s \ {x}) /\ G(s) = g[x] + G(s \ {x})
  BY <1>3, <1>5, <1>f, SumRemove
<1>7. s \ {x} \in SUBSET S
  BY <1>3, <1>5
<1>8. s \ {x} \notin Bad BY <1>3, <1>5
<1>9. F(s \ {x}) <= G(s \ {x}) BY <1>7, <1>8
<1>10. f[x] \in Int /\ g[x] \in Int /\ f[x] <= g[x] BY <1>3, <1>5
<1>11. F(s \ {x}) \in Int /\ G(s \ {x}) \in Int BY <1>i, <1>7
<1> DEFINE a == F(s \ {x})
           b == G(s \ {x})
<1> HIDE DEF a, b
<1>12. f[x] + a <= g[x] + b BY <1>9, <1>10, <1>11 DEF a, b
<1> QED BY <1>3, <1>6, <1>12 DEF a, b

(* The sum only depends on the terms.                                       *)
THEOREM SumSame ==
  ASSUME NEW f, NEW g, NEW S, IsFiniteSet(S),
         \A x \in S : f[x] \in Int /\ g[x] = f[x]
  PROVE  SumFunctionOnSet(f, S) = SumFunctionOnSet(g, S)
<1>1. SumFunctionOnSet(f, S) <= SumFunctionOnSet(g, S) BY SumAtMost
<1>2. SumFunctionOnSet(g, S) <= SumFunctionOnSet(f, S) BY SumAtMost
<1>3. SumFunctionOnSet(f, S) \in Int /\ SumFunctionOnSet(g, S) \in Int BY SumInt
<1> QED BY <1>1, <1>2, <1>3

(* The sum of natural numbers is one.                                       *)
THEOREM SumNat ==
  ASSUME NEW f, NEW S, IsFiniteSet(S), \A x \in S : f[x] \in Nat
  PROVE  SumFunctionOnSet(f, S) \in Nat
<1> DEFINE Bad == {s \in SUBSET S : SumFunctionOnSet(f, s) \notin Nat}
<1> SUFFICES ASSUME Bad # {} PROVE FALSE OBVIOUS
<1>f. \A t \in SUBSET S : IsFiniteSet(t) /\ Cardinality(t) \in Nat
  BY FS_Subset, FS_CardinalityType
<1>2. Bad \subseteq SUBSET S OBVIOUS
<1> HIDE DEF Bad
<1>3. PICK s \in Bad : \A x \in s : s \ {x} \notin Bad BY <1>2, <1>f, SmallestSet
<1> USE DEF Bad
<1>4. s # {} BY <1>3, SumEmpty
<1>5. PICK x : x \in s BY <1>4
<1>6. SumFunctionOnSet(f, s) = f[x] + SumFunctionOnSet(f, s \ {x})
  BY <1>3, <1>5, <1>f, SumRemove
<1>7. s \ {x} \in SUBSET S
  BY <1>3, <1>5
<1>8. s \ {x} \notin Bad BY <1>3, <1>5
<1> QED BY <1>3, <1>5, <1>6, <1>7, <1>8

(* A part of a sum of natural numbers is at most the sum.                   *)
THEOREM SumSubset ==
  ASSUME NEW f, NEW S, IsFiniteSet(S), \A x \in S : f[x] \in Nat, NEW T \in SUBSET S
  PROVE  SumFunctionOnSet(f, T) <= SumFunctionOnSet(f, S)
<1> DEFINE Sum(s) == SumFunctionOnSet(f, s)
           Bad == {s \in SUBSET S : T \subseteq s /\ ~ (Sum(T) <= Sum(s))}
<1> SUFFICES ASSUME Bad # {} PROVE FALSE OBVIOUS
<1>f. \A t \in SUBSET S : IsFiniteSet(t) /\ Cardinality(t) \in Nat
  BY FS_Subset, FS_CardinalityType
<1>i. \A t \in SUBSET S : Sum(t) \in Nat
  BY <1>f, SumNat
<1>2. Bad \subseteq SUBSET S OBVIOUS
<1> HIDE DEF Bad
<1>3. PICK s \in Bad : \A x \in s : s \ {x} \notin Bad BY <1>2, <1>f, SmallestSet
<1> USE DEF Bad
<1>4. s # T BY <1>3, <1>i
<1>5. PICK x \in s : x \notin T BY <1>4, <1>3
<1>6. Sum(s) = f[x] + Sum(s \ {x})
  BY <1>3, <1>5, <1>f, SumRemove
<1>7. s \ {x} \in SUBSET S /\ T \subseteq s \ {x}
  BY <1>3, <1>5
<1>8. s \ {x} \notin Bad BY <1>3, <1>5
<1>9. f[x] \in Nat /\ Sum(s \ {x}) \in Nat /\ Sum(T) \in Nat BY <1>3, <1>5, <1>7, <1>i
<1>10. Sum(T) <= Sum(s \ {x}) BY <1>7, <1>8
<1> HIDE DEF Sum
<1>11. Sum(T) <= f[x] + Sum(s \ {x}) BY <1>9, <1>10
<1> QED BY <1>3, <1>6, <1>11

(* The sum of sums.                                                         *)
THEOREM SumPlus ==
  ASSUME NEW f, NEW g, NEW h, NEW S, IsFiniteSet(S),
         \A x \in S : f[x] \in Int /\ g[x] \in Int /\ h[x] = f[x] + g[x]
  PROVE  SumFunctionOnSet(h, S) = SumFunctionOnSet(f, S) + SumFunctionOnSet(g, S)
<1> DEFINE F(s) == SumFunctionOnSet(f, s)
           G(s) == SumFunctionOnSet(g, s)
           H(s) == SumFunctionOnSet(h, s)
           Bad == {s \in SUBSET S : H(s) # F(s) + G(s)}
<1> SUFFICES ASSUME Bad # {} PROVE FALSE OBVIOUS
<1>f. \A t \in SUBSET S : IsFiniteSet(t) /\ Cardinality(t) \in Nat
  BY FS_Subset, FS_CardinalityType
<1>h. \A x \in S : h[x] \in Int OBVIOUS
<1>i. \A t \in SUBSET S : F(t) \in Int /\ G(t) \in Int /\ H(t) \in Int
  BY <1>f, <1>h, SumInt
<1>2. Bad \subseteq SUBSET S OBVIOUS
<1> HIDE DEF Bad
<1>3. PICK s \in Bad : \A x \in s : s \ {x} \notin Bad BY <1>2, <1>f, SmallestSet
<1> USE DEF Bad
<1>4. s # {}
  <2> SUFFICES ASSUME s = {} PROVE FALSE OBVIOUS
  <2>1. F(s) = 0 /\ G(s) = 0 /\ H(s) = 0 BY SumEmpty
  <2>2. H(s) # F(s) + G(s) BY <1>3
  <2> QED BY <2>1, <2>2
<1>5. PICK x : x \in s BY <1>4
<1>6. F(s) = f[x] + F(s \ {x}) /\ G(s) = g[x] + G(s \ {x}) /\ H(s) = h[x] + H(s \ {x})
  <2>1. /\ \A y \in s : f[y] \in Int /\ g[y] \in Int /\ h[y] \in Int
        /\ IsFiniteSet(s)
    BY <1>3, <1>f, <1>h
  <2>2. F(s) = f[x] + F(s \ {x}) BY <1>5, <2>1, SumRemove
  <2>3. G(s) = g[x] + G(s \ {x}) BY <1>5, <2>1, SumRemove
  <2>4. H(s) = h[x] + H(s \ {x}) BY <1>5, <2>1, SumRemove
  <2> QED BY <2>2, <2>3, <2>4
<1>7. s \ {x} \in SUBSET S BY <1>3, <1>5
<1>8. s \ {x} \notin Bad BY <1>3, <1>5
<1>9. H(s \ {x}) = F(s \ {x}) + G(s \ {x}) BY <1>7, <1>8
<1>10. f[x] \in Int /\ g[x] \in Int /\ h[x] = f[x] + g[x] BY <1>3, <1>5
<1>11. F(s \ {x}) \in Int /\ G(s \ {x}) \in Int BY <1>i, <1>7
<1> DEFINE a == F(s \ {x})
           b == G(s \ {x})
<1> HIDE DEF a, b
<1>12. (f[x] + g[x]) + (a + b) = (f[x] + a) + (g[x] + b) BY <1>10, <1>11 DEF a, b
<1> QED BY <1>3, <1>6, <1>9, <1>10, <1>12 DEF a, b

(* The sum over two sets apart.                                             *)
THEOREM SumUnion ==
  ASSUME NEW f, NEW S, NEW T, IsFiniteSet(S), IsFiniteSet(T), S \cap T = {},
         \A x \in S \cup T : f[x] \in Int
  PROVE  SumFunctionOnSet(f, S \cup T) = SumFunctionOnSet(f, S) + SumFunctionOnSet(f, T)
<1> DEFINE Sum(s) == SumFunctionOnSet(f, s)
           Bad == {s \in SUBSET T : Sum(S \cup s) # Sum(S) + Sum(s)}
<1> SUFFICES ASSUME Bad # {} PROVE FALSE OBVIOUS
<1>f. \A t \in SUBSET T : IsFiniteSet(t) /\ IsFiniteSet(S \cup t)
  BY FS_Subset, FS_Union
<1>i. \A t \in SUBSET T : Sum(t) \in Int /\ Sum(S \cup t) \in Int
  <2> SUFFICES ASSUME NEW t \in SUBSET T PROVE Sum(t) \in Int /\ Sum(S \cup t) \in Int OBVIOUS
  <2>1. \A x \in S \cup t : f[x] \in Int OBVIOUS
  <2>2. IsFiniteSet(t) /\ IsFiniteSet(S \cup t) BY <1>f
  <2> QED BY <2>1, <2>2, SumInt
<1>s. Sum(S) \in Int BY SumInt
<1>2. Bad \subseteq SUBSET T OBVIOUS
<1> HIDE DEF Bad
<1>3. PICK s \in Bad : \A x \in s : s \ {x} \notin Bad BY <1>2, <1>f, SmallestSet
<1> USE DEF Bad
<1>4. s # {}
  <2> SUFFICES ASSUME s = {} PROVE FALSE OBVIOUS
  <2>1. S \cup s = S OBVIOUS
  <2> QED BY <1>3, <1>s, <2>1, SumEmpty
<1>5. PICK x : x \in s BY <1>4
<1>6. s \in SUBSET T /\ s \ {x} \in SUBSET T /\ s \ {x} \notin Bad BY <1>3, <1>5
<1>7. Sum(s) = f[x] + Sum(s \ {x})
  <2>1. \A y \in s : f[y] \in Int BY <1>6
  <2> QED BY <1>5, <1>6, <1>f, <2>1, SumRemove
<1>8. Sum(S \cup s) = f[x] + Sum(S \cup (s \ {x}))
  <2>1. \A y \in S \cup s : f[y] \in Int BY <1>6
  <2>2. x \in S \cup s /\ (S \cup s) \ {x} = S \cup (s \ {x}) BY <1>5, <1>6
  <2>3. IsFiniteSet(S \cup s) BY <1>6, <1>f
  <2> HIDE DEF Sum
  <2>4. Sum(S \cup s) = f[x] + Sum((S \cup s) \ {x})
    BY <2>1, <2>2, <2>3, SumRemove DEF Sum
  <2> QED BY <2>2, <2>4
<1>9. Sum(S \cup (s \ {x})) = Sum(S) + Sum(s \ {x}) BY <1>6
<1>10. f[x] \in Int /\ Sum(s \ {x}) \in Int BY <1>5, <1>6, <1>i
<1> HIDE DEF Sum
<1>11. f[x] + (Sum(S) + Sum(s \ {x})) = Sum(S) + (f[x] + Sum(s \ {x})) BY <1>10, <1>s
<1> QED BY <1>3, <1>7, <1>8, <1>9, <1>11 DEF Sum

(* A new term, the others as they were.                                     *)
THEOREM SumGrow ==
  ASSUME NEW f, NEW g, NEW S, IsFiniteSet(S), \A y \in S : f[y] \in Int /\ g[y] = f[y],
         NEW x, x \notin S, g[x] \in Int
  PROVE  SumFunctionOnSet(g, S \cup {x}) = SumFunctionOnSet(f, S) + g[x]
<1>1. SumFunctionOnSet(f, S) = SumFunctionOnSet(g, S) BY SumSame
<1>2. \A y \in S : g[y] \in Int OBVIOUS
<1> QED BY <1>1, <1>2, SumAdd
=============================================================================
