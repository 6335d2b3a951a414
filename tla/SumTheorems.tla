---------------------------- MODULE SumTheorems ----------------------------
(***************************************************************************)
(* Sums over finite sets: the facts about SumFunctionOnSet, of the module  *)
(* Functions, that the proofs about Ether rest on.  It is a fold over a    *)
(* choice of elements, so that its value does not depend on their order    *)
(* has to be proved.  Induction is over sets rather than predicates, from  *)
(* the fact that < on Nat is well founded.                                 *)
(***************************************************************************)
EXTENDS Integers, FiniteSets, Functions, FiniteSetTheorems, WellFoundedInduction, TLAPS

----------------------------------------------------------------------------
(* Induction.                                                              *)

(* < as a relation.                                                        *)
Below == {p \in Nat \X Nat : p[1] < p[2]}

(* A set with 0 and with the successor of each of its numbers has them     *)
(* all.                                                                    *)
LEMMA NatSetInduction ==
    ASSUME NEW S, 0 \in S, \A n \in Nat : n \in S => n + 1 \in S
    PROVE  Nat \subseteq S
<1>1. IsWellFoundedOn(Below, Nat)
  <2>1. Below = OpToRel(<, Nat)
    BY DEF Below, OpToRel
  <2>2. QED
    BY <2>1, NatLessThanWellFounded
<1>2. SUFFICES ASSUME Nat \ S # {} PROVE FALSE
  OBVIOUS
<1>3. PICK x \in Nat \ S : \A y \in Nat \ S : ~(<<y, x>> \in Below)
  BY <1>1, <1>2, WFMin
<1>4. x - 1 \in Nat
  BY <1>3
<1>5. <<x - 1, x>> \in Below
  BY <1>4 DEF Below
<1>6. x - 1 \in S
  BY <1>3, <1>4, <1>5
<1>7. (x - 1) + 1 \in S
  BY <1>4, <1>6
<1>8. QED
  BY <1>3, <1>4, <1>7

(* A collection that has {}, and with a set also that set and one element  *)
(* more, has every finite set.                                             *)
LEMMA FiniteSetInduction ==
    ASSUME NEW X, IsFiniteSet(X), NEW S, {} \in S,
           \A T \in SUBSET X, x \in X : T \in S /\ x \notin T => T \cup {x} \in S
    PROVE  X \in S
<1> DEFINE K == {n \in Nat : \A T \in SUBSET X : Cardinality(T) = n => T \in S}
<1>1. \A T \in SUBSET X : IsFiniteSet(T) /\ Cardinality(T) \in Nat
  BY FS_Subset, FS_CardinalityType
<1>2. 0 \in K
  BY <1>1, FS_EmptySet
<1>3. ASSUME NEW n \in Nat, n \in K
      PROVE  n + 1 \in K
  <2>1. SUFFICES ASSUME NEW T \in SUBSET X, Cardinality(T) = n + 1
                 PROVE  T \in S
    OBVIOUS
  <2>2. PICK x \in T : TRUE
    <3>1. Cardinality({}) = 0
      BY FS_EmptySet
    <3>2. T # {}
      BY <2>1, <3>1
    <3>3. QED
      BY <3>2
  <2>3. Cardinality(T \ {x}) = Cardinality(T) - 1
    BY <1>1, <2>2, FS_RemoveElement, Zenon
  <2>4. T \ {x} \in S
    BY <1>3, <2>1, <2>3
  <2>5. (T \ {x}) \cup {x} = T
    BY <2>2
  <2>6. QED
    BY <2>4, <2>5
<1>4. Nat \subseteq K
  <2> HIDE DEF K
  <2>1. QED
    BY <1>2, <1>3, NatSetInduction
<1>5. QED
  BY <1>1, <1>4

----------------------------------------------------------------------------
(* The fold.                                                               *)

(* The subsets of S of bounded size.                                       *)
AtMost(S, n) == {T \in SUBSET S : Cardinality(T) <= n}

(* The element the fold takes first.                                       *)
Least(T) == CHOOSE x \in T : TRUE

(* One step of the fold: what is taken first, and the sum of the rest.     *)
PartSum(fun, T, rest) == IF T = {} THEN 0 ELSE fun[Least(T)] + rest[T \ {Least(T)}]

(* On a finite set there is a function with the sums of all its subsets.   *)
LEMMA PartSumsExist ==
    ASSUME NEW S, IsFiniteSet(S), NEW fun
    PROVE  \E g : g = [T \in SUBSET S |-> PartSum(fun, T, g)]
<1> DEFINE K == {n \in Nat : \E g : g = [T \in AtMost(S, n) |-> PartSum(fun, T, g)]}
<1>1. \A T \in SUBSET S : IsFiniteSet(T) /\ Cardinality(T) \in Nat
  BY FS_Subset, FS_CardinalityType
<1>2. ASSUME NEW T \in SUBSET S, T # {}
      PROVE  /\ T \ {Least(T)} \in SUBSET S
             /\ Cardinality(T \ {Least(T)}) = Cardinality(T) - 1
  <2>1. Least(T) \in T
    BY <1>2 DEF Least
  <2>2. Cardinality(T \ {Least(T)}) = Cardinality(T) - 1
    BY <1>1, <2>1, FS_RemoveElement, Zenon
  <2>3. QED
    BY <2>2
<1>3. 0 \in K
  <2> DEFINE g == [T \in AtMost(S, 0) |-> 0]
  <2>1. \A T \in AtMost(S, 0) : T = {}
    BY <1>1, FS_EmptySet DEF AtMost
  <2>2. g = [T \in AtMost(S, 0) |-> PartSum(fun, T, g)]
    BY <2>1 DEF PartSum
  <2>3. QED
    BY <2>2
<1>4. ASSUME NEW n \in Nat, n \in K
      PROVE  n + 1 \in K
  <2>1. PICK g : g = [T \in AtMost(S, n) |-> PartSum(fun, T, g)]
    BY <1>4
  <2> DEFINE h == [T \in AtMost(S, n + 1) |-> IF T \in AtMost(S, n) THEN g[T] ELSE PartSum(fun, T, g)]
  <2>2. AtMost(S, n) \subseteq AtMost(S, n + 1)
    BY <1>1 DEF AtMost
  <2>3. ASSUME NEW T \in AtMost(S, n + 1)
        PROVE  h[T] = PartSum(fun, T, h)
    <3>1. T \in SUBSET S
      BY DEF AtMost
    <3>2. h[T] = PartSum(fun, T, g)
      <4>1. CASE T \in AtMost(S, n)
        BY <2>1, <4>1
      <4>2. CASE T \notin AtMost(S, n)
        BY <4>2
      <4>3. QED
        BY <4>1, <4>2
    <3>3. CASE T = {}
      BY <3>2, <3>3 DEF PartSum
    <3>4. CASE T # {}
      <4>1. T \ {Least(T)} \in AtMost(S, n)
        BY <1>1, <1>2, <3>1, <3>4 DEF AtMost
      <4>2. h[T \ {Least(T)}] = g[T \ {Least(T)}]
        BY <2>2, <4>1
      <4>3. QED
        BY <3>2, <3>4, <4>2 DEF PartSum
    <3>5. QED
      BY <3>3, <3>4
  <2>4. h = [T \in AtMost(S, n + 1) |-> PartSum(fun, T, h)]
    <3>1. h = [T \in AtMost(S, n + 1) |-> h[T]]
      OBVIOUS
    <3> HIDE DEF h
    <3>2. QED
      BY <2>3, <3>1
  <2> HIDE DEF h
  <2>5. QED
    BY <2>4
<1>5. Cardinality(S) \in K
  <2> HIDE DEF K
  <2>1. QED
    BY <1>1, <1>3, <1>4, NatSetInduction
<1>6. AtMost(S, Cardinality(S)) = SUBSET S
  <2>1. \A T \in SUBSET S : Cardinality(T) <= Cardinality(S)
    BY FS_Subset
  <2>2. QED
    BY <2>1 DEF AtMost
<1>7. QED
  BY <1>5, <1>6

(* SumFunctionOnSet is the value of such a function.                       *)
LEMMA SumIsPartSum ==
    ASSUME NEW S, IsFiniteSet(S), NEW fun
    PROVE  \E g : /\ g = [T \in SUBSET S |-> PartSum(fun, T, g)]
                  /\ SumFunctionOnSet(fun, S) = g[S]
<1> DEFINE g == CHOOSE g : g = [T \in SUBSET S |-> PartSum(fun, T, g)]
<1>1. g = [T \in SUBSET S |-> PartSum(fun, T, g)]
  BY PartSumsExist
<1>2. SumFunctionOnSet(fun, S) = g[S]
  BY DEF SumFunctionOnSet, FoldFunctionOnSet, MapThenFoldSet, PartSum, Least
<1>3. QED
  BY <1>1, <1>2

(* g has the sums over all subsets of S.                                   *)
PartSums(fun, S, g) == g = [T \in SUBSET S |-> PartSum(fun, T, g)]

(* Any element may be taken first.                                         *)
LEMMA PartSumsAnyOrder ==
    ASSUME NEW S, IsFiniteSet(S), NEW fun, \A x \in S : fun[x] \in Int,
           NEW g, PartSums(fun, S, g)
    PROVE  /\ g[{}] = 0
           /\ \A T \in SUBSET S : g[T] \in Int
           /\ \A T \in SUBSET S : \A x \in T : g[T] = fun[x] + g[T \ {x}]
<1> DEFINE Good(T) == g[T] \in Int /\ \A x \in T : g[T] = fun[x] + g[T \ {x}]
           K == {n \in Nat : \A T \in SUBSET S : Cardinality(T) <= n => Good(T)}
<1>1. \A T \in SUBSET S : IsFiniteSet(T) /\ Cardinality(T) \in Nat
  BY FS_Subset, FS_CardinalityType
<1>2. g[{}] = 0
  BY DEF PartSums, PartSum
<1>3. \A T \in SUBSET S : \A x \in T : Cardinality(T \ {x}) = Cardinality(T) - 1
  BY <1>1, FS_RemoveElement, Zenon
<1>4. \A T \in SUBSET S : T # {} => Least(T) \in T /\ g[T] = fun[Least(T)] + g[T \ {Least(T)}]
  BY DEF PartSums, PartSum, Least
<1>5. Good({})
  BY <1>2
<1>6. 0 \in K
  <2>1. ASSUME NEW T \in SUBSET S, Cardinality(T) <= 0
        PROVE  T = {}
    <3>1. IsFiniteSet(T) /\ Cardinality(T) = 0
      BY <1>1, <2>1
    <3>2. QED
      BY <3>1, FS_EmptySet
  <2> HIDE DEF Good
  <2>2. QED
    BY <1>5, <2>1
<1>7. ASSUME NEW n \in Nat, n \in K
      PROVE  n + 1 \in K
  <2>1. SUFFICES ASSUME NEW T \in SUBSET S, Cardinality(T) <= n + 1, T # {}
                 PROVE  Good(T)
    <3> HIDE DEF Good
    <3>1. QED
      BY <1>5
  <2> DEFINE y == Least(T)
  <2>2. y \in T /\ g[T] = fun[y] + g[T \ {y}] /\ fun[y] \in Int
    BY <1>4, <2>1
  <2>3. \A x \in T : Good(T \ {x})
    BY <1>1, <1>3, <1>7, <2>1
  <2> HIDE DEF y
  <2>4. g[T] \in Int
    BY <2>2, <2>3
  <2>5. ASSUME NEW x \in T, x # y
        PROVE  g[T] = fun[x] + g[T \ {x}]
    <3>1. x \in T \ {y} /\ y \in T \ {x}
      BY <2>2, <2>5
    <3>2. /\ g[T \ {y}] = fun[x] + g[(T \ {y}) \ {x}]
          /\ g[T \ {x}] = fun[y] + g[(T \ {x}) \ {y}]
      BY <2>2, <2>3, <3>1
    <3>3. (T \ {y}) \ {x} = (T \ {x}) \ {y}
      OBVIOUS
    <3>4. /\ fun[x] \in Int /\ fun[y] \in Int
          /\ g[(T \ {y}) \ {x}] \in Int
      <4>1. (T \ {y}) \ {x} \in SUBSET S /\ Cardinality((T \ {y}) \ {x}) <= n
        <5>1. T \ {y} \in SUBSET S /\ Cardinality(T \ {y}) = Cardinality(T) - 1
          BY <1>3, <2>2
        <5>2. Cardinality((T \ {y}) \ {x}) = Cardinality(T \ {y}) - 1
          BY <1>3, <3>1, <5>1
        <5>3. Cardinality(T) \in Nat
          BY <1>1
        <5>4. QED
          BY <2>1, <5>1, <5>2, <5>3
      <4>2. QED
        BY <1>7, <2>2, <4>1
    <3> DEFINE rest == g[(T \ {y}) \ {x}]
    <3>5. g[T] = fun[y] + (fun[x] + rest) /\ g[T \ {x}] = fun[y] + rest /\ rest \in Int
      BY <2>2, <3>2, <3>3, <3>4
    <3> HIDE DEF rest
    <3>6. QED
      BY <3>4, <3>5
  <2>6. QED
    BY <2>2, <2>4, <2>5
<1>8. Nat \subseteq K
  <2> HIDE DEF K
  <2>1. QED
    BY <1>6, <1>7, NatSetInduction
<1>9. \A T \in SUBSET S : Good(T)
  BY <1>1, <1>8
<1>10. QED
  BY <1>2, <1>9

(* The sums over the subsets of a part of S are the same in both.          *)
LEMMA PartSumsUnique ==
    ASSUME NEW S, IsFiniteSet(S), NEW fun, \A x \in S : fun[x] \in Int,
           NEW R \in SUBSET S,
           NEW g, PartSums(fun, S, g), NEW h, PartSums(fun, R, h)
    PROVE  h[R] = g[R]
<1>1. IsFiniteSet(R)
  BY FS_Subset
<1>2. /\ g[{}] = 0
      /\ \A T \in SUBSET S : \A x \in T : g[T] = fun[x] + g[T \ {x}]
  BY PartSumsAnyOrder
<1>3. /\ h[{}] = 0
      /\ \A T \in SUBSET R : \A x \in T : h[T] = fun[x] + h[T \ {x}]
  BY <1>1, PartSumsAnyOrder
<1> DEFINE K == {T \in SUBSET R : h[T] = g[T]}
<1>4. {} \in K
  BY <1>2, <1>3
<1>5. ASSUME NEW T \in SUBSET R, NEW x \in R, T \in K, x \notin T
      PROVE  T \cup {x} \in K
  <2>1. (T \cup {x}) \ {x} = T /\ T \cup {x} \in SUBSET R /\ T \cup {x} \in SUBSET S
    BY <1>5
  <2>2. h[T \cup {x}] = fun[x] + h[T] /\ g[T \cup {x}] = fun[x] + g[T]
    BY <1>2, <1>3, <2>1
  <2>3. QED
    BY <1>5, <2>1, <2>2
<1>6. R \in K
  <2> HIDE DEF K
  <2>1. QED
    BY <1>1, <1>4, <1>5, FiniteSetInduction
<1>7. QED
  BY <1>6

----------------------------------------------------------------------------
(* The sums.                                                               *)

(* A sum over a finite set, taken apart in any order.                      *)
THEOREM SumApart ==
    ASSUME NEW S, IsFiniteSet(S), NEW fun, \A x \in S : fun[x] \in Int
    PROVE  /\ SumFunctionOnSet(fun, {}) = 0
           /\ SumFunctionOnSet(fun, S) \in Int
           /\ \A x \in S : SumFunctionOnSet(fun, S) = fun[x] + SumFunctionOnSet(fun, S \ {x})
<1>1. ASSUME NEW T \in SUBSET S
      PROVE  \E g : PartSums(fun, T, g) /\ SumFunctionOnSet(fun, T) = g[T]
  <2>1. IsFiniteSet(T)
    BY FS_Subset
  <2>2. QED
    BY <2>1, SumIsPartSum DEF PartSums
<1>2. PICK g : PartSums(fun, S, g) /\ SumFunctionOnSet(fun, S) = g[S]
  BY <1>1
<1>3. \A T \in SUBSET S : SumFunctionOnSet(fun, T) = g[T]
  <2>1. ASSUME NEW T \in SUBSET S
        PROVE  SumFunctionOnSet(fun, T) = g[T]
    <3>1. PICK h : PartSums(fun, T, h) /\ SumFunctionOnSet(fun, T) = h[T]
      BY <1>1
    <3>2. h[T] = g[T]
      BY <1>2, <3>1, PartSumsUnique
    <3>3. QED
      BY <3>1, <3>2
  <2>2. QED
    BY <2>1
<1>4. /\ g[{}] = 0
      /\ \A T \in SUBSET S : g[T] \in Int
      /\ \A T \in SUBSET S : \A x \in T : g[T] = fun[x] + g[T \ {x}]
  BY <1>2, PartSumsAnyOrder
<1>5. QED
  BY <1>3, <1>4

(* One more summand.                                                       *)
LEMMA SumExtend ==
    ASSUME NEW S, IsFiniteSet(S), NEW fun, \A x \in S : fun[x] \in Int,
           NEW T \in SUBSET S, NEW x \in S, x \notin T
    PROVE  SumFunctionOnSet(fun, T \cup {x}) = fun[x] + SumFunctionOnSet(fun, T)
<1>1. T \cup {x} \in SUBSET S /\ (T \cup {x}) \ {x} = T /\ x \in T \cup {x}
  OBVIOUS
<1>2. IsFiniteSet(T \cup {x})
  BY <1>1, FS_Subset
<1>3. SumFunctionOnSet(fun, T \cup {x}) = fun[x] + SumFunctionOnSet(fun, (T \cup {x}) \ {x})
  BY <1>1, <1>2, SumApart
<1>4. QED
  BY <1>1, <1>3

(* Sums of natural numbers are natural numbers.                            *)
THEOREM SumNat ==
    ASSUME NEW S, IsFiniteSet(S), NEW fun, \A x \in S : fun[x] \in Nat
    PROVE  SumFunctionOnSet(fun, S) \in Nat
<1> DEFINE K == {T \in SUBSET S : SumFunctionOnSet(fun, T) \in Nat}
<1>1. {} \in K
  BY SumApart
<1>2. ASSUME NEW T \in SUBSET S, NEW x \in S, T \in K, x \notin T
      PROVE  T \cup {x} \in K
  BY <1>2, SumExtend
<1>3. S \in K
  <2> HIDE DEF K
  <2>1. QED
    BY <1>1, <1>2, FiniteSetInduction
<1>4. QED
  BY <1>3

(* The sum of sums.                                                        *)
THEOREM SumPlus ==
    ASSUME NEW S, IsFiniteSet(S), NEW f, NEW g, NEW h,
           \A x \in S : f[x] \in Int /\ g[x] \in Int /\ h[x] = f[x] + g[x]
    PROVE  SumFunctionOnSet(h, S) = SumFunctionOnSet(f, S) + SumFunctionOnSet(g, S)
<1> DEFINE K == {T \in SUBSET S : SumFunctionOnSet(h, T) = SumFunctionOnSet(f, T) + SumFunctionOnSet(g, T)}
<1>1. \A x \in S : h[x] \in Int
  OBVIOUS
<1>2. {} \in K
  BY <1>1, SumApart
<1>3. ASSUME NEW T \in SUBSET S, NEW x \in S, T \in K, x \notin T
      PROVE  T \cup {x} \in K
  <2>1. /\ SumFunctionOnSet(f, T \cup {x}) = f[x] + SumFunctionOnSet(f, T)
        /\ SumFunctionOnSet(g, T \cup {x}) = g[x] + SumFunctionOnSet(g, T)
        /\ SumFunctionOnSet(h, T \cup {x}) = h[x] + SumFunctionOnSet(h, T)
    BY <1>1, <1>3, SumExtend
  <2>2. SumFunctionOnSet(f, T) \in Int /\ SumFunctionOnSet(g, T) \in Int
    <3>1. IsFiniteSet(T)
      BY FS_Subset
    <3>2. QED
      BY <3>1, SumApart
  <2>3. QED
    BY <1>3, <2>1, <2>2
<1>4. S \in K
  <2> HIDE DEF K
  <2>1. QED
    BY <1>2, <1>3, FiniteSetInduction
<1>5. QED
  BY <1>4

(* Equal summands make equal sums.                                         *)
THEOREM SumSame ==
    ASSUME NEW S, IsFiniteSet(S), NEW f, NEW g, \A x \in S : f[x] \in Int /\ g[x] = f[x]
    PROVE  SumFunctionOnSet(g, S) = SumFunctionOnSet(f, S)
<1> DEFINE K == {T \in SUBSET S : SumFunctionOnSet(g, T) = SumFunctionOnSet(f, T)}
<1>1. {} \in K
  BY SumApart
<1>2. ASSUME NEW T \in SUBSET S, NEW x \in S, T \in K, x \notin T
      PROVE  T \cup {x} \in K
  BY <1>2, SumExtend
<1>3. S \in K
  <2> HIDE DEF K
  <2>1. QED
    BY <1>1, <1>2, FiniteSetInduction
<1>4. QED
  BY <1>3

(* Changing one summand changes the sum by as much.                        *)
THEOREM SumUpdate ==
    ASSUME NEW S, IsFiniteSet(S), NEW f \in [S -> Int], NEW g \in [S -> Int], NEW a \in S,
           \A x \in S : x # a => g[x] = f[x]
    PROVE  SumFunctionOnSet(g, S) = SumFunctionOnSet(f, S) + (g[a] - f[a])
<1>1. IsFiniteSet(S \ {a})
  BY FS_Subset
<1>2. SumFunctionOnSet(g, S \ {a}) = SumFunctionOnSet(f, S \ {a})
  BY <1>1, SumSame
<1>3. /\ SumFunctionOnSet(f, S) = f[a] + SumFunctionOnSet(f, S \ {a})
      /\ SumFunctionOnSet(g, S) = g[a] + SumFunctionOnSet(g, S \ {a})
      /\ SumFunctionOnSet(f, S \ {a}) \in Int
  BY <1>1, SumApart
<1>4. QED
  BY <1>2, <1>3

(* Adding to one summand adds as much to the sum.                          *)
THEOREM SumGains ==
    ASSUME NEW S, IsFiniteSet(S), NEW f \in [S -> Int], NEW v \in Int, NEW a \in S
    PROVE  SumFunctionOnSet([f EXCEPT ![a] = @ + v], S) = SumFunctionOnSet(f, S) + v
<1>1. [f EXCEPT ![a] = @ + v] \in [S -> Int]
  OBVIOUS
<1>2. PICK g \in [S -> Int] : g = [f EXCEPT ![a] = @ + v]
  BY <1>1
<1>3. \A x \in S : x # a => g[x] = f[x]
  BY <1>2
<1>4. SumFunctionOnSet(g, S) = SumFunctionOnSet(f, S) + (g[a] - f[a])
  BY <1>3, SumUpdate
<1>5. g[a] = f[a] + v
  BY <1>2
<1>6. SumFunctionOnSet(f, S) \in Int
  BY SumApart
<1>7. QED
  BY <1>2, <1>4, <1>5, <1>6

(* Summands that are zero do not count.                                    *)
THEOREM SumWider ==
    ASSUME NEW S, IsFiniteSet(S), NEW R \in SUBSET S, NEW f,
           \A x \in S : f[x] \in Int, \A x \in S \ R : f[x] = 0
    PROVE  SumFunctionOnSet(f, S) = SumFunctionOnSet(f, R)
<1> DEFINE K == {T \in SUBSET S : SumFunctionOnSet(f, T) = SumFunctionOnSet(f, T \cap R)}
<1>1. {} \in K
  <2>1. {} \cap R = {}
    OBVIOUS
  <2>2. QED
    BY <2>1
<1>2. ASSUME NEW T \in SUBSET S, NEW x \in S, T \in K, x \notin T
      PROVE  T \cup {x} \in K
  <2>1. SumFunctionOnSet(f, T \cup {x}) = f[x] + SumFunctionOnSet(f, T)
    BY <1>2, SumExtend
  <2>2. CASE x \in R
    <3>1. (T \cup {x}) \cap R = (T \cap R) \cup {x}
      BY <2>2
    <3>2. SumFunctionOnSet(f, (T \cap R) \cup {x}) = f[x] + SumFunctionOnSet(f, T \cap R)
      BY <1>2, SumExtend
    <3>3. QED
      BY <1>2, <2>1, <3>1, <3>2
  <2>3. CASE x \notin R
    <3>1. (T \cup {x}) \cap R = T \cap R /\ f[x] = 0
      BY <2>3
    <3>2. SumFunctionOnSet(f, T) \in Int
      <4>1. IsFiniteSet(T)
        BY FS_Subset
      <4>2. QED
        BY <4>1, SumApart
    <3>3. SumFunctionOnSet(f, T \cup {x}) = SumFunctionOnSet(f, T)
      BY <2>1, <3>1, <3>2
    <3>4. QED
      BY <1>2, <3>1, <3>3
  <2>4. QED
    BY <2>2, <2>3
<1>3. S \in K
  <2> HIDE DEF K
  <2>1. QED
    BY <1>1, <1>2, FiniteSetInduction
<1>4. S \cap R = R
  OBVIOUS
<1>5. QED
  BY <1>3, <1>4

(* A sum of zeros.                                                         *)
THEOREM SumZero ==
    ASSUME NEW S, IsFiniteSet(S), NEW f, \A x \in S : f[x] = 0
    PROVE  SumFunctionOnSet(f, S) = 0
<1>1. SumFunctionOnSet(f, S) = SumFunctionOnSet(f, {})
  BY SumWider
<1>2. QED
  BY <1>1, SumApart
=============================================================================
