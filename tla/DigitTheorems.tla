---------------------------- MODULE DigitTheorems ----------------------------
(***************************************************************************)
(* The digits of bignumber.js against the integers they stand for: what    *)
(* the recursive functions of BigNumber compute, the normal form of what   *)
(* they give, and sums, differences, comparison and products of any two    *)
(* finite numbers.                                                         *)
(***************************************************************************)
EXTENDS DecimalValues, SumTheorems, SequenceTheorems

----------------------------------------------------------------------------
(* Recursion on numbers.                                                   *)

Computes(V, v0, F, n, g) ==
    g \in [0..n -> V] /\ g[0] = v0 /\ \A i \in 1..n : g[i] = F[i][g[i - 1]]

LEMMA ComputationExists ==
    ASSUME NEW V, NEW v0 \in V, NEW F \in [Nat -> [V -> V]], NEW n \in Nat
    PROVE  \E g : Computes(V, v0, F, n, g)
<1> DEFINE K == {k \in Nat : \E g : Computes(V, v0, F, k, g)}
<1>1. 0 \in K
  <2>1. Computes(V, v0, F, 0, [i \in 0..0 |-> v0])
    BY DEF Computes
  <2>2. QED
    BY <2>1
<1>2. ASSUME NEW k \in Nat, k \in K PROVE k + 1 \in K
  <2>1. PICK g : Computes(V, v0, F, k, g)
    BY <1>2
  <2> DEFINE h == [i \in 0..(k + 1) |-> IF i = k + 1 THEN F[k + 1][g[k]] ELSE g[i]]
  <2>2. g[k] \in V /\ F[k + 1][g[k]] \in V
    BY <2>1 DEF Computes
  <2>3. h \in [0..(k + 1) -> V] /\ h[0] = v0
    BY <2>1, <2>2 DEF Computes
  <2>4. ASSUME NEW i \in 1..(k + 1) PROVE h[i] = F[i][h[i - 1]]
    BY <2>1, <2>2 DEF Computes
  <2>5. Computes(V, v0, F, k + 1, h)
    BY <2>3, <2>4 DEF Computes
  <2>6. QED
    BY <2>5
<1> HIDE DEF K
<1>3. Nat \subseteq K
  BY <1>1, <1>2, NatSetInduction
<1>4. QED
  BY <1>3 DEF K

LEMMA ComputationUnique ==
    ASSUME NEW V, NEW v0 \in V, NEW F \in [Nat -> [V -> V]],
           NEW n \in Nat, NEW m \in Nat, NEW g, NEW h,
           Computes(V, v0, F, n, g), Computes(V, v0, F, m, h), n <= m
    PROVE  \A i \in 0..n : g[i] = h[i]
<1> DEFINE K == {i \in Nat : i <= n => g[i] = h[i]}
<1>1. 0 \in K
  BY DEF Computes
<1>2. ASSUME NEW i \in Nat, i \in K PROVE i + 1 \in K
  <2>1. SUFFICES ASSUME i + 1 <= n PROVE g[i + 1] = h[i + 1]
    OBVIOUS
  <2>2. i + 1 \in 1..n /\ i + 1 \in 1..m /\ (i + 1) - 1 = i /\ g[i] = h[i]
    BY <1>2, <2>1
  <2>3. QED
    BY <2>2 DEF Computes
<1> HIDE DEF K
<1>3. Nat \subseteq K
  BY <1>1, <1>2, NatSetInduction
<1>4. QED
  BY <1>3 DEF K

(* A function on Nat can be defined by recursion.                          *)
Recursion(V, v0, F, f) ==
    f \in [Nat -> V] /\ f[0] = v0 /\ \A i \in Nat : f[i + 1] = F[i + 1][f[i]]

LEMMA RecursionExists ==
    ASSUME NEW V, NEW v0 \in V, NEW F \in [Nat -> [V -> V]]
    PROVE  \E f : Recursion(V, v0, F, f)
<1> DEFINE G == [n \in Nat |-> CHOOSE g : Computes(V, v0, F, n, g)]
           f == [n \in Nat |-> G[n][n]]
<1>1. \A n \in Nat : Computes(V, v0, F, n, G[n])
  BY ComputationExists
<1> HIDE DEF G
<1>2. ASSUME NEW n \in Nat PROVE G[n][n] \in V /\ G[n + 1][n + 1] = F[n + 1][G[n][n]]
  <2>1. Computes(V, v0, F, n, G[n]) /\ Computes(V, v0, F, n + 1, G[n + 1])
    BY <1>1
  <2>2. G[n][n] = G[n + 1][n]
    <3>1. n + 1 \in Nat /\ n <= n + 1
      OBVIOUS
    <3>2. QED
      BY <2>1, <3>1, ComputationUnique
  <2>3. G[n + 1][n + 1] = F[n + 1][G[n + 1][n]] /\ G[n][n] \in V
    BY <2>1 DEF Computes
  <2>4. QED
    BY <2>2, <2>3
<1>3. G[0][0] = v0
  BY <1>1 DEF Computes
<1>4. Recursion(V, v0, F, f)
  BY <1>2, <1>3 DEF Recursion
<1>5. QED
  BY <1>4

LEMMA IntervalInduction ==
    ASSUME NEW n \in Nat, NEW S, 0 \in S, \A i \in 0..(n - 1) : i \in S => i + 1 \in S
    PROVE  \A i \in 0..n : i \in S
<1> DEFINE K == {k \in Nat : k <= n => k \in S}
<1>1. 0 \in K /\ \A k \in Nat : k \in K => k + 1 \in K
  OBVIOUS
<1> HIDE DEF K
<1>2. Nat \subseteq K
  BY <1>1, NatSetInduction
<1>3. QED
  BY <1>2 DEF K

LEMMA DownInduction ==
    ASSUME NEW n \in Nat, NEW S, n \in S, \A i \in 0..(n - 1) : i + 1 \in S => i \in S
    PROVE  \A i \in 0..n : i \in S
<1> DEFINE K == {k \in Nat : k <= n => n - k \in S}
<1>1. 0 \in K
  OBVIOUS
<1>2. ASSUME NEW k \in Nat, k \in K PROVE k + 1 \in K
  <2>1. SUFFICES ASSUME k + 1 <= n PROVE n - (k + 1) \in S
    OBVIOUS
  <2>2. n - (k + 1) \in 0..(n - 1) /\ (n - (k + 1)) + 1 = n - k /\ n - k \in S
    BY <1>2, <2>1
  <2>3. QED
    BY <2>2
<1> HIDE DEF K
<1>3. Nat \subseteq K
  BY <1>1, <1>2, NatSetInduction
<1>4. ASSUME NEW i \in 0..n PROVE i \in S
  <2>1. n - i \in K /\ n - (n - i) = i
    BY <1>3
  <2>2. QED
    BY <2>1 DEF K
<1>5. QED
  BY <1>4

(* From the last one down to the first.                                    *)
DownComputes(V, v0, F, n, g) ==
    g \in [0..n -> V] /\ g[n] = v0 /\ \A i \in 0..(n - 1) : g[i] = F[i][g[i + 1]]

LEMMA DownComputationExists ==
    ASSUME NEW V, NEW v0 \in V, NEW F \in [Nat -> [V -> V]], NEW n \in Nat
    PROVE  \E g : DownComputes(V, v0, F, n, g)
<1> DEFINE G == [k \in Nat |-> IF k <= n THEN F[n - k] ELSE F[0]]
<1>1. G \in [Nat -> [V -> V]]
  OBVIOUS
<1>2. \E h : Computes(V, v0, G, n, h)
  <2> HIDE DEF G
  <2>1. QED
    BY <1>1, ComputationExists
<1>3. PICK h : Computes(V, v0, G, n, h)
  BY <1>2
<1> DEFINE g == [i \in 0..n |-> h[n - i]]
<1>4. h \in [0..n -> V] /\ h[0] = v0 /\ \A k \in 1..n : h[k] = G[k][h[k - 1]]
  BY <1>3 DEF Computes
<1>5. g \in [0..n -> V] /\ g[n] = v0
  BY <1>4
<1>6. ASSUME NEW i \in 0..(n - 1) PROVE g[i] = F[i][g[i + 1]]
  <2>1. n - i \in 1..n /\ (n - i) - 1 = n - (i + 1) /\ n - (n - i) = i
    OBVIOUS
  <2>2. G[n - i] = F[i]
    BY <2>1
  <2>3. h[n - i] = G[n - i][h[n - (i + 1)]]
    BY <1>4, <2>1
  <2>4. QED
    BY <2>2, <2>3
<1>7. QED
  BY <1>5, <1>6 DEF DownComputes

----------------------------------------------------------------------------
(* Powers.                                                                 *)

LEMMA PowerDef ==
    ASSUME NEW b \in Int
    PROVE  /\ Power(b, 0) = 1
           /\ \A n \in Nat : Power(b, n) \in Int /\ Power(b, n + 1) = Power(b, n) * b
<1> DEFINE F == [i \in Nat |-> [v \in Int |-> v * b]]
           Def(p) == p = [i \in Nat |-> IF i = 0 THEN 1 ELSE p[i - 1] * b]
           p == CHOOSE p : Def(p)
<1>0. F \in [Nat -> [Int -> Int]]
  OBVIOUS
<1>1. PICK f : Recursion(Int, 1, F, f)
  <2>1. 1 \in Int
    OBVIOUS
  <2> HIDE DEF F
  <2>2. QED
    BY <1>0, <2>1, RecursionExists, Zenon
<1>2. Def(f)
  <2>1. ASSUME NEW i \in Nat PROVE f[i] = IF i = 0 THEN 1 ELSE f[i - 1] * b
    <3>1. CASE i = 0
      BY <1>1, <3>1 DEF Recursion
    <3>2. CASE i # 0
      <4>1. i - 1 \in Nat /\ (i - 1) + 1 = i
        BY <3>2
      <4>2. f[i] = F[i][f[i - 1]]
        BY <1>1, <4>1 DEF Recursion
      <4>3. QED
        BY <1>1, <3>2, <4>1, <4>2 DEF Recursion
    <3>3. QED
      BY <3>1, <3>2
  <2>2. QED
    BY <1>1, <2>1 DEF Recursion
<1>3. Def(p)
  BY <1>2
<1>4. \A n \in Nat : Power(b, n) = p[n]
  BY DEF Power
<1> HIDE DEF p
<1>5. p[0] = 1 /\ \A i \in Nat : p[i + 1] = p[i] * b
  BY <1>3
<1> HIDE DEF Def
<1> DEFINE K == {n \in Nat : p[n] \in Int}
<1>6. 0 \in K /\ \A n \in Nat : n \in K => n + 1 \in K
  BY <1>5
<1> HIDE DEF K
<1>7. Nat \subseteq K
  BY <1>6, NatSetInduction
<1>8. \A n \in Nat : p[n] \in Int
  BY <1>7 DEF K
<1>9. QED
  BY <1>4, <1>5, <1>8

LEMMA PowerZero == ASSUME NEW b \in Int PROVE Power(b, 0) = 1
  BY PowerDef, Zenon

LEMMA PowerInt == ASSUME NEW b \in Int, NEW n \in Nat PROVE Power(b, n) \in Int
  BY PowerDef, Zenon

LEMMA PowerNext == ASSUME NEW b \in Int, NEW n \in Nat PROVE Power(b, n + 1) = Power(b, n) * b
  BY PowerDef, Zenon

LEMMA PowerPositive ==
    ASSUME NEW b \in Nat \ {0}, NEW n \in Nat
    PROVE  Power(b, n) \in Nat \ {0}
<1>0. b \in Int
  OBVIOUS
<1> DEFINE K == {k \in Nat : Power(b, k) \in Nat \ {0}}
<1>1. 0 \in K
  BY <1>0, PowerZero
<1>2. ASSUME NEW k \in Nat, k \in K PROVE k + 1 \in K
  <2>1. Power(b, k + 1) = Power(b, k) * b
    BY <1>0, PowerNext, Zenon
  <2>2. Power(b, k) \in Nat \ {0}
    BY <1>2
  <2>3. Power(b, k) * b \in Nat \ {0}
    BY <2>2
  <2>4. QED
    BY <2>1, <2>3
<1> HIDE DEF K
<1>3. Nat \subseteq K
  BY <1>1, <1>2, NatSetInduction
<1>4. QED
  BY <1>3 DEF K

LEMMA PowerPlus ==
    ASSUME NEW b \in Int, NEW m \in Nat, NEW n \in Nat
    PROVE  Power(b, m + n) = Power(b, m) * Power(b, n)
<1> DEFINE K == {k \in Nat : Power(b, m + k) = Power(b, m) * Power(b, k)}
<1>0. Power(b, m) \in Int
  BY PowerInt
<1>1. 0 \in K
  <2>1. Power(b, 0) = 1 /\ m + 0 = m
    BY PowerZero
  <2>2. QED
    BY <1>0, <2>1
<1>2. ASSUME NEW k \in Nat, k \in K PROVE k + 1 \in K
  <2>1. m + k \in Nat /\ (m + k) + 1 = m + (k + 1)
    OBVIOUS
  <2>2. Power(b, (m + k) + 1) = Power(b, m + k) * b /\ Power(b, k + 1) = Power(b, k) * b
    BY <2>1, PowerNext, Zenon
  <2>3. Power(b, k) \in Int
    BY PowerInt
  <2>4. (Power(b, m) * Power(b, k)) * b = Power(b, m) * (Power(b, k) * b)
    BY <1>0, <2>3
  <2>5. Power(b, m + k) = Power(b, m) * Power(b, k)
    BY <1>2
  <2>6. Power(b, m + (k + 1)) = Power(b, m) * Power(b, k + 1)
    BY <2>1, <2>2, <2>4, <2>5
  <2>7. QED
    BY <2>6
<1> HIDE DEF K
<1>3. Nat \subseteq K
  BY <1>1, <1>2, NatSetInduction
<1>4. QED
  BY <1>3 DEF K

LEMMA PowerMonotone ==
    ASSUME NEW b \in Nat \ {0}, NEW m \in Nat, NEW n \in Nat, m <= n
    PROVE  Power(b, m) <= Power(b, n)
<1>1. n - m \in Nat /\ m + (n - m) = n /\ b \in Int
  OBVIOUS
<1>2. Power(b, m + (n - m)) = Power(b, m) * Power(b, n - m)
  BY <1>1, PowerPlus, Zenon
<1>3. Power(b, m) \in Nat \ {0} /\ Power(b, n - m) \in Nat \ {0}
  BY <1>1, PowerPositive, Zenon
<1>4. Power(b, m) <= Power(b, m) * Power(b, n - m)
  BY <1>3
<1>5. QED
  BY <1>1, <1>2, <1>4

LEMMA PowerExceeds ==
    ASSUME NEW b \in Nat, b > 1, NEW n \in Nat
    PROVE  n < Power(b, n)
<1>0. b \in Int
  OBVIOUS
<1> DEFINE K == {k \in Nat : k < Power(b, k)}
<1>1. 0 \in K
  BY <1>0, PowerZero
<1>2. ASSUME NEW k \in Nat, k \in K PROVE k + 1 \in K
  <2>1. Power(b, k + 1) = Power(b, k) * b /\ Power(b, k) \in Int
    BY <1>0, PowerNext, PowerInt, Zenon
  <2>2. k < Power(b, k)
    BY <1>2
  <2>3. k + 1 < Power(b, k) * b
    BY <2>1, <2>2
  <2>4. QED
    BY <2>1, <2>3
<1> HIDE DEF K
<1>3. Nat \subseteq K
  BY <1>1, <1>2, NatSetInduction
<1>4. QED
  BY <1>3 DEF K

----------------------------------------------------------------------------
(* The values of the beginnings of a sequence of digits.                   *)

IntDigits(c)     == \A i \in Nat : Digit(c, i) \in Int
BaseDigits(b, c) == \A i \in Nat : Digit(c, i) \in 0..(b - 1)

LEMMA BaseDigitsInt ==
    ASSUME NEW b \in Int, NEW c, BaseDigits(b, c)
    PROVE  IntDigits(c)
  BY DEF BaseDigits, IntDigits

LEMMA PrefixDef ==
    ASSUME NEW b \in Int, NEW c, IntDigits(c)
    PROVE  /\ Prefix(c, b, 0) = 0
           /\ \A k \in Nat : /\ Prefix(c, b, k) \in Int
                             /\ Prefix(c, b, k + 1) = Prefix(c, b, k) * b + Digit(c, k + 1)
<1> USE DEF IntDigits
<1> DEFINE F == [i \in Nat |-> [v \in Int |-> v * b + Digit(c, i)]]
           Def(p) == p = [i \in Nat |-> IF i = 0 THEN 0 ELSE p[i - 1] * b + Digit(c, i)]
           p == CHOOSE p : Def(p)
<1>0. F \in [Nat -> [Int -> Int]]
  OBVIOUS
<1>1. PICK f : Recursion(Int, 0, F, f)
  <2>1. 0 \in Int
    OBVIOUS
  <2> HIDE DEF F
  <2>2. QED
    BY <1>0, <2>1, RecursionExists, Zenon
<1>2. Def(f)
  <2>1. ASSUME NEW i \in Nat PROVE f[i] = IF i = 0 THEN 0 ELSE f[i - 1] * b + Digit(c, i)
    <3>1. CASE i = 0
      BY <1>1, <3>1 DEF Recursion
    <3>2. CASE i # 0
      <4>1. i - 1 \in Nat /\ (i - 1) + 1 = i
        BY <3>2
      <4>2. f[i] = F[i][f[i - 1]]
        BY <1>1, <4>1 DEF Recursion
      <4>3. QED
        BY <1>1, <3>2, <4>1, <4>2 DEF Recursion
    <3>3. QED
      BY <3>1, <3>2
  <2>2. QED
    BY <1>1, <2>1 DEF Recursion
<1>3. Def(p)
  BY <1>2
<1>4. \A n \in Nat : Prefix(c, b, n) = p[n]
  BY DEF Prefix
<1> HIDE DEF p
<1>5. p[0] = 0 /\ \A i \in Nat : p[i + 1] = p[i] * b + Digit(c, i + 1)
  BY <1>3
<1> HIDE DEF Def
<1> DEFINE K == {n \in Nat : p[n] \in Int}
<1>6. 0 \in K /\ \A n \in Nat : n \in K => n + 1 \in K
  BY <1>5
<1> HIDE DEF K
<1>7. Nat \subseteq K
  BY <1>6, NatSetInduction
<1>8. \A n \in Nat : p[n] \in Int
  BY <1>7 DEF K
<1>9. QED
  BY <1>4, <1>5, <1>8

LEMMA PrefixZero == ASSUME NEW b \in Int, NEW c, IntDigits(c) PROVE Prefix(c, b, 0) = 0
  BY PrefixDef, Zenon

LEMMA PrefixInt ==
    ASSUME NEW b \in Int, NEW c, IntDigits(c), NEW k \in Nat
    PROVE  Prefix(c, b, k) \in Int
  BY PrefixDef, Zenon

LEMMA PrefixNext ==
    ASSUME NEW b \in Int, NEW c, IntDigits(c), NEW k \in Nat
    PROVE  Prefix(c, b, k + 1) = Prefix(c, b, k) * b + Digit(c, k + 1)
  BY PrefixDef, Zenon

LEMMA PrefixBounds ==
    ASSUME NEW b \in Nat \ {0}, NEW c, BaseDigits(b, c), NEW n \in Nat
    PROVE  Prefix(c, b, n) \in Nat /\ Prefix(c, b, n) < Power(b, n)
<1> DEFINE K == {k \in Nat : Prefix(c, b, k) \in Nat /\ Prefix(c, b, k) < Power(b, k)}
<1>0. b \in Int /\ IntDigits(c)
  BY BaseDigitsInt
<1>1. 0 \in K
  <2>1. Prefix(c, b, 0) = 0 /\ Power(b, 0) = 1
    BY <1>0, PowerZero, PrefixZero, Zenon
  <2>2. QED
    BY <2>1
<1>2. ASSUME NEW k \in Nat, k \in K PROVE k + 1 \in K
  <2>1. Prefix(c, b, k + 1) = Prefix(c, b, k) * b + Digit(c, k + 1)
    BY <1>0, PrefixNext, Zenon
  <2>2. Power(b, k + 1) = Power(b, k) * b /\ Power(b, k) \in Int
    BY <1>0, PowerNext, PowerInt, Zenon
  <2>3. Digit(c, k + 1) \in 0..(b - 1)
    BY DEF BaseDigits
  <2>4. Prefix(c, b, k) \in Nat /\ Prefix(c, b, k) < Power(b, k)
    BY <1>2
  <2>5. (Prefix(c, b, k) + 1) * b <= Power(b, k) * b
    BY <2>2, <2>4
  <2>6. (Prefix(c, b, k) + 1) * b = Prefix(c, b, k) * b + b /\ Prefix(c, b, k) * b \in Nat
    BY <2>4
  <2>7. Prefix(c, b, k + 1) \in Nat /\ Prefix(c, b, k + 1) < Power(b, k + 1)
    BY <2>1, <2>2, <2>3, <2>5, <2>6
  <2>8. QED
    BY <2>7
<1> HIDE DEF K
<1>3. Nat \subseteq K
  BY <1>1, <1>2, NatSetInduction
<1>4. QED
  BY <1>3 DEF K

(* The digits of c from m + 1 on are those of d.                           *)
LEMMA PrefixSplit ==
    ASSUME NEW b \in Int, NEW c, NEW d, NEW m \in Nat, NEW n \in Nat,
           IntDigits(c), IntDigits(d), \A i \in 1..n : Digit(c, m + i) = Digit(d, i)
    PROVE  Prefix(c, b, m + n) = Prefix(c, b, m) * Power(b, n) + Prefix(d, b, n)
<1> DEFINE K == {k \in Nat : k <= n =>
                    Prefix(c, b, m + k) = Prefix(c, b, m) * Power(b, k) + Prefix(d, b, k)}
<1>0. Prefix(c, b, m) \in Int
  BY PrefixInt, Zenon
<1>1. 0 \in K
  <2>1. Prefix(d, b, 0) = 0 /\ Power(b, 0) = 1 /\ m + 0 = m
    BY PowerZero, PrefixZero
  <2>2. QED
    BY <1>0, <2>1
<1>2. ASSUME NEW k \in Nat, k \in K PROVE k + 1 \in K
  <2>1. SUFFICES ASSUME k + 1 <= n
                 PROVE  Prefix(c, b, m + (k + 1)) = Prefix(c, b, m) * Power(b, k + 1) + Prefix(d, b, k + 1)
    OBVIOUS
  <2>2. m + k \in Nat /\ (m + k) + 1 = m + (k + 1) /\ k + 1 \in 1..n
    BY <2>1
  <2>3. Prefix(c, b, (m + k) + 1) = Prefix(c, b, m + k) * b + Digit(c, (m + k) + 1)
    BY <2>2, PrefixNext, Zenon
  <2>4. Prefix(d, b, k + 1) = Prefix(d, b, k) * b + Digit(d, k + 1) /\ Prefix(d, b, k) \in Int
    BY PrefixNext, PrefixInt, Zenon
  <2>5. Power(b, k + 1) = Power(b, k) * b /\ Power(b, k) \in Int
    BY PowerNext, PowerInt, Zenon
  <2>6. Digit(c, m + (k + 1)) = Digit(d, k + 1) /\ Digit(d, k + 1) \in Int
    BY <2>2 DEF IntDigits
  <2>7. Prefix(c, b, m + k) = Prefix(c, b, m) * Power(b, k) + Prefix(d, b, k)
    BY <1>2, <2>1
  <2>8. (Prefix(c, b, m) * Power(b, k) + Prefix(d, b, k)) * b
            = Prefix(c, b, m) * (Power(b, k) * b) + Prefix(d, b, k) * b
    BY <1>0, <2>4, <2>5
  <2>9. Prefix(c, b, m) * (Power(b, k) * b) \in Int /\ Prefix(d, b, k) * b \in Int
    BY <1>0, <2>4, <2>5
  <2>10. QED
    BY <2>2, <2>3, <2>4, <2>5, <2>6, <2>7, <2>8, <2>9
<1> HIDE DEF K
<1>3. Nat \subseteq K
  BY <1>1, <1>2, NatSetInduction
<1>4. QED
  BY <1>3 DEF K

LEMMA PrefixSame ==
    ASSUME NEW b \in Int, NEW c, NEW d, NEW n \in Nat,
           IntDigits(c), IntDigits(d), \A i \in 1..n : Digit(c, i) = Digit(d, i)
    PROVE  Prefix(c, b, n) = Prefix(d, b, n)
<1>1. Prefix(c, b, 0 + n) = Prefix(c, b, 0) * Power(b, n) + Prefix(d, b, n)
  <2>1. \A i \in 1..n : Digit(c, 0 + i) = Digit(d, i)
    OBVIOUS
  <2>2. 0 \in Nat
    OBVIOUS
  <2>3. QED
    BY <2>1, <2>2, PrefixSplit
<1>2. Prefix(c, b, 0) = 0 /\ Power(b, n) \in Int /\ Prefix(d, b, n) \in Int
  BY PowerInt, PrefixZero, PrefixInt, Zenon
<1>3. 0 + n = n
  OBVIOUS
<1>4. QED
  BY <1>1, <1>2, <1>3

(* Zeros behind the first m digits.                                        *)
LEMMA PrefixZerosBehind ==
    ASSUME NEW b \in Int, NEW c, NEW m \in Nat, NEW n \in Nat,
           IntDigits(c), \A i \in 1..n : Digit(c, m + i) = 0
    PROVE  Prefix(c, b, m + n) = Prefix(c, b, m) * Power(b, n)
<1> DEFINE K == {k \in Nat : k <= n => Prefix(c, b, m + k) = Prefix(c, b, m) * Power(b, k)}
<1>0. Prefix(c, b, m) \in Int
  BY PrefixInt, Zenon
<1>1. 0 \in K
  <2>1. Power(b, 0) = 1 /\ m + 0 = m
    BY PowerZero
  <2>2. QED
    BY <1>0, <2>1
<1>2. ASSUME NEW k \in Nat, k \in K PROVE k + 1 \in K
  <2>1. SUFFICES ASSUME k + 1 <= n
                 PROVE  Prefix(c, b, m + (k + 1)) = Prefix(c, b, m) * Power(b, k + 1)
    OBVIOUS
  <2>2. m + k \in Nat /\ (m + k) + 1 = m + (k + 1) /\ k + 1 \in 1..n
    BY <2>1
  <2>3. Prefix(c, b, (m + k) + 1) = Prefix(c, b, m + k) * b + Digit(c, (m + k) + 1)
    BY <2>2, PrefixNext, Zenon
  <2>4. Power(b, k + 1) = Power(b, k) * b /\ Power(b, k) \in Int
    BY PowerNext, PowerInt, Zenon
  <2>5. Digit(c, m + (k + 1)) = 0
    BY <2>2
  <2>6. Prefix(c, b, m + k) = Prefix(c, b, m) * Power(b, k)
    BY <1>2, <2>1
  <2>7. (Prefix(c, b, m) * Power(b, k)) * b = Prefix(c, b, m) * (Power(b, k) * b)
        /\ (Prefix(c, b, m) * Power(b, k)) * b \in Int
    BY <1>0, <2>4
  <2>8. QED
    BY <2>2, <2>3, <2>4, <2>5, <2>6, <2>7
<1> HIDE DEF K
<1>3. Nat \subseteq K
  BY <1>1, <1>2, NatSetInduction
<1>4. QED
  BY <1>3 DEF K

LEMMA PrefixOfZeros ==
    ASSUME NEW b \in Int, NEW c, NEW n \in Nat, IntDigits(c), \A i \in 1..n : Digit(c, i) = 0
    PROVE  Prefix(c, b, n) = 0
<1>1. \A i \in 1..n : Digit(c, 0 + i) = 0
  OBVIOUS
<1>2. 0 \in Nat /\ 0 + n = n
  OBVIOUS
<1>3. Prefix(c, b, 0 + n) = Prefix(c, b, 0) * Power(b, n)
  BY <1>1, <1>2, PrefixZerosBehind, Zenon
<1>4. Prefix(c, b, 0) = 0 /\ Power(b, n) \in Int
  BY PowerInt, PrefixZero, Zenon
<1>5. QED
  BY <1>2, <1>3, <1>4

(* Zeros before the digits of d.                                           *)
LEMMA PrefixZerosBefore ==
    ASSUME NEW b \in Int, NEW c, NEW d, NEW m \in Nat, NEW n \in Nat,
           IntDigits(c), IntDigits(d), \A i \in 1..m : Digit(c, i) = 0,
           \A i \in 1..n : Digit(c, m + i) = Digit(d, i)
    PROVE  Prefix(c, b, m + n) = Prefix(d, b, n)
<1>1. Prefix(c, b, m + n) = Prefix(c, b, m) * Power(b, n) + Prefix(d, b, n)
  BY PrefixSplit
<1>2. Prefix(c, b, m) = 0
  BY PrefixOfZeros, Zenon
<1>3. Power(b, n) \in Int /\ Prefix(d, b, n) \in Int
  BY PowerInt, PrefixInt, Zenon
<1>4. QED
  BY <1>1, <1>2, <1>3

(* What is smaller after m digits is smaller after more of them.           *)
LEMMA PrefixOrder ==
    ASSUME NEW b \in Nat \ {0}, NEW c, NEW d, BaseDigits(b, c), BaseDigits(b, d),
           NEW m \in Nat, NEW n \in Nat, m <= n, Prefix(c, b, m) < Prefix(d, b, m)
    PROVE  Prefix(c, b, n) < Prefix(d, b, n)
<1> DEFINE K == {k \in Nat : Prefix(c, b, m + k) < Prefix(d, b, m + k)}
<1>0. b \in Int /\ IntDigits(c) /\ IntDigits(d)
  BY BaseDigitsInt
<1>1. 0 \in K
  OBVIOUS
<1>2. ASSUME NEW k \in Nat, k \in K PROVE k + 1 \in K
  <2>1. m + k \in Nat /\ (m + k) + 1 = m + (k + 1)
    OBVIOUS
  <2>2. /\ Prefix(c, b, (m + k) + 1) = Prefix(c, b, m + k) * b + Digit(c, (m + k) + 1)
        /\ Prefix(d, b, (m + k) + 1) = Prefix(d, b, m + k) * b + Digit(d, (m + k) + 1)
        /\ Prefix(c, b, m + k) \in Int /\ Prefix(d, b, m + k) \in Int
    BY <1>0, <2>1, PrefixNext, PrefixInt, Zenon
  <2>3. Prefix(c, b, m + k) < Prefix(d, b, m + k)
    BY <1>2
  <2>4. (Prefix(c, b, m + k) + 1) * b <= Prefix(d, b, m + k) * b
    BY <2>2, <2>3
  <2>5. (Prefix(c, b, m + k) + 1) * b = Prefix(c, b, m + k) * b + b
        /\ Prefix(c, b, m + k) * b \in Int /\ Prefix(d, b, m + k) * b \in Int
    BY <2>2
  <2>6. Digit(c, (m + k) + 1) \in 0..(b - 1) /\ Digit(d, (m + k) + 1) \in 0..(b - 1)
    BY DEF BaseDigits
  <2>7. Prefix(c, b, (m + k) + 1) < Prefix(d, b, (m + k) + 1)
    BY <2>2, <2>4, <2>5, <2>6
  <2>8. QED
    BY <2>1, <2>7
<1> HIDE DEF K
<1>3. Nat \subseteq K
  BY <1>1, <1>2, NatSetInduction
<1>4. n - m \in K /\ m + (n - m) = n
  BY <1>3
<1>5. QED
  BY <1>4 DEF K

LEMMA PrefixLeading ==
    ASSUME NEW b \in Nat \ {0}, NEW c, BaseDigits(b, c), NEW n \in Nat, Digit(c, 1) # 0
    PROVE  Prefix(c, b, n + 1) >= Power(b, n)
<1> DEFINE K == {k \in Nat : Prefix(c, b, k + 1) >= Power(b, k)}
<1>0. b \in Int /\ IntDigits(c)
  BY BaseDigitsInt
<1>1. 0 \in K
  <2>1. 0 \in Nat
    OBVIOUS
  <2>2. Prefix(c, b, 0 + 1) = Prefix(c, b, 0) * b + Digit(c, 0 + 1) /\ Prefix(c, b, 0) = 0
    BY <1>0, <2>1, PrefixNext, PrefixZero, Zenon
  <2>3. Digit(c, 1) \in 0..(b - 1) /\ Power(b, 0) = 1
    BY <1>0, PowerZero DEF BaseDigits
  <2>4. Prefix(c, b, 0 + 1) >= Power(b, 0)
    BY <2>2, <2>3
  <2>5. QED
    BY <2>4
<1>2. ASSUME NEW k \in Nat, k \in K PROVE k + 1 \in K
  <2>0. k + 1 \in Nat
    OBVIOUS
  <2>1. /\ Prefix(c, b, (k + 1) + 1) = Prefix(c, b, k + 1) * b + Digit(c, (k + 1) + 1)
        /\ Prefix(c, b, k + 1) \in Int
    BY <1>0, <2>0, PrefixNext, PrefixInt, Zenon
  <2>2. Power(b, k + 1) = Power(b, k) * b /\ Power(b, k) \in Int
    BY <1>0, PowerNext, PowerInt, Zenon
  <2>3. Prefix(c, b, k + 1) >= Power(b, k)
    BY <1>2
  <2>4. Prefix(c, b, k + 1) * b >= Power(b, k) * b
    BY <2>1, <2>2, <2>3
  <2>5. Digit(c, (k + 1) + 1) \in Nat
    BY DEF BaseDigits
  <2>6. Prefix(c, b, k + 1) * b \in Int /\ Power(b, k) * b \in Int
    BY <2>1, <2>2
  <2>7. Prefix(c, b, (k + 1) + 1) >= Power(b, k + 1)
    BY <2>1, <2>2, <2>4, <2>5, <2>6
  <2>8. QED
    BY <2>7
<1> HIDE DEF K
<1>3. Nat \subseteq K
  BY <1>1, <1>2, NatSetInduction
<1>4. QED
  BY <1>3 DEF K

----------------------------------------------------------------------------
(* Sequences of digits and normal forms.                                   *)

LEMMA MaxMinOf ==
    ASSUME NEW n \in Nat, NEW S \in SUBSET (1..n), S # {}
    PROVE  /\ Max(S) \in S /\ \A y \in S : y <= Max(S)
           /\ Min(S) \in S /\ \A y \in S : Min(S) <= y
<1>1. \E x \in S : \A y \in S : y <= x
  <2>1. SUFFICES ASSUME ~(\E x \in S : \A y \in S : y <= x) PROVE FALSE
    OBVIOUS
  <2> DEFINE H == {k \in Nat : \E y \in S : k < y}
  <2>2. 0 \in H
    <3>1. PICK y : y \in S
      OBVIOUS
    <3>2. 0 < y
      BY <3>1
    <3>3. QED
      BY <3>1, <3>2
  <2>3. ASSUME NEW k \in Nat, k \in H PROVE k + 1 \in H
    <3>1. PICK y \in S : k < y
      BY <2>3
    <3>2. PICK z \in S : ~(z <= y)
      BY <2>1
    <3>3. QED
      BY <3>1, <3>2
  <2> HIDE DEF H
  <2>4. n \in H
    BY <2>2, <2>3, NatSetInduction
  <2>5. QED
    BY <2>4 DEF H
<1>2. \E x \in S : \A y \in S : x <= y
  <2>1. SUFFICES ASSUME ~(\E x \in S : \A y \in S : x <= y) PROVE FALSE
    OBVIOUS
  <2> DEFINE H == {k \in Nat : \E y \in S : y <= n - k}
  <2>2. 0 \in H
    <3>1. PICK y : y \in S
      OBVIOUS
    <3>2. y <= n - 0
      BY <3>1
    <3>3. QED
      BY <3>1, <3>2
  <2>3. ASSUME NEW k \in Nat, k \in H PROVE k + 1 \in H
    <3>1. PICK y \in S : y <= n - k
      BY <2>3
    <3>2. PICK z \in S : ~(y <= z)
      BY <2>1
    <3>3. QED
      BY <3>1, <3>2
  <2> HIDE DEF H
  <2>4. n \in H
    BY <2>2, <2>3, NatSetInduction
  <2>5. QED
    BY <2>4 DEF H
<1>3. Max(S) \in S /\ \A y \in S : Max(S) >= y
  BY <1>1 DEF Max
<1>4. Min(S) \in S /\ \A y \in S : Min(S) <= y
  BY <1>2 DEF Min
<1>5. QED
  BY <1>3, <1>4

LEMMA DropTrailing ==
    ASSUME NEW S, NEW c \in Seq(S), NEW i \in 1..Len(c), c[i] # 0
    PROVE  /\ DropTrailingZeros(c) \in Seq(S)
           /\ Len(DropTrailingZeros(c)) \in i..Len(c)
           /\ \A j \in 1..Len(DropTrailingZeros(c)) : DropTrailingZeros(c)[j] = c[j]
           /\ c[Len(DropTrailingZeros(c))] # 0
           /\ \A j \in 1..Len(c) : j > Len(DropTrailingZeros(c)) => c[j] = 0
<1> DEFINE m == Max(Significant(c))
<1>1. Significant(c) \in SUBSET (1..Len(c)) /\ i \in Significant(c) /\ Len(c) \in Nat
  BY DEF Significant
<1>2. m \in Significant(c) /\ \A y \in Significant(c) : y <= m
  BY <1>1, MaxMinOf
<1>3. DropTrailingZeros(c) = SubSeq(c, 1, m)
  BY <1>1 DEF DropTrailingZeros
<1> HIDE DEF m
<1>4. m \in i..Len(c) /\ c[m] # 0 /\ \A j \in 1..Len(c) : j > m => c[j] = 0
  BY <1>1, <1>2 DEF Significant
<1>5. SubSeq(c, 1, m) \in Seq(S) /\ Len(SubSeq(c, 1, m)) = m
      /\ \A j \in 1..m : SubSeq(c, 1, m)[j] = c[j]
  BY <1>4, SubSeqProperties
<1>6. QED
  BY <1>3, <1>4, <1>5

(* The first of the significant digits.                                    *)
LEMMA Leading ==
    ASSUME NEW S, NEW c \in Seq(S), LeadingZeros(c) # Len(c)
    PROVE  /\ LeadingZeros(c) \in 0..(Len(c) - 1)
           /\ c[LeadingZeros(c) + 1] # 0
           /\ \A i \in 1..LeadingZeros(c) : c[i] = 0
<1>1. Significant(c) # {} /\ Significant(c) \in SUBSET (1..Len(c)) /\ Len(c) \in Nat
  BY DEF LeadingZeros, Significant
<1>2. Min(Significant(c)) \in Significant(c) /\ \A y \in Significant(c) : Min(Significant(c)) <= y
  BY <1>1, MaxMinOf
<1>3. LeadingZeros(c) = Min(Significant(c)) - 1
  BY <1>1 DEF LeadingZeros
<1> DEFINE m == Min(Significant(c))
<1> HIDE DEF m
<1>4. m \in Significant(c) /\ (\A y \in Significant(c) : m <= y) /\ LeadingZeros(c) = m - 1
  BY <1>2, <1>3 DEF m
<1>5. m \in 1..Len(c) /\ c[m] # 0
  BY <1>1, <1>4 DEF Significant
<1>6. ASSUME NEW i \in 1..Len(c), i < m PROVE c[i] = 0
  <2>1. i \notin Significant(c)
    BY <1>4, <1>5, <1>6
  <2>2. QED
    BY <2>1 DEF Significant
<1>7. QED
  BY <1>1, <1>4, <1>5, <1>6

LEMMA NoLeading ==
    ASSUME NEW S, NEW c \in Seq(S), LeadingZeros(c) = Len(c)
    PROVE  \A i \in 1..Len(c) : c[i] = 0
<1>1. Significant(c) \in SUBSET (1..Len(c)) /\ Len(c) \in Nat
  BY DEF Significant
<1>2. ASSUME Significant(c) # {} PROVE FALSE
  <2>1. Min(Significant(c)) \in Significant(c)
    BY <1>1, <1>2, MaxMinOf
  <2>2. LeadingZeros(c) = Min(Significant(c)) - 1
    BY <1>2 DEF LeadingZeros
  <2>3. QED
    BY <1>1, <2>1, <2>2
<1>3. QED
  BY <1>2 DEF Significant

Leads(c) == c \in Seq(0..9) /\ Len(c) > 0 /\ c[1] # 0

LEMMA NormalOfDigits ==
    ASSUME NEW s \in {-1, 1}, NEW e \in Int, NEW c, Leads(c)
    PROVE  Normal(BigNum(s, e, DropTrailingZeros(c)))
<1>1. c \in Seq(0..9) /\ 1 \in 1..Len(c) /\ c[1] # 0
  BY DEF Leads
<1> DEFINE d == DropTrailingZeros(c)
<1>2. d \in Seq(0..9) /\ Len(d) \in 1..Len(c) /\ d[1] = c[1] /\ d[Len(d)] = c[Len(d)] /\ c[Len(d)] # 0
  BY <1>1, DropTrailing
<1> HIDE DEF d
<1>3. d # <<>>
  BY <1>2
<1>4. Normal(BigNum(s, e, d))
  BY <1>1, <1>2, <1>3 DEF Normal, Numbers, BigNum
<1>5. QED
  BY <1>4 DEF d

LEMMA NormalFacts ==
    ASSUME NEW n, Normal(n)
    PROVE  /\ n \in [s : {-1, 0, 1}, e : Int, c : Seq(0..9)]
           /\ n = BigNum(n.s, n.e, n.c)
           /\ IsFinite(n) => n.s \in {-1, 1} /\ Len(n.c) \in Nat \ {0}
           /\ (IsFinite(n) /\ ~IsZero(n)) => Leads(n.c) /\ n.c[Len(n.c)] # 0
           /\ IsZero(n) => n.e = 0 /\ n.c = <<0>>
           /\ ~IsFinite(n) => n.e = 0 /\ n.c = <<>>
  BY DEF Normal, Numbers, IsFinite, IsZero, BigNum, Leads

(* Digits that need no normal form.                                        *)
HasDigits(n) == n.s \in {-1, 1} /\ n.e \in Int /\ n.c \in Seq(0..9) /\ Len(n.c) > 0

LEMMA FiniteHasDigits ==
    ASSUME NEW n, Normal(n), IsFinite(n)
    PROVE  HasDigits(n)
  BY NormalFacts DEF HasDigits

LEMMA NormalConstants ==
    /\ Normal(NaN) /\ Normal(ONE)
    /\ \A s \in {-1, 0, 1} : Normal(Infinity(s))
    /\ \A s \in {-1, 1} : Normal(Zero(s))
  BY DEF Normal, Numbers, NaN, ONE, Infinity, Zero, BigNum

LEMMA NoThrow ==
    /\ \A n : Normal(n) => ~Threw(n)
    /\ Threw(TypeError) /\ Threw(BigNumberError)
  BY DEF Normal, Numbers, Threw, TypeError, BigNumberError

(* A result is a number in normal form, or an exception.                   *)
Result(r) == Normal(r) \/ r \in {TypeError, BigNumberError}

LEMMA NormalNeg ==
    ASSUME NEW n, Normal(n)
    PROVE  Normal(Neg(n)) /\ Normal(Abs(n))
<1>1. n \in Numbers
  BY DEF Normal
<1>2. Neg(n) = [s |-> -n.s, e |-> n.e, c |-> n.c]
  BY <1>1 DEF Neg, Numbers
<1>3. Normal(Neg(n))
  BY <1>1, <1>2 DEF Normal, Numbers
<1>4. QED
  BY <1>3 DEF Abs

----------------------------------------------------------------------------
(* Rounding.                                                               *)

LEMMA FirstDigits ==
    ASSUME NEW c, Leads(c), NEW k \in Nat \ {0}
    PROVE  Leads(SubSeq(c, 1, IF k < Len(c) THEN k ELSE Len(c)))
<1> DEFINE m == IF k < Len(c) THEN k ELSE Len(c)
<1>1. c \in Seq(0..9) /\ Len(c) \in Nat \ {0} /\ c[1] # 0
  BY DEF Leads
<1>2. m \in 1..Len(c)
  BY <1>1
<1> HIDE DEF m
<1>3. \A i \in 1..m : c[i] \in 0..9
  BY <1>1, <1>2
<1>4. SubSeq(c, 1, m) \in Seq(0..9) /\ Len(SubSeq(c, 1, m)) = m /\ SubSeq(c, 1, m)[1] = c[1]
  BY <1>2, <1>3, SubSeqProperties
<1>5. Leads(SubSeq(c, 1, m))
  BY <1>1, <1>2, <1>4 DEF Leads
<1>6. QED
  BY <1>5 DEF m

LEMMA IncrementNormal ==
    ASSUME NEW s \in {-1, 1}, NEW e \in Int, NEW c, Leads(c)
    PROVE  /\ Increment(e, c, 10).e \in Int
           /\ Normal(BigNum(s, Increment(e, c, 10).e, Increment(e, c, 10).c))
<1>1. c \in Seq(0..9) /\ Len(c) \in Nat \ {0} /\ c[1] # 0
  BY DEF Leads
<1>2. CASE LowDigits(c, 10) = {}
  <2>1. Increment(e, c, 10) = [e |-> e + 1, c |-> <<1>>]
    BY <1>2 DEF Increment
  <2>2. Normal(BigNum(s, e + 1, <<1>>))
    BY DEF Normal, Numbers, BigNum
  <2>3. QED
    BY <2>1, <2>2
<1>3. CASE LowDigits(c, 10) # {}
  <2>1. LowDigits(c, 10) \in SUBSET (1..Len(c))
    BY <1>1 DEF LowDigits
  <2>2. Max(LowDigits(c, 10)) \in LowDigits(c, 10)
    BY <1>1, <1>3, <2>1, MaxMinOf
  <2> DEFINE m == Max(LowDigits(c, 10))
             d == SubSeq(c, 1, m)
             f == [d EXCEPT ![m] = @ + 1]
  <2>3. Increment(e, c, 10) = [e |-> e, c |-> f]
    BY <1>3 DEF Increment, AddOneAt
  <2> HIDE DEF f
  <2>13. f = [d EXCEPT ![m] = d[m] + 1]
    BY DEF f
  <2>14. m \in LowDigits(c, 10)
    BY <2>2
  <2> HIDE DEF m
  <2>4. m \in 1..Len(c) /\ c[m] \in 0..8
    BY <1>1, <2>14 DEF LowDigits
  <2>5. \A i \in 1..m : c[i] \in 0..9
    BY <1>1, <2>4
  <2>6. d \in Seq(0..9) /\ Len(d) = m /\ \A i \in 1..m : d[i] = c[i]
    BY <2>4, <2>5, SubSeqProperties
  <2> HIDE DEF d
  <2>7. m \in 1..Len(d) /\ d[m] + 1 \in 0..9 /\ d[m] + 1 # 0 /\ d[1] # 0
    BY <1>1, <2>4, <2>6
  <2>8. f \in Seq(0..9) /\ Len(f) = m /\ \A j \in 1..m : f[j] = IF j = m THEN d[m] + 1 ELSE d[j]
    BY <2>6, <2>7, <2>13, ExceptSeq
  <2>9. f # <<>> /\ f[1] # 0 /\ f[Len(f)] # 0
    BY <2>7, <2>8
  <2>10. Normal(BigNum(s, e, f))
    BY <2>8, <2>9 DEF Normal, Numbers, BigNum
  <2>11. Increment(e, c, 10).e = e /\ Increment(e, c, 10).c = f
    BY <2>3
  <2>12. QED
    BY <2>10, <2>11
<1>4. QED
  BY <1>2, <1>3

LEMMA RoundNormal ==
    ASSUME NEW g, NEW x, HasDigits(x), NEW dp \in Int,
           NEW isOdd \in BOOLEAN, NEW rest \in BOOLEAN
    PROVE  Normal(Rnd(g, x, dp, 10, isOdd, rest))
<1> DEFINE i  == x.e + dp + 1
           up == RoundsUp(g.rm, x, i, 10, dp = 0 /\ isOdd, rest)
           kept == SubSeq(x.c, 1, IF i < Len(x.c) THEN i ELSE Len(x.c))
           more == IF up THEN Increment(x.e, kept, 10) ELSE [e |-> x.e, c |-> DropTrailingZeros(kept)]
<1>0. x.s \in {-1, 1} /\ x.e \in Int /\ x.c \in Seq(0..9) /\ Len(x.c) > 0
  BY DEF HasDigits
<1>1. Rnd(g, x, dp, 10, isOdd, rest) =
          IF i >= 1 /\ ~IsZero(x) THEN BigNum(x.s, more.e, more.c)
          ELSE IF up THEN BigNum(x.s, -dp, <<1>>) ELSE Zero(x.s)
  BY DEF Rnd
<1> HIDE DEF up
<1>2. CASE i >= 1 /\ ~IsZero(x)
  <2>1. Leads(x.c) /\ i \in Nat \ {0}
    BY <1>0, <1>2 DEF IsZero, IsFinite, Leads
  <2> HIDE DEF i
  <2>2. Leads(kept)
    BY <2>1, FirstDigits
  <2> HIDE DEF kept
  <2>3. Normal(BigNum(x.s, more.e, more.c))
    <3>1. CASE up
      BY <1>0, <2>2, <3>1, IncrementNormal
    <3>2. CASE ~up
      BY <1>0, <2>2, <3>2, NormalOfDigits
    <3>3. QED
      BY <3>1, <3>2
  <2> HIDE DEF more
  <2>4. QED
    BY <1>1, <1>2, <2>3
<1>3. CASE ~(i >= 1 /\ ~IsZero(x))
  <2>1. Normal(BigNum(x.s, -dp, <<1>>))
    BY <1>0 DEF Normal, Numbers, BigNum
  <2>2. Normal(Zero(x.s))
    BY <1>0, NormalConstants
  <2> HIDE DEF i, more
  <2>3. QED
    BY <1>1, <1>3, <2>1, <2>2
<1>4. QED
  BY <1>2, <1>3

LEMMA SetModeNormal ==
    ASSUME NEW g \in Settings, NEW x, Normal(x), NEW dp \in Int, NEW rm
    PROVE  Normal(SetMode(g, x, dp, rm).value) /\ SetMode(g, x, dp, rm).settings = g
<1> DEFINE during == [g EXCEPT !.rm = rm]
<1>1. [during EXCEPT !.rm = g.rm] = g
  BY DEF Settings
<1>2. IsFinite(x) => Normal(Rnd(during, x, dp, 10, FALSE, FALSE))
  <2>1. SUFFICES ASSUME IsFinite(x) PROVE Normal(Rnd(during, x, dp, 10, FALSE, FALSE))
    OBVIOUS
  <2>2. HasDigits(x)
    BY <2>1, FiniteHasDigits
  <2>3. FALSE \in BOOLEAN
    OBVIOUS
  <2> HIDE DEF during
  <2>4. QED
    BY <2>2, <2>3, RoundNormal, Zenon
<1> HIDE DEF during
<1>3. QED
  BY <1>1, <1>2 DEF SetMode, during

LEMMA ResultInRange ==
    ASSUME NEW g, NEW x, Normal(x), x.s # 0
    PROVE  Normal(InRange(g, x))
<1>1. x.s \in {-1, 1}
  BY DEF Normal, Numbers
<1>2. QED
  BY <1>1, NormalConstants DEF InRange

----------------------------------------------------------------------------
(* Aligned digits, their sum and their difference.                         *)

LEMMA AlignDigits ==
    ASSUME NEW n, HasDigits(n), NEW top \in Int, n.e <= top,
           NEW len \in Nat, len >= top - n.e + Len(n.c)
    PROVE  /\ Align(n, top, len) \in Seq(0..9)
           /\ Len(Align(n, top, len)) = len
           /\ \A i \in 1..len : Align(n, top, len)[i] = Digit(n.c, i - (top - n.e))
<1> DEFINE z == Zeros(top - n.e)
           c == z \o n.c
<1>1. n.c \in Seq(0..9) /\ Len(n.c) \in Nat /\ top - n.e \in Nat
  BY DEF HasDigits
<1>2. z \in Seq(0..9) /\ Len(z) = top - n.e /\ \A i \in 1..(top - n.e) : z[i] = 0
  BY <1>1 DEF Zeros
<1> HIDE DEF z
<1>3. c \in Seq(0..9) /\ Len(c) = top - n.e + Len(n.c)
      /\ \A i \in 1..(top - n.e + Len(n.c)) : c[i] = IF i <= top - n.e THEN z[i] ELSE n.c[i - (top - n.e)]
  BY <1>1, <1>2, ConcatProperties, SMTT(30)
<1>4. Align(n, top, len) = [i \in 1..len |-> Digit(c, i)]
  BY DEF Align, z
<1> HIDE DEF c
<1>5. ASSUME NEW i \in 1..len PROVE Digit(c, i) = Digit(n.c, i - (top - n.e)) /\ Digit(c, i) \in 0..9
  <2>1. CASE i <= top - n.e
    <3>1. i \in 1..(top - n.e) /\ i \in 1..(top - n.e + Len(n.c)) /\ DOMAIN c = 1..Len(c)
      BY <1>1, <1>3, <2>1
    <3>4. i \in DOMAIN c /\ c[i] = 0
      BY <1>2, <1>3, <2>1, <3>1
    <3>2. i - (top - n.e) \notin DOMAIN n.c
      BY <1>1, <2>1
    <3>3. QED
      BY <3>4, <3>2 DEF Digit
  <2>2. CASE i > top - n.e
    <3>1. i - (top - n.e) \in Nat \ {0}
      BY <1>1, <2>2
    <3>2. CASE i <= Len(c)
      <4>1. i \in DOMAIN c /\ i - (top - n.e) \in 1..Len(n.c) /\ c[i] = n.c[i - (top - n.e)]
        BY <1>1, <1>3, <2>2, <3>1, <3>2
      <4>2. n.c[i - (top - n.e)] \in 0..9
        BY <1>1, <4>1, SMTT(30)
      <4>3. QED
        BY <1>1, <4>1, <4>2 DEF Digit
    <3>3. CASE i > Len(c)
      <4>1. i \notin DOMAIN c /\ i - (top - n.e) \notin DOMAIN n.c
        BY <1>1, <1>3, <3>3
      <4>2. QED
        BY <4>1 DEF Digit
    <3>4. QED
      BY <1>3, <3>2, <3>3
  <2>3. QED
    BY <1>1, <2>1, <2>2
<1>6. QED
  BY <1>4, <1>5

AlignedTo(x, y, u, len) ==
    /\ u.e = Top(x, y) /\ u.e \in Int /\ x.e <= u.e /\ y.e <= u.e
    /\ x.e = u.e \/ y.e = u.e
    /\ len = u.e - x.e + Len(x.c) \/ len = u.e - y.e + Len(y.c)
    /\ len \in Nat \ {0} /\ u.e - x.e + Len(x.c) <= len /\ u.e - y.e + Len(y.c) <= len
    /\ u.a \in Seq(0..9) /\ Len(u.a) = len
    /\ u.b \in Seq(0..9) /\ Len(u.b) = len
    /\ \A i \in 1..len : u.a[i] = Digit(x.c, i - (u.e - x.e))
    /\ \A i \in 1..len : u.b[i] = Digit(y.c, i - (u.e - y.e))

LEMMA AlignedDigits ==
    ASSUME NEW x, NEW y, HasDigits(x), HasDigits(y)
    PROVE  AlignedTo(x, y, Aligned(x, y), Len(Aligned(x, y).a))
<1> DEFINE top == Top(x, y)
           l == top - x.e + Len(x.c)
           m == top - y.e + Len(y.c)
           len == Max({l, m})
<1>1. x.e \in Int /\ y.e \in Int /\ Len(x.c) \in Nat \ {0} /\ Len(y.c) \in Nat \ {0}
  BY DEF HasDigits
<1>2. top \in Int /\ x.e <= top /\ y.e <= top /\ (x.e = top \/ y.e = top)
  BY <1>1 DEF Top
<1>3. Aligned(x, y) = [e |-> top, a |-> Align(x, top, len), b |-> Align(y, top, len)]
  BY DEF Aligned
<1> HIDE DEF top
<1>4. l \in Nat \ {0} /\ m \in Nat \ {0}
  BY <1>1, <1>2
<1>5. len \in Nat \ {0} /\ l <= len /\ m <= len /\ len \in {l, m}
  <2> HIDE DEF l, m
  <2>1. {l, m} \in SUBSET (1..(l + m)) /\ {l, m} # {} /\ l + m \in Nat
    BY <1>4
  <2>2. Max({l, m}) \in {l, m} /\ \A k \in {l, m} : k <= Max({l, m})
    BY <2>1, MaxMinOf
  <2>3. QED
    BY <1>4, <2>2
<1> HIDE DEF len
<1>6. /\ Align(x, top, len) \in Seq(0..9) /\ Len(Align(x, top, len)) = len
      /\ \A i \in 1..len : Align(x, top, len)[i] = Digit(x.c, i - (top - x.e))
  BY <1>2, <1>5, AlignDigits
<1>7. /\ Align(y, top, len) \in Seq(0..9) /\ Len(Align(y, top, len)) = len
      /\ \A i \in 1..len : Align(y, top, len)[i] = Digit(y.c, i - (top - y.e))
  BY <1>2, <1>5, AlignDigits
<1>8. Aligned(x, y).e = top /\ Aligned(x, y).a = Align(x, top, len) /\ Aligned(x, y).b = Align(y, top, len)
  BY <1>3
<1>9. QED
  BY <1>2, <1>5, <1>6, <1>7, <1>8 DEF AlignedTo, top

(* The carries of a sum.                                                   *)
Carries(a, b, carry) ==
    /\ carry \in [0..Len(a) -> {0, 1}] /\ carry[Len(a)] = 0
    /\ \A i \in 0..(Len(a) - 1) : carry[i] = (a[i + 1] + b[i + 1] + carry[i + 1]) \div 10

LEMMA SumHasCarries ==
    ASSUME NEW a \in Seq(0..9), NEW b \in Seq(0..9), Len(a) = Len(b)
    PROVE  \E carry : /\ Carries(a, b, carry)
                      /\ SumDigits(a, b) = [carry |-> carry[0],
                                            c |-> [i \in 1..Len(a) |-> (a[i] + b[i] + carry[i]) % 10]]
<1> DEFINE n == Len(a)
           Def(p) == p = [i \in 0..n |-> IF i = n THEN 0 ELSE (a[i + 1] + b[i + 1] + p[i + 1]) \div 10]
           carry == CHOOSE p : Def(p)
<1>0. n \in Nat /\ \A i \in 1..n : a[i] \in 0..9 /\ b[i] \in 0..9
  OBVIOUS
<1>13. \A p \in 0..9, q \in 0..9, w \in {0, 1} : (p + q + w) \div 10 \in {0, 1}
  <2>1. \A k \in 0..19 : k \div 10 \in {0, 1}
    OBVIOUS
  <2>2. \A p \in 0..9, q \in 0..9, w \in {0, 1} : p + q + w \in 0..19
    OBVIOUS
  <2>3. QED
    BY <2>1, <2>2
<1>1. SumDigits(a, b) = [carry |-> carry[0], c |-> [i \in 1..n |-> (a[i] + b[i] + carry[i]) % 10]]
  BY DEF SumDigits
<1> HIDE DEF n
<1>2. \E p : Def(p)
  <2> DEFINE F == [i \in Nat |-> [v \in {0, 1} |-> IF i < n THEN (a[i + 1] + b[i + 1] + v) \div 10 ELSE 0]]
  <2>1. ASSUME NEW i \in Nat, NEW v \in {0, 1}, i < n PROVE (a[i + 1] + b[i + 1] + v) \div 10 \in {0, 1}
    <3>1. a[i + 1] \in 0..9 /\ b[i + 1] \in 0..9
      BY <1>0, <2>1
    <3>2. QED
      BY <1>13, <3>1
  <2>2. F \in [Nat -> [{0, 1} -> {0, 1}]]
    BY <1>0, <2>1
  <2>3. 0 \in {0, 1}
    OBVIOUS
  <2>4. \E p : DownComputes({0, 1}, 0, F, n, p)
    <3> HIDE DEF F
    <3>1. QED
      BY <1>0, <2>2, <2>3, DownComputationExists, Zenon
  <2>5. PICK p : DownComputes({0, 1}, 0, F, n, p)
    BY <2>4
  <2>6. p \in [0..n -> {0, 1}] /\ p[n] = 0 /\ \A i \in 0..(n - 1) : p[i] = F[i][p[i + 1]]
    BY <2>5 DEF DownComputes
  <2>7. ASSUME NEW i \in 0..n
        PROVE  p[i] = IF i = n THEN 0 ELSE (a[i + 1] + b[i + 1] + p[i + 1]) \div 10
    <3>1. CASE i = n
      BY <2>6, <3>1
    <3>2. CASE i # n
      <4>1. i \in 0..(n - 1) /\ i \in Nat /\ i < n /\ i + 1 \in 0..n
        BY <1>0, <3>2
      <4>2. p[i + 1] \in {0, 1} /\ p[i] = F[i][p[i + 1]]
        BY <2>6, <4>1
      <4>3. QED
        BY <3>2, <4>1, <4>2
    <3>3. QED
      BY <3>1, <3>2
  <2>8. Def(p)
    BY <2>6, <2>7
  <2>9. QED
    BY <2>8
<1>3. Def(carry)
  BY <1>2
<1> HIDE DEF carry
<1>4. DOMAIN carry = 0..n /\ carry = [i \in 0..n |-> carry[i]]
  BY <1>3
<1>5. carry[n] = 0 /\ \A i \in 0..(n - 1) : carry[i] = (a[i + 1] + b[i + 1] + carry[i + 1]) \div 10
  BY <1>0, <1>3
<1> DEFINE S == {i \in 0..n : carry[i] \in {0, 1}}
<1>6. n \in S
  BY <1>0, <1>5
<1>7. ASSUME NEW i \in 0..(n - 1), i + 1 \in S PROVE i \in S
  <2>1. a[i + 1] \in 0..9 /\ b[i + 1] \in 0..9 /\ carry[i + 1] \in {0, 1}
    BY <1>0, <1>7
  <2>2. (a[i + 1] + b[i + 1] + carry[i + 1]) \div 10 \in {0, 1}
    BY <1>13, <2>1
  <2>3. QED
    BY <1>0, <1>5, <2>2
<1> HIDE DEF S
<1>8. \A i \in 0..n : i \in S
  BY <1>0, <1>6, <1>7, DownInduction
<1>9. \A i \in 0..n : carry[i] \in {0, 1}
  BY <1>8 DEF S
<1>10. carry \in [0..n -> {0, 1}]
  BY <1>4, <1>9
<1>11. Carries(a, b, carry)
  BY <1>5, <1>10 DEF Carries, n
<1>12. QED
  BY <1>1, <1>11 DEF n

LEMMA TenInt == 10 \in Int /\ 10 \in Nat \ {0} /\ 10 > 1
  OBVIOUS

(* n decimal digits.                                                       *)
Decimal(c, n) == c \in Seq(0..9) /\ Len(c) = n

LEMMA TenDigits ==
    ASSUME NEW c, NEW n, Decimal(c, n)
    PROVE  /\ BaseDigits(10, c) /\ IntDigits(c)
           /\ \A i \in 1..n : Digit(c, i) = c[i] /\ c[i] \in 0..9
<1>1. 0..(10 - 1) = 0..9
  OBVIOUS
<1>2. BaseDigits(10, c)
  BY <1>1 DEF BaseDigits, Digit, Decimal
<1>3. IntDigits(c)
  BY <1>2, BaseDigitsInt
<1>4. QED
  BY <1>2, <1>3 DEF Digit, Decimal

(* What the addition computes: the sum of the two numbers.                 *)
LEMMA SumValue ==
    ASSUME NEW n \in Nat \ {0}, NEW a, NEW b, Decimal(a, n), Decimal(b, n)
    PROVE  /\ Decimal(SumDigits(a, b).c, n)
           /\ SumDigits(a, b).carry \in {0, 1}
           /\ (a[1] # 0 \/ b[1] # 0) /\ SumDigits(a, b).carry = 0 => SumDigits(a, b).c[1] # 0
           /\ SumDigits(a, b).carry * Power(10, n) + FromDigits(SumDigits(a, b).c, 10)
                  = FromDigits(a, 10) + FromDigits(b, 10)
<1>1. PICK carry : /\ Carries(a, b, carry)
                   /\ SumDigits(a, b) = [carry |-> carry[0],
                                         c |-> [i \in 1..n |-> (a[i] + b[i] + carry[i]) % 10]]
  BY SumHasCarries, ZenonT(60) DEF Decimal
<1> DEFINE c == SumDigits(a, b).c
<1>2. \A i \in 1..n : a[i] \in 0..9 /\ b[i] \in 0..9
  BY TenDigits
<1>3. SumDigits(a, b).carry = carry[0] /\ c = [i \in 1..n |-> (a[i] + b[i] + carry[i]) % 10]
  BY <1>1
<1>4. carry \in [0..n -> {0, 1}] /\ carry[n] = 0
      /\ \A i \in 0..(n - 1) : carry[i] = (a[i + 1] + b[i + 1] + carry[i + 1]) \div 10
  BY <1>1 DEF Carries, Decimal
<1> HIDE DEF c
<1>5. \A p \in 0..9, q \in 0..9, w \in {0, 1} :
          (p + q + w) % 10 \in 0..9 /\ p + q + w = 10 * ((p + q + w) \div 10) + ((p + q + w) % 10)
  <2>1. \A k \in Nat : (k % 10) \in 0..9 /\ k = 10 * (k \div 10) + (k % 10)
    OBVIOUS
  <2>2. \A p \in 0..9, q \in 0..9, w \in {0, 1} : p + q + w \in Nat
    OBVIOUS
  <2>3. QED
    BY <2>1, <2>2
<1>6. ASSUME NEW i \in 0..(n - 1)
      PROVE  /\ a[i + 1] \in 0..9 /\ b[i + 1] \in 0..9 /\ c[i + 1] \in 0..9
             /\ carry[i] \in {0, 1} /\ carry[i + 1] \in {0, 1}
             /\ a[i + 1] + b[i + 1] + carry[i + 1] = 10 * carry[i] + c[i + 1]
  <2>1. i + 1 \in 1..n /\ i + 1 \in 0..n /\ i \in 0..n
    BY <1>2
  <2>2. a[i + 1] \in 0..9 /\ b[i + 1] \in 0..9 /\ carry[i + 1] \in {0, 1} /\ carry[i] \in {0, 1}
    BY <1>2, <1>4, <2>1
  <2>3. c[i + 1] = (a[i + 1] + b[i + 1] + carry[i + 1]) % 10
        /\ carry[i] = (a[i + 1] + b[i + 1] + carry[i + 1]) \div 10
    BY <1>3, <1>4, <2>1
  <2>4. /\ (a[i + 1] + b[i + 1] + carry[i + 1]) % 10 \in 0..9
        /\ a[i + 1] + b[i + 1] + carry[i + 1] = 10 * ((a[i + 1] + b[i + 1] + carry[i + 1]) \div 10)
                                                 + ((a[i + 1] + b[i + 1] + carry[i + 1]) % 10)
    BY <1>5, <2>2
  <2>5. QED
    BY <2>2, <2>3, <2>4
<1>7. Decimal(c, n)
  <2>1. \A i \in 1..n : (a[i] + b[i] + carry[i]) % 10 \in 0..9
    <3>1. ASSUME NEW i \in 1..n PROVE a[i] \in 0..9 /\ b[i] \in 0..9 /\ carry[i] \in {0, 1}
      BY <1>2, <1>4
    <3>2. QED
      BY <1>5, <3>1
  <2>2. QED
    BY <1>2, <1>3, <2>1 DEF Decimal
<1>8. carry[0] \in {0, 1}
  BY <1>2, <1>4
<1>9. (a[1] # 0 \/ b[1] # 0) /\ carry[0] = 0 => c[1] # 0
  <2>1. 0 \in 0..(n - 1) /\ 0 + 1 = 1
    BY <1>2
  <2>2. /\ a[0 + 1] \in 0..9 /\ b[0 + 1] \in 0..9 /\ c[0 + 1] \in 0..9 /\ carry[0 + 1] \in {0, 1}
        /\ a[0 + 1] + b[0 + 1] + carry[0 + 1] = 10 * carry[0] + c[0 + 1]
    BY <1>6, <2>1
  <2>3. /\ a[1] \in 0..9 /\ b[1] \in 0..9 /\ c[1] \in 0..9 /\ carry[1] \in {0, 1}
        /\ a[1] + b[1] + carry[1] = 10 * carry[0] + c[1]
    BY <2>1, <2>2
  <2>4. QED
    BY <2>3
<1> DEFINE K == {k \in Nat : k <= n => carry[0] * Power(10, k) + Prefix(c, 10, k)
                                       = Prefix(a, 10, k) + Prefix(b, 10, k) + carry[k]}
<1>10. IntDigits(a) /\ IntDigits(b) /\ IntDigits(c) /\ 10 \in Int
  BY <1>7, TenDigits
<1>11. 0 \in K
  <2>1. Power(10, 0) = 1 /\ Prefix(a, 10, 0) = 0 /\ Prefix(b, 10, 0) = 0 /\ Prefix(c, 10, 0) = 0
    BY <1>10, PowerZero, PrefixZero, Zenon
  <2>2. QED
    BY <1>8, <2>1
<1>12. ASSUME NEW k \in Nat, k \in K PROVE k + 1 \in K
  <2>1. SUFFICES ASSUME k + 1 <= n
                 PROVE  carry[0] * Power(10, k + 1) + Prefix(c, 10, k + 1)
                            = Prefix(a, 10, k + 1) + Prefix(b, 10, k + 1) + carry[k + 1]
    OBVIOUS
  <2>2. k \in 0..(n - 1) /\ k + 1 \in 1..n /\ k <= n
    BY <1>2, <2>1
  <2>3. carry[0] * Power(10, k) + Prefix(c, 10, k) = Prefix(a, 10, k) + Prefix(b, 10, k) + carry[k]
    BY <1>12, <2>2
  <2>4. /\ Prefix(a, 10, k + 1) = Prefix(a, 10, k) * 10 + Digit(a, k + 1)
        /\ Prefix(b, 10, k + 1) = Prefix(b, 10, k) * 10 + Digit(b, k + 1)
        /\ Prefix(c, 10, k + 1) = Prefix(c, 10, k) * 10 + Digit(c, k + 1)
        /\ Power(10, k + 1) = Power(10, k) * 10
    BY <1>10, PrefixNext, PowerNext, Zenon
  <2>5. Prefix(a, 10, k) \in Int /\ Prefix(b, 10, k) \in Int /\ Prefix(c, 10, k) \in Int /\ Power(10, k) \in Int
    BY <1>10, PrefixInt, PowerInt, Zenon
  <2>6. Digit(a, k + 1) = a[k + 1] /\ Digit(b, k + 1) = b[k + 1] /\ Digit(c, k + 1) = c[k + 1]
    BY <1>2, <1>7, <2>2, TenDigits
  <2>7. /\ a[k + 1] \in 0..9 /\ b[k + 1] \in 0..9 /\ c[k + 1] \in 0..9
        /\ carry[k] \in {0, 1} /\ carry[k + 1] \in {0, 1}
        /\ a[k + 1] + b[k + 1] + carry[k + 1] = 10 * carry[k] + c[k + 1]
    BY <1>6, <2>2
  <2>8. PICK q \in Int : q = carry[0] * Power(10, k) /\ q * 10 = carry[0] * (Power(10, k) * 10)
    <3>1. carry[0] * Power(10, k) \in Int /\ (carry[0] * Power(10, k)) * 10 = carry[0] * (Power(10, k) * 10)
      BY <1>8, <2>5
    <3>2. QED
      BY <3>1
  <2>9. carry[0] * Power(10, k + 1) = q * 10
    BY <2>4, <2>8
  <2>10. q + Prefix(c, 10, k) = Prefix(a, 10, k) + Prefix(b, 10, k) + carry[k]
    BY <2>3, <2>8
  <2>11. q * 10 + (Prefix(c, 10, k) * 10 + c[k + 1])
             = (Prefix(a, 10, k) * 10 + a[k + 1]) + (Prefix(b, 10, k) * 10 + b[k + 1]) + carry[k + 1]
    BY <2>5, <2>7, <2>10
  <2>12. QED
    BY <2>4, <2>6, <2>9, <2>11
<1> HIDE DEF K
<1>13. n \in K
  BY <1>2, <1>11, <1>12, NatSetInduction
<1>14. carry[0] * Power(10, n) + Prefix(c, 10, n) = Prefix(a, 10, n) + Prefix(b, 10, n)
  <2>1. Prefix(a, 10, n) \in Int /\ Prefix(b, 10, n) \in Int
    BY <1>2, <1>10, PrefixInt
  <2>2. QED
    BY <1>2, <1>4, <1>13, <2>1 DEF K
<1>15. QED
  BY <1>2, <1>3, <1>7, <1>8, <1>9, <1>14 DEF FromDigits, Decimal, c

(* The borrows of a difference.                                            *)
Borrows(a, b, n, borrow) ==
    /\ borrow \in [0..n -> {0, 1}] /\ borrow[n] = 0
    /\ \A i \in 0..(n - 1) : borrow[i] = IF a[i + 1] - b[i + 1] < borrow[i + 1] THEN 1 ELSE 0
    /\ DiffDigits(a, b) = [i \in 1..n |-> (a[i] - b[i] - borrow[i]) % 10]

LEMMA DiffHasBorrows ==
    ASSUME NEW n \in Nat, NEW a, NEW b, Decimal(a, n), Decimal(b, n)
    PROVE  \E borrow : Borrows(a, b, n, borrow)
<1> DEFINE Def(p) == p = [i \in 0..n |-> IF i < n /\ a[i + 1] - b[i + 1] < p[i + 1] THEN 1 ELSE 0]
           borrow == CHOOSE p : Def(p)
<1>1. DiffDigits(a, b) = [i \in 1..n |-> (a[i] - b[i] - borrow[i]) % 10]
  <2>1. Len(a) = n
    BY DEF Decimal
  <2>2. QED
    BY <2>1 DEF DiffDigits
<1>2. \E p : Def(p)
  <2> DEFINE F == [i \in Nat |-> [v \in {0, 1} |-> IF i < n /\ a[i + 1] - b[i + 1] < v THEN 1 ELSE 0]]
  <2>1. F \in [Nat -> [{0, 1} -> {0, 1}]]
    OBVIOUS
  <2>2. 0 \in {0, 1}
    OBVIOUS
  <2>3. \E p : DownComputes({0, 1}, 0, F, n, p)
    <3> HIDE DEF F
    <3>1. QED
      BY <2>1, <2>2, DownComputationExists, Zenon
  <2>4. PICK p : DownComputes({0, 1}, 0, F, n, p)
    BY <2>3
  <2>5. p \in [0..n -> {0, 1}] /\ p[n] = 0 /\ \A i \in 0..(n - 1) : p[i] = F[i][p[i + 1]]
    BY <2>4 DEF DownComputes
  <2>6. ASSUME NEW i \in 0..n
        PROVE  p[i] = IF i < n /\ a[i + 1] - b[i + 1] < p[i + 1] THEN 1 ELSE 0
    <3>1. CASE i = n
      BY <2>5, <3>1
    <3>2. CASE i # n
      <4>1. i \in 0..(n - 1) /\ i \in Nat /\ i < n /\ i + 1 \in 0..n
        BY <3>2
      <4>2. p[i + 1] \in {0, 1} /\ p[i] = F[i][p[i + 1]]
        BY <2>5, <4>1
      <4>3. QED
        BY <3>2, <4>1, <4>2
    <3>3. QED
      BY <3>1, <3>2
  <2>7. Def(p)
    BY <2>5, <2>6
  <2>8. QED
    BY <2>7
<1>3. Def(borrow)
  BY <1>2
<1> HIDE DEF borrow
<1>4. borrow \in [0..n -> {0, 1}] /\ borrow[n] = 0
  BY <1>3
<1>5. \A i \in 0..(n - 1) : borrow[i] = IF a[i + 1] - b[i + 1] < borrow[i + 1] THEN 1 ELSE 0
  BY <1>3
<1>6. QED
  BY <1>1, <1>4, <1>5 DEF Borrows

(* What the subtraction computes: the difference, as the borrow out of the *)
(* first digit is 0 when a is not the smaller one.                         *)
LEMMA DiffValue ==
    ASSUME NEW n \in Nat, NEW a, NEW b, Decimal(a, n), Decimal(b, n)
    PROVE  /\ Decimal(DiffDigits(a, b), n)
           /\ FromDigits(a, 10) >= FromDigits(b, 10) =>
                  FromDigits(DiffDigits(a, b), 10) = FromDigits(a, 10) - FromDigits(b, 10)
<1>1. PICK borrow : Borrows(a, b, n, borrow)
  BY DiffHasBorrows
<1> DEFINE c == DiffDigits(a, b)
<1>2. \A i \in 1..n : a[i] \in 0..9 /\ b[i] \in 0..9
  BY TenDigits
<1>3. c = [i \in 1..n |-> (a[i] - b[i] - borrow[i]) % 10]
  BY <1>1 DEF Borrows
<1>4. borrow \in [0..n -> {0, 1}] /\ borrow[n] = 0
      /\ \A i \in 0..(n - 1) : borrow[i] = IF a[i + 1] - b[i + 1] < borrow[i + 1] THEN 1 ELSE 0
  BY <1>1 DEF Borrows
<1> HIDE DEF c
<1>5. \A p \in 0..9, q \in 0..9, w \in {0, 1} :
          /\ (p - q - w) % 10 \in 0..9
          /\ p - q - w = ((p - q - w) % 10) - 10 * (IF p - q < w THEN 1 ELSE 0)
  <2>1. \A k \in Int : (k % 10) \in 0..9
    OBVIOUS
  <2>2. \A k \in Int : k \in -10..-1 => (k % 10) = k + 10
    OBVIOUS
  <2>3. \A k \in Int : k \in 0..9 => (k % 10) = k
    OBVIOUS
  <2>4. ASSUME NEW p \in 0..9, NEW q \in 0..9, NEW w \in {0, 1}
        PROVE  p - q - w \in Int /\ (p - q < w => p - q - w \in -10..-1) /\ (~(p - q < w) => p - q - w \in 0..9)
    OBVIOUS
  <2>5. QED
    BY <2>1, <2>2, <2>3, <2>4
<1>6. ASSUME NEW i \in 0..(n - 1)
      PROVE  /\ a[i + 1] \in 0..9 /\ b[i + 1] \in 0..9 /\ c[i + 1] \in 0..9
             /\ borrow[i] \in {0, 1} /\ borrow[i + 1] \in {0, 1}
             /\ a[i + 1] - b[i + 1] - borrow[i + 1] = c[i + 1] - 10 * borrow[i]
  <2>1. i + 1 \in 1..n /\ i + 1 \in 0..n /\ i \in 0..n
    OBVIOUS
  <2>2. a[i + 1] \in 0..9 /\ b[i + 1] \in 0..9 /\ borrow[i + 1] \in {0, 1} /\ borrow[i] \in {0, 1}
    BY <1>2, <1>4, <2>1
  <2>3. c[i + 1] = (a[i + 1] - b[i + 1] - borrow[i + 1]) % 10
        /\ borrow[i] = IF a[i + 1] - b[i + 1] < borrow[i + 1] THEN 1 ELSE 0
    BY <1>3, <1>4, <2>1
  <2>4. /\ (a[i + 1] - b[i + 1] - borrow[i + 1]) % 10 \in 0..9
        /\ a[i + 1] - b[i + 1] - borrow[i + 1]
               = ((a[i + 1] - b[i + 1] - borrow[i + 1]) % 10)
                 - 10 * (IF a[i + 1] - b[i + 1] < borrow[i + 1] THEN 1 ELSE 0)
    BY <1>5, <2>2
  <2>5. QED
    BY <2>2, <2>3, <2>4
<1>7. Decimal(c, n)
  <2>1. \A i \in 1..n : (a[i] - b[i] - borrow[i]) % 10 \in 0..9
    <3>1. ASSUME NEW i \in 1..n PROVE a[i] \in 0..9 /\ b[i] \in 0..9 /\ borrow[i] \in {0, 1}
      BY <1>2, <1>4
    <3>2. QED
      BY <1>5, <3>1
  <2>2. QED
    BY <1>3, <2>1 DEF Decimal
<1> DEFINE K == {k \in Nat : k <= n => Prefix(c, 10, k) - borrow[0] * Power(10, k)
                                       = Prefix(a, 10, k) - Prefix(b, 10, k) - borrow[k]}
<1>8. borrow[0] \in {0, 1}
  BY <1>4
<1>9. IntDigits(a) /\ IntDigits(b) /\ IntDigits(c) /\ 10 \in Int
  BY <1>7, TenDigits
<1>10. 0 \in K
  <2>1. Power(10, 0) = 1 /\ Prefix(a, 10, 0) = 0 /\ Prefix(b, 10, 0) = 0 /\ Prefix(c, 10, 0) = 0
    BY <1>9, PowerZero, PrefixZero, Zenon
  <2>2. QED
    BY <1>8, <2>1
<1>11. ASSUME NEW k \in Nat, k \in K PROVE k + 1 \in K
  <2>1. SUFFICES ASSUME k + 1 <= n
                 PROVE  Prefix(c, 10, k + 1) - borrow[0] * Power(10, k + 1)
                            = Prefix(a, 10, k + 1) - Prefix(b, 10, k + 1) - borrow[k + 1]
    OBVIOUS
  <2>2. k \in 0..(n - 1) /\ k + 1 \in 1..n /\ k <= n
    BY <2>1
  <2>3. Prefix(c, 10, k) - borrow[0] * Power(10, k) = Prefix(a, 10, k) - Prefix(b, 10, k) - borrow[k]
    BY <1>11, <2>2
  <2>4. /\ Prefix(a, 10, k + 1) = Prefix(a, 10, k) * 10 + Digit(a, k + 1)
        /\ Prefix(b, 10, k + 1) = Prefix(b, 10, k) * 10 + Digit(b, k + 1)
        /\ Prefix(c, 10, k + 1) = Prefix(c, 10, k) * 10 + Digit(c, k + 1)
        /\ Power(10, k + 1) = Power(10, k) * 10
    BY <1>9, PrefixNext, PowerNext, Zenon
  <2>5. Prefix(a, 10, k) \in Int /\ Prefix(b, 10, k) \in Int /\ Prefix(c, 10, k) \in Int /\ Power(10, k) \in Int
    BY <1>9, PrefixInt, PowerInt, Zenon
  <2>6. Digit(a, k + 1) = a[k + 1] /\ Digit(b, k + 1) = b[k + 1] /\ Digit(c, k + 1) = c[k + 1]
    BY <1>7, <2>2, TenDigits
  <2>7. /\ a[k + 1] \in 0..9 /\ b[k + 1] \in 0..9 /\ c[k + 1] \in 0..9
        /\ borrow[k] \in {0, 1} /\ borrow[k + 1] \in {0, 1}
        /\ a[k + 1] - b[k + 1] - borrow[k + 1] = c[k + 1] - 10 * borrow[k]
    BY <1>6, <2>2
  <2>8. PICK q \in Int : q = borrow[0] * Power(10, k) /\ q * 10 = borrow[0] * (Power(10, k) * 10)
    <3>1. borrow[0] * Power(10, k) \in Int /\ (borrow[0] * Power(10, k)) * 10 = borrow[0] * (Power(10, k) * 10)
      BY <1>8, <2>5
    <3>2. QED
      BY <3>1
  <2>9. borrow[0] * Power(10, k + 1) = q * 10
    BY <2>4, <2>8
  <2>10. Prefix(c, 10, k) - q = Prefix(a, 10, k) - Prefix(b, 10, k) - borrow[k]
    BY <2>3, <2>8
  <2>11. (Prefix(c, 10, k) * 10 + c[k + 1]) - q * 10
             = (Prefix(a, 10, k) * 10 + a[k + 1]) - (Prefix(b, 10, k) * 10 + b[k + 1]) - borrow[k + 1]
    BY <2>5, <2>7, <2>10
  <2>12. QED
    BY <2>4, <2>6, <2>9, <2>11
<1> HIDE DEF K
<1>12. n \in K
  BY <1>10, <1>11, NatSetInduction
<1>13. Prefix(c, 10, n) - borrow[0] * Power(10, n) = Prefix(a, 10, n) - Prefix(b, 10, n)
  <2>1. Prefix(a, 10, n) \in Int /\ Prefix(b, 10, n) \in Int
    BY <1>9, PrefixInt
  <2>2. QED
    BY <1>4, <1>12, <2>1 DEF K
<1>14. /\ Prefix(a, 10, n) \in Nat /\ Prefix(a, 10, n) < Power(10, n)
       /\ Prefix(b, 10, n) \in Nat /\ Prefix(c, 10, n) \in Nat /\ Prefix(c, 10, n) < Power(10, n)
       /\ Power(10, n) \in Int
  <2>1. BaseDigits(10, a) /\ BaseDigits(10, b) /\ BaseDigits(10, c)
    BY <1>7, TenDigits
  <2>2. QED
    BY <1>9, <2>1, TenInt, PrefixBounds, PowerInt, Zenon
<1>15. Prefix(a, 10, n) >= Prefix(b, 10, n) => Prefix(c, 10, n) = Prefix(a, 10, n) - Prefix(b, 10, n)
  <2>1. CASE borrow[0] = 0
    BY <1>13, <1>14, <2>1
  <2>2. CASE borrow[0] = 1
    BY <1>13, <1>14, <2>2
  <2>3. QED
    BY <1>8, <2>1, <2>2
<1>16. Len(a) = n /\ Len(b) = n /\ Len(c) = n
  BY <1>7 DEF Decimal
<1>17. QED
  BY <1>7, <1>15, <1>16 DEF FromDigits, c

----------------------------------------------------------------------------
(* Comparison of digits.                                                   *)

Differ(c, d) == {i \in DOMAIN c \cap DOMAIN d : c[i] # d[i]}

(* The first difference decides, whatever digits come behind it.           *)
LEMMA CmpDifferent ==
    ASSUME NEW c, NEW d, NEW k \in Nat, NEW l \in Nat, Decimal(c, k), Decimal(d, l),
           Differ(c, d) # {}, NEW n \in Nat, k <= n \/ l <= n
    PROVE  CmpDigits(c, d) = Sgn(Prefix(c, 10, n) - Prefix(d, 10, n))
<1> DEFINE m == Min(Differ(c, d))
<1>1. /\ BaseDigits(10, c) /\ IntDigits(c) /\ \A i \in 1..k : Digit(c, i) = c[i] /\ c[i] \in 0..9
      /\ BaseDigits(10, d) /\ IntDigits(d) /\ \A i \in 1..l : Digit(d, i) = d[i] /\ d[i] \in 0..9
  BY TenDigits
<1>2. DOMAIN c = 1..k /\ DOMAIN d = 1..l
  BY DEF Decimal
<1>3. Differ(c, d) \in SUBSET (1..k)
  BY <1>2 DEF Differ
<1>4. m \in Differ(c, d) /\ \A i \in Differ(c, d) : m <= i
  BY <1>3, MaxMinOf
<1>5. CmpDigits(c, d) = Sgn(c[m] - d[m])
  BY DEF CmpDigits, Differ
<1> HIDE DEF m
<1>6. m \in 1..k /\ m \in 1..l /\ c[m] # d[m]
  BY <1>2, <1>4 DEF Differ
<1>7. \A i \in 1..(m - 1) : Digit(c, i) = Digit(d, i)
  <2>1. ASSUME NEW i \in 1..(m - 1) PROVE Digit(c, i) = Digit(d, i)
    <3>1. i \in 1..k /\ i \in 1..l /\ i < m
      BY <1>6
    <3>2. i \notin Differ(c, d)
      BY <1>4, <1>6, <3>1
    <3>3. c[i] = d[i]
      BY <1>2, <3>1, <3>2 DEF Differ
    <3>4. QED
      BY <1>1, <3>1, <3>3
  <2>2. QED
    BY <2>1
<1>8. m - 1 \in Nat /\ (m - 1) + 1 = m /\ m \in Nat /\ m <= n
  BY <1>6
<1>9. Prefix(c, 10, m - 1) = Prefix(d, 10, m - 1)
  BY <1>1, <1>7, <1>8, TenInt, PrefixSame
<1>10. /\ Prefix(c, 10, (m - 1) + 1) = Prefix(c, 10, m - 1) * 10 + Digit(c, (m - 1) + 1)
       /\ Prefix(d, 10, (m - 1) + 1) = Prefix(d, 10, m - 1) * 10 + Digit(d, (m - 1) + 1)
       /\ Prefix(c, 10, m - 1) \in Int
  BY <1>1, <1>8, TenInt, PrefixNext, PrefixInt, Zenon
<1>11. /\ Prefix(c, 10, m) = Prefix(c, 10, m - 1) * 10 + c[m]
       /\ Prefix(d, 10, m) = Prefix(c, 10, m - 1) * 10 + d[m]
       /\ c[m] \in 0..9 /\ d[m] \in 0..9
  BY <1>1, <1>6, <1>8, <1>9, <1>10
<1>12. Prefix(c, 10, n) \in Int /\ Prefix(d, 10, n) \in Int
  BY <1>1, TenInt, PrefixInt, Zenon
<1>13. CASE c[m] < d[m]
  <2>1. Prefix(c, 10, m) < Prefix(d, 10, m)
    BY <1>10, <1>11, <1>13
  <2>2. Prefix(c, 10, n) < Prefix(d, 10, n)
    BY <1>1, <1>8, <2>1, TenInt, PrefixOrder, Zenon
  <2>3. Sgn(c[m] - d[m]) = -1
    BY <1>11, <1>13 DEF Sgn
  <2>4. Sgn(Prefix(c, 10, n) - Prefix(d, 10, n)) = -1
    BY <1>12, <2>2 DEF Sgn
  <2>5. QED
    BY <1>5, <2>3, <2>4
<1>14. CASE d[m] < c[m]
  <2>1. Prefix(d, 10, m) < Prefix(c, 10, m)
    BY <1>10, <1>11, <1>14
  <2>2. Prefix(d, 10, n) < Prefix(c, 10, n)
    BY <1>1, <1>8, <2>1, TenInt, PrefixOrder, Zenon
  <2>3. Sgn(c[m] - d[m]) = 1
    BY <1>11, <1>14 DEF Sgn
  <2>4. Sgn(Prefix(c, 10, n) - Prefix(d, 10, n)) = 1
    BY <1>12, <2>2 DEF Sgn
  <2>5. QED
    BY <1>5, <2>3, <2>4
<1>15. QED
  BY <1>6, <1>11, <1>13, <1>14

LEMMA SgnFacts ==
    /\ \A v \in Int : Sgn(v) \in {-1, 0, 1} /\ Sgn(-v) = -Sgn(v)
    /\ \A v \in Int : v > 0 => Sgn(v) = 1
    /\ \A v \in Int : v < 0 => Sgn(v) = -1
    /\ Sgn(0) = 0
  BY DEF Sgn

LEMMA CmpSame ==
    ASSUME NEW c, NEW d, NEW n \in Nat, Decimal(c, n), Decimal(d, n), Differ(c, d) = {}
    PROVE  CmpDigits(c, d) = 0 /\ Prefix(c, 10, n) = Prefix(d, 10, n)
<1>1. CmpDigits(c, d) = Sgn(n - n)
  BY DEF CmpDigits, Differ, Decimal
<1>2. /\ IntDigits(c) /\ \A i \in 1..n : Digit(c, i) = c[i]
      /\ IntDigits(d) /\ \A i \in 1..n : Digit(d, i) = d[i]
  BY TenDigits
<1>3. \A i \in 1..n : c[i] = d[i]
  BY DEF Differ, Decimal
<1>4. Prefix(c, 10, n) = Prefix(d, 10, n)
  BY <1>2, <1>3, TenInt, PrefixSame
<1>5. QED
  BY <1>1, <1>4, SgnFacts

(* Of digits that have been aligned.                                       *)
LEMMA CmpAligned ==
    ASSUME NEW c, NEW d, NEW n \in Nat, Decimal(c, n), Decimal(d, n)
    PROVE  CmpDigits(c, d) = Sgn(FromDigits(c, 10) - FromDigits(d, 10))
<1>1. FromDigits(c, 10) = Prefix(c, 10, n) /\ FromDigits(d, 10) = Prefix(d, 10, n)
  BY DEF Decimal, FromDigits
<1>2. CASE Differ(c, d) # {}
  BY <1>1, <1>2, CmpDifferent
<1>3. CASE Differ(c, d) = {}
  <2>1. Prefix(c, 10, n) \in Int
    BY TenDigits, TenInt, PrefixInt, Zenon
  <2>2. QED
    BY <1>1, <1>3, <2>1, CmpSame, SgnFacts
<1>4. QED
  BY <1>2, <1>3

(* Of c that ends before d, which has a digit other than 0 behind it.      *)
LEMMA CmpShorter ==
    ASSUME NEW c, NEW d, NEW k \in Nat, NEW l \in Nat, Decimal(c, k), Decimal(d, l),
           k < l, d[l] # 0, Differ(c, d) = {}
    PROVE  /\ CmpDigits(c, d) = -1 /\ CmpDigits(d, c) = 1
           /\ Prefix(c, 10, l) < Prefix(d, 10, l)
<1>1. /\ IntDigits(c) /\ BaseDigits(10, c) /\ \A i \in 1..k : Digit(c, i) = c[i] /\ c[i] \in 0..9
      /\ IntDigits(d) /\ BaseDigits(10, d) /\ \A i \in 1..l : Digit(d, i) = d[i] /\ d[i] \in 0..9
  BY TenDigits
<1>2. DOMAIN c = 1..k /\ DOMAIN d = 1..l /\ Len(c) = k /\ Len(d) = l
  BY DEF Decimal
<1>3. Differ(d, c) = {}
  BY DEF Differ
<1>4. CmpDigits(c, d) = Sgn(k - l) /\ CmpDigits(d, c) = Sgn(l - k)
  BY <1>2, <1>3 DEF CmpDigits, Differ
<1>5. \A i \in 1..k : Digit(c, i) = Digit(d, i)
  <2>1. ASSUME NEW i \in 1..k PROVE c[i] = d[i] /\ i \in 1..l
    BY <1>2 DEF Differ
  <2>2. QED
    BY <1>1, <2>1
<1>6. Prefix(c, 10, k) = Prefix(d, 10, k)
  BY <1>1, <1>5, TenInt, PrefixSame
<1>7. l - 1 \in Nat /\ (l - 1) + 1 = l /\ l \in 1..l /\ k <= l - 1 /\ (l - 1) - k \in Nat /\ k + ((l - 1) - k) = l - 1
  OBVIOUS
(* Up to the last digit of d, the digits of c are 0 and those of d more.   *)
<1>8. Prefix(c, 10, l - 1) <= Prefix(d, 10, l - 1)
  <2>1. \A i \in 1..((l - 1) - k) : Digit(c, k + i) = 0
    <3>1. \A i \in Nat : i > k => Digit(c, i) = 0
      BY <1>2 DEF Digit
    <3>2. QED
      BY <3>1
  <2>2. Prefix(c, 10, k + ((l - 1) - k)) = Prefix(c, 10, k) * Power(10, (l - 1) - k)
    <3>1. 10 \in Int /\ IntDigits(c) /\ k \in Nat /\ (l - 1) - k \in Nat
      BY <1>1, <1>7
    <3>2. QED
      BY <2>1, <3>1, PrefixZerosBehind
  <2> DEFINE r == [i \in Nat |-> Digit(d, k + i)]
  <2>3. \A i \in Nat : Digit(r, i) = r[i] /\ Digit(r, i) \in 0..(10 - 1)
    <3>1. ASSUME NEW i \in Nat PROVE Digit(r, i) = r[i] /\ r[i] = Digit(d, k + i)
      BY DEF Digit
    <3> HIDE DEF r
    <3>2. QED
      BY <1>1, <3>1 DEF BaseDigits
  <2>4. \A i \in 1..((l - 1) - k) : Digit(d, k + i) = Digit(r, i)
    BY <2>3
  <2> HIDE DEF r
  <2>5. BaseDigits(10, r) /\ IntDigits(r)
    BY <2>3, BaseDigitsInt, TenInt DEF BaseDigits
  <2>6. Prefix(d, 10, k + ((l - 1) - k)) = Prefix(d, 10, k) * Power(10, (l - 1) - k) + Prefix(r, 10, (l - 1) - k)
    BY <1>1, <1>7, <2>4, <2>5, TenInt, PrefixSplit
  <2>7. Prefix(r, 10, (l - 1) - k) \in Nat
    BY <1>7, <2>5, TenInt, PrefixBounds, Zenon
  <2>8. PICK p \in Int : p = Prefix(c, 10, k) * Power(10, (l - 1) - k)
    <3>1. Prefix(c, 10, k) \in Int /\ Power(10, (l - 1) - k) \in Int
      BY <1>1, <1>7, TenInt, PrefixInt, PowerInt, Zenon
    <3>2. QED
      BY <3>1
  <2>9. QED
    BY <1>6, <1>7, <2>2, <2>6, <2>7, <2>8
<1>9. /\ Prefix(c, 10, (l - 1) + 1) = Prefix(c, 10, l - 1) * 10 + Digit(c, (l - 1) + 1)
      /\ Prefix(d, 10, (l - 1) + 1) = Prefix(d, 10, l - 1) * 10 + Digit(d, (l - 1) + 1)
      /\ Prefix(c, 10, l - 1) \in Int /\ Prefix(d, 10, l - 1) \in Int
  BY <1>1, <1>7, TenInt, PrefixNext, PrefixInt, Zenon
<1>10. Digit(c, l) = 0 /\ Digit(d, l) = d[l] /\ d[l] \in 0..9
  BY <1>1, <1>2, <1>7 DEF Digit
<1>11. Prefix(c, 10, l) < Prefix(d, 10, l)
  BY <1>7, <1>8, <1>9, <1>10
<1>12. k - l \in Int /\ k - l < 0 /\ l - k \in Int /\ l - k > 0
  OBVIOUS
<1>13. QED
  BY <1>4, <1>11, <1>12, SgnFacts

----------------------------------------------------------------------------
(* Values at a power of ten.                                               *)

LEMMA AtInt ==
    ASSUME NEW m \in Int, NEW p \in Int, NEW q \in Int, q <= p
    PROVE  At(m, p, q) \in Int
<1>1. p - q \in Nat
  OBVIOUS
<1>2. Power(10, p - q) \in Int
  BY <1>1, TenInt, PowerInt, Zenon
<1>3. QED
  BY <1>2 DEF At

LEMMA AtItself ==
    ASSUME NEW m \in Int, NEW p \in Int
    PROVE  At(m, p, p) = m
<1>1. p - p = 0 /\ Power(10, 0) = 1
  BY TenInt, PowerZero
<1>2. QED
  BY <1>1 DEF At

LEMMA AtShift ==
    ASSUME NEW m \in Int, NEW p \in Int, NEW q \in Int, NEW r \in Int, r <= q, q <= p
    PROVE  At(m, p, r) = At(m, p, q) * Power(10, q - r)
<1>1. p - q \in Nat /\ q - r \in Nat /\ (p - q) + (q - r) = p - r
  OBVIOUS
<1>2. Power(10, p - r) = Power(10, p - q) * Power(10, q - r)
  BY <1>1, TenInt, PowerPlus
<1>3. Power(10, p - q) \in Int /\ Power(10, q - r) \in Int
  BY <1>1, TenInt, PowerInt, Zenon
<1>4. m * (Power(10, p - q) * Power(10, q - r)) = (m * Power(10, p - q)) * Power(10, q - r)
  BY <1>3
<1>5. QED
  BY <1>2, <1>4 DEF At

LEMMA SameCancel ==
    ASSUME NEW a \in Int, NEW b \in Int, NEW f \in Nat \ {0}, a * f = b * f
    PROVE  a = b
<1>1. CASE a < b
  <2>1. (b - a) * f >= 1
    BY <1>1
  <2>2. (b - a) * f = b * f - a * f
    OBVIOUS
  <2>3. QED
    BY <2>1, <2>2
<1>2. CASE b < a
  <2>1. (a - b) * f >= 1
    BY <1>2
  <2>2. (a - b) * f = a * f - b * f
    OBVIOUS
  <2>3. QED
    BY <2>1, <2>2
<1>3. QED
  BY <1>1, <1>2

(* It does not matter at which power of ten the two are compared.          *)
LEMMA SameAt ==
    ASSUME NEW m \in Int, NEW p \in Int, NEW n \in Int, NEW q \in Int, NEW r \in Int, r <= p, r <= q
    PROVE  SameValue(m, p, n, q) <=> At(m, p, r) = At(n, q, r)
<1> DEFINE l == LowerOf(p, q)
<1>1. l \in Int /\ r <= l /\ l <= p /\ l <= q
  BY DEF LowerOf
<1>2. SameValue(m, p, n, q) <=> At(m, p, l) = At(n, q, l)
  BY DEF SameValue
<1> HIDE DEF l
<1>3. At(m, p, r) = At(m, p, l) * Power(10, l - r) /\ At(n, q, r) = At(n, q, l) * Power(10, l - r)
  BY <1>1, AtShift
<1>4. At(m, p, l) \in Int /\ At(n, q, l) \in Int
  BY <1>1, AtInt
<1>5. Power(10, l - r) \in Nat \ {0}
  <2>1. l - r \in Nat
    BY <1>1
  <2>2. QED
    BY <2>1, TenInt, PowerPositive, Zenon
<1>6. At(m, p, l) * Power(10, l - r) = At(n, q, l) * Power(10, l - r) => At(m, p, l) = At(n, q, l)
  BY <1>4, <1>5, SameCancel
<1>7. QED
  BY <1>2, <1>3, <1>6

LEMMA SameItself ==
    ASSUME NEW m \in Int, NEW p \in Int, NEW n \in Int, NEW q \in Int, q <= p, n = At(m, p, q)
    PROVE  SameValue(m, p, n, q)
<1>1. At(n, q, q) = n
  BY AtItself
<1>2. QED
  BY <1>1, SameAt

LEMMA ValueInt ==
    ASSUME NEW n, HasDigits(n)
    PROVE  M(n) \in Int /\ P(n) \in Int /\ FromDigits(n.c, 10) \in Nat
<1>1. n.s \in {-1, 1} /\ n.e \in Int /\ Len(n.c) \in Nat /\ Decimal(n.c, Len(n.c))
  BY DEF HasDigits, Decimal
<1>2. FromDigits(n.c, 10) \in Nat
  BY <1>1, TenDigits, TenInt, PrefixBounds DEF FromDigits
<1>3. QED
  BY <1>1, <1>2 DEF M, P

(* Zeros at the end do not count.                                          *)
LEMMA TrimValue ==
    ASSUME NEW n \in Nat, NEW c, Decimal(c, n), NEW i \in 1..n, c[i] # 0
    PROVE  \E k \in 1..n : /\ Decimal(DropTrailingZeros(c), k)
                           /\ FromDigits(c, 10) = FromDigits(DropTrailingZeros(c), 10) * Power(10, n - k)
<1> DEFINE d == DropTrailingZeros(c)
           k == Len(d)
<1>1. c \in Seq(0..9) /\ Len(c) = n
  BY DEF Decimal
<1>2. d \in Seq(0..9) /\ k \in 1..n /\ (\A j \in 1..k : d[j] = c[j]) /\ \A j \in 1..n : j > k => c[j] = 0
  <2>1. k \in i..n
    BY <1>1, DropTrailing
  <2>2. QED
    BY <1>1, <2>1, DropTrailing
<1>3. Decimal(d, k)
  BY <1>2 DEF Decimal
<1> HIDE DEF d
<1>4. /\ IntDigits(c) /\ \A j \in 1..n : Digit(c, j) = c[j]
      /\ IntDigits(d) /\ \A j \in 1..k : Digit(d, j) = d[j]
  BY <1>3, TenDigits
<1>5. FromDigits(c, 10) = Prefix(c, 10, n) /\ FromDigits(d, 10) = Prefix(d, 10, k)
  BY <1>1 DEF FromDigits
<1> HIDE DEF k
<1>6. \A j \in 1..k : Digit(c, j) = Digit(d, j)
  BY <1>2, <1>4
<1>7. \A j \in 1..(n - k) : Digit(c, k + j) = 0
  <2>1. ASSUME NEW j \in 1..(n - k) PROVE k + j \in 1..n /\ k + j > k
    BY <1>2
  <2>2. QED
    BY <1>2, <1>4, <2>1
<1>8. k \in Nat /\ n - k \in Nat /\ k + (n - k) = n /\ 10 \in Int
  BY <1>2
<1>9. Prefix(c, 10, k) = Prefix(d, 10, k)
  BY <1>4, <1>6, <1>8, PrefixSame
<1>10. Prefix(c, 10, k + (n - k)) = Prefix(c, 10, k) * Power(10, n - k)
  BY <1>4, <1>7, <1>8, PrefixZerosBehind
<1>11. FromDigits(c, 10) = FromDigits(d, 10) * Power(10, n - k)
  BY <1>5, <1>8, <1>9, <1>10
<1>12. QED
  BY <1>2, <1>3, <1>11 DEF d

LEMMA TrimmedValue ==
    ASSUME NEW n \in Nat, NEW c, Decimal(c, n), NEW i \in 1..n, c[i] # 0,
           NEW s \in {-1, 1}, NEW e \in Int
    PROVE  SameValue(M(BigNum(s, e, DropTrailingZeros(c))), P(BigNum(s, e, DropTrailingZeros(c))),
                     s * FromDigits(c, 10), e - n + 1)
<1>1. PICK k \in 1..n : /\ Decimal(DropTrailingZeros(c), k)
                        /\ FromDigits(c, 10) = FromDigits(DropTrailingZeros(c), 10) * Power(10, n - k)
  BY TrimValue
<1> DEFINE d == DropTrailingZeros(c)
<1>2. M(BigNum(s, e, d)) = s * FromDigits(d, 10) /\ P(BigNum(s, e, d)) = e - k + 1
  BY <1>1 DEF M, P, BigNum, Decimal
<1>3. FromDigits(d, 10) \in Int /\ FromDigits(c, 10) \in Int
  <2>1. Len(d) = k /\ Len(c) = n /\ IntDigits(c) /\ IntDigits(d)
    BY <1>1, TenDigits DEF Decimal
  <2>2. QED
    <3>1. k \in Nat /\ 10 \in Int
      OBVIOUS
    <3>2. Prefix(d, 10, k) \in Int /\ Prefix(c, 10, n) \in Int
      BY <2>1, <3>1, PrefixInt, Zenon
    <3>3. QED
      BY <2>1, <3>2 DEF FromDigits
<1>4. FromDigits(c, 10) = FromDigits(d, 10) * Power(10, n - k)
  BY <1>1
<1> HIDE DEF d
<1>5. n - k \in Nat /\ (e - k + 1) - (e - n + 1) = n - k /\ e - k + 1 \in Int /\ e - n + 1 \in Int
      /\ e - n + 1 <= e - k + 1
  OBVIOUS
<1>6. Power(10, n - k) \in Int
  BY <1>5, TenInt, PowerInt, Zenon
<1>7. s * FromDigits(d, 10) \in Int /\ s * FromDigits(c, 10) \in Int
  BY <1>3
<1>8. s * FromDigits(c, 10) = At(s * FromDigits(d, 10), e - k + 1, e - n + 1)
  <2>1. (s * FromDigits(d, 10)) * Power(10, n - k) = s * (FromDigits(d, 10) * Power(10, n - k))
    BY <1>3, <1>6
  <2>2. QED
    BY <1>4, <1>5, <2>1 DEF At
<1>9. SameValue(s * FromDigits(d, 10), e - k + 1, s * FromDigits(c, 10), e - n + 1)
  BY <1>5, <1>7, <1>8, SameItself
<1>10. QED
  BY <1>2, <1>9 DEF d

----------------------------------------------------------------------------
(* How many digits a number has.                                           *)

HasLength(n, b, k) == n < Power(b, k) /\ (k = 1 \/ n >= Power(b, k - 1))

LEMMA LengthExists ==
    ASSUME NEW b \in Nat, b > 1, NEW n \in Nat
    PROVE  \E k \in 1..(n + 1) : HasLength(n, b, k)
<1>1. SUFFICES ASSUME \A k \in 1..(n + 1) : ~HasLength(n, b, k) PROVE FALSE
  OBVIOUS
<1>2. b \in Int /\ b \in Nat \ {0}
  OBVIOUS
<1> DEFINE K == {k \in Nat : k <= n => n >= Power(b, k + 1)}
<1>3. \A k \in Nat : Power(b, k) \in Int
  BY <1>2, PowerInt, Zenon
<1>4. 0 \in K
  <2>1. ~HasLength(n, b, 1)
    BY <1>1
  <2>2. n >= Power(b, 0 + 1)
    BY <1>3, <2>1 DEF HasLength
  <2>3. QED
    BY <2>2
<1>5. ASSUME NEW k \in Nat, k \in K PROVE k + 1 \in K
  <2>1. SUFFICES ASSUME k + 1 <= n PROVE n >= Power(b, (k + 1) + 1)
    OBVIOUS
  <2>2. (k + 1) + 1 \in 1..(n + 1) /\ ((k + 1) + 1) - 1 = k + 1 /\ (k + 1) + 1 \in Nat
    BY <2>1
  <2>3. ~HasLength(n, b, (k + 1) + 1) /\ n >= Power(b, k + 1)
    BY <1>1, <1>5, <2>1, <2>2
  <2>4. QED
    BY <1>3, <2>2, <2>3 DEF HasLength
<1> HIDE DEF K
<1>6. n \in K
  BY <1>4, <1>5, NatSetInduction
<1>7. n >= Power(b, n + 1)
  BY <1>6 DEF K
<1>8. n + 1 < Power(b, n + 1)
  BY PowerExceeds
<1>9. QED
  BY <1>3, <1>7, <1>8

LEMMA LengthUnique ==
    ASSUME NEW b \in Nat, b > 1, NEW n \in Nat, NEW k \in Nat \ {0}, NEW l \in Nat \ {0},
           HasLength(n, b, k), HasLength(n, b, l)
    PROVE  k = l
<1>1. \A i \in Nat : Power(b, i) \in Int
  BY PowerInt
<1>2. \A i \in Nat \ {0}, j \in Nat \ {0} : HasLength(n, b, i) /\ HasLength(n, b, j) => ~(i < j)
  <2>1. SUFFICES ASSUME NEW i \in Nat \ {0}, NEW j \in Nat \ {0},
                        HasLength(n, b, i), HasLength(n, b, j), i < j
                 PROVE  FALSE
    OBVIOUS
  <2>2. i \in Nat /\ j - 1 \in Nat /\ i <= j - 1 /\ b \in Nat \ {0} /\ j # 1
    BY <2>1
  <2>3. Power(b, i) <= Power(b, j - 1)
    BY <2>2, PowerMonotone
  <2>4. n < Power(b, i) /\ n >= Power(b, j - 1)
    BY <2>1, <2>2 DEF HasLength
  <2>5. QED
    BY <1>1, <2>2, <2>3, <2>4
<1>3. QED
  BY <1>2

LEMMA ToDigitsLength ==
    ASSUME NEW b \in Nat, b > 1, NEW n \in Nat
    PROVE  \E k \in Nat \ {0} :
               /\ HasLength(n, b, k)
               /\ ToDigits(n, b) = [i \in 1..k |-> (n \div Power(b, k - i)) % b]
               /\ ToDigits(n, b) \in Seq(0..(b - 1)) /\ Len(ToDigits(n, b)) = k
<1> DEFINE k == CHOOSE k \in 1..(n + 1) : n < Power(b, k) /\ (k = 1 \/ n >= Power(b, k - 1))
<1>1. ToDigits(n, b) = [i \in 1..k |-> (n \div Power(b, k - i)) % b]
  BY DEF ToDigits
<1>2. k \in 1..(n + 1) /\ HasLength(n, b, k)
  BY LengthExists DEF HasLength
<1> HIDE DEF k
<1>3. \A i \in 1..k : (n \div Power(b, k - i)) % b \in 0..(b - 1)
  <2>1. ASSUME NEW i \in 1..k PROVE (n \div Power(b, k - i)) % b \in 0..(b - 1)
    <3>1. k - i \in Nat /\ b \in Nat \ {0}
      BY <1>2
    <3>2. Power(b, k - i) \in Nat \ {0}
      BY <3>1, PowerPositive
    <3>3. n \div Power(b, k - i) \in Int
      BY <3>2
    <3>4. QED
      BY <3>1, <3>3
  <2>2. QED
    BY <2>1
<1>4. ToDigits(n, b) \in Seq(0..(b - 1)) /\ Len(ToDigits(n, b)) = k
  BY <1>1, <1>2, <1>3
<1>5. QED
  BY <1>1, <1>2, <1>4

LEMMA ExponentIs ==
    ASSUME NEW m \in Int, NEW p \in Int, NEW k \in Nat \ {0},
           AbsInt(m) < Power(10, k), AbsInt(m) >= Power(10, k - 1)
    PROVE  ExponentOf(m, p) = k - 1 + p
<1>1. AbsInt(m) \in Nat /\ 10 \in Nat /\ 10 > 1
  BY DEF AbsInt
<1>2. HasLength(AbsInt(m), 10, k)
  BY DEF HasLength
<1>3. PICK l \in Nat \ {0} : HasLength(AbsInt(m), 10, l) /\ Len(ToDigits(AbsInt(m), 10)) = l
  BY <1>1, ToDigitsLength
<1>4. l = k
  BY <1>1, <1>2, <1>3, LengthUnique
<1>5. QED
  BY <1>3, <1>4 DEF ExponentOf

(* The value of digits the first of which is not 0.                        *)
LEMMA LeadsValue ==
    ASSUME NEW n \in Nat \ {0}, NEW c, Decimal(c, n), c[1] # 0
    PROVE  FromDigits(c, 10) >= Power(10, n - 1) /\ FromDigits(c, 10) < Power(10, n) /\ FromDigits(c, 10) \in Nat
<1>1. n - 1 \in Nat /\ (n - 1) + 1 = n /\ n \in Nat
  OBVIOUS
<1>2. BaseDigits(10, c) /\ Digit(c, 1) # 0
  BY TenDigits
<1>3. Prefix(c, 10, (n - 1) + 1) >= Power(10, n - 1)
  BY <1>1, <1>2, TenInt, PrefixLeading, Zenon
<1>4. Prefix(c, 10, n) < Power(10, n) /\ Prefix(c, 10, n) \in Nat
  BY <1>1, <1>2, TenInt, PrefixBounds, Zenon
<1>5. FromDigits(c, 10) = Prefix(c, 10, n)
  BY DEF FromDigits, Decimal
<1>6. QED
  BY <1>1, <1>3, <1>4, <1>5

----------------------------------------------------------------------------
(* The value of aligned digits.                                            *)

Shifted(a, c, z, len) == \A i \in 1..len : a[i] = Digit(c, i - z)

LEMMA AlignValue ==
    ASSUME NEW len \in Nat, NEW c, NEW k \in Nat, Decimal(c, k), NEW a, Decimal(a, len),
           NEW z \in Nat, z + k <= len, Shifted(a, c, z, len)
    PROVE  FromDigits(a, 10) = FromDigits(c, 10) * Power(10, len - z - k)
<1>1. /\ IntDigits(a) /\ \A i \in 1..len : Digit(a, i) = a[i]
      /\ IntDigits(c) /\ \A i \in 1..k : Digit(c, i) = c[i]
  BY TenDigits
<1>2. FromDigits(a, 10) = Prefix(a, 10, len) /\ FromDigits(c, 10) = Prefix(c, 10, k) /\ DOMAIN c = 1..k
  BY DEF Decimal, FromDigits
<1>3. \A i \in 1..z : Digit(a, i) = 0
  <2>1. ASSUME NEW i \in 1..z PROVE i \in 1..len /\ i - z \notin 1..k
    OBVIOUS
  <2>2. QED
    BY <1>1, <1>2, <2>1 DEF Digit, Shifted
<1>4. \A i \in 1..k : Digit(a, z + i) = Digit(c, i)
  <2>1. ASSUME NEW i \in 1..k PROVE z + i \in 1..len /\ (z + i) - z = i
    OBVIOUS
  <2>2. QED
    BY <1>1, <2>1 DEF Shifted
<1>5. Prefix(a, 10, z + k) = Prefix(c, 10, k)
  <2>1. 10 \in Int /\ IntDigits(a) /\ IntDigits(c)
    BY <1>1
  <2>2. QED
    BY <1>3, <1>4, <2>1, PrefixZerosBefore
<1>6. z + k \in Nat /\ len - z - k \in Nat /\ (z + k) + (len - z - k) = len /\ 10 \in Int
  OBVIOUS
<1>7. \A i \in 1..(len - z - k) : Digit(a, (z + k) + i) = 0
  <2>1. ASSUME NEW i \in 1..(len - z - k)
        PROVE  (z + k) + i \in 1..len /\ ((z + k) + i) - z \notin 1..k
    OBVIOUS
  <2>2. QED
    BY <1>1, <1>2, <2>1 DEF Digit, Shifted
<1>8. Prefix(a, 10, (z + k) + (len - z - k)) = Prefix(a, 10, z + k) * Power(10, len - z - k)
  <2>1. IntDigits(a)
    BY <1>1
  <2>2. QED
    BY <1>6, <1>7, <2>1, PrefixZerosBehind, ZenonT(60)
<1>9. QED
  BY <1>2, <1>5, <1>6, <1>8

----------------------------------------------------------------------------
(* Sums and differences of numbers.                                        *)

AlignedAt(x, y, u, n) ==
    /\ Decimal(u.a, n) /\ Decimal(u.b, n) /\ u.e \in Int
    /\ u.a[1] # 0 \/ u.b[1] # 0
    /\ u.e - n + 1 = LowerOf(P(x), P(y))
    /\ At(M(x), P(x), LowerOf(P(x), P(y))) = x.s * FromDigits(u.a, 10)
    /\ At(M(y), P(y), LowerOf(P(x), P(y))) = y.s * FromDigits(u.b, 10)
    /\ FromDigits(u.a, 10) \in Nat /\ FromDigits(u.b, 10) \in Nat

LEMMA AlignedOne ==
    ASSUME NEW n, HasDigits(n), NEW len \in Nat, NEW a, Decimal(a, len), NEW top \in Int,
           n.e <= top, top - n.e + Len(n.c) <= len, Shifted(a, n.c, top - n.e, len)
    PROVE  /\ At(M(n), P(n), top - len + 1) = n.s * FromDigits(a, 10)
           /\ FromDigits(a, 10) \in Nat
<1> DEFINE k == Len(n.c)
           z == top - n.e
<1>1. n.s \in {-1, 1} /\ n.e \in Int /\ k \in Nat /\ Decimal(n.c, k)
  BY DEF HasDigits, Decimal
<1>2. P(n) = n.e - k + 1 /\ M(n) = n.s * FromDigits(n.c, 10)
  BY DEF P, M
<1>3. FromDigits(n.c, 10) \in Nat
  BY ValueInt
<1> HIDE DEF k
<1>4. z \in Nat /\ z + k <= len /\ len - z - k \in Nat
  BY <1>1, SMTT(30) DEF k
<1>5. FromDigits(a, 10) = FromDigits(n.c, 10) * Power(10, len - z - k)
  <2> HIDE DEF z
  <2>1. Shifted(a, n.c, z, len)
    BY DEF z
  <2>2. QED
    BY <1>1, <1>4, <2>1, AlignValue
<1>6. P(n) - (top - len + 1) = len - z - k
  BY <1>1, <1>2
<1> HIDE DEF z
<1>7. Power(10, len - z - k) \in Nat \ {0}
  BY <1>4, TenInt, PowerPositive, Zenon
<1>8. (n.s * FromDigits(n.c, 10)) * Power(10, len - z - k) = n.s * (FromDigits(n.c, 10) * Power(10, len - z - k))
      /\ FromDigits(n.c, 10) * Power(10, len - z - k) \in Nat
  BY <1>1, <1>3, <1>7
<1>9. QED
  BY <1>2, <1>5, <1>6, <1>8 DEF At

LEMMA AlignedValue ==
    ASSUME NEW x, NEW y, HasDigits(x), HasDigits(y), x.c[1] # 0, y.c[1] # 0
    PROVE  \E n \in Nat \ {0} : AlignedAt(x, y, Aligned(x, y), n)
<1> DEFINE u == Aligned(x, y)
           n == Len(u.a)
<1>1. AlignedTo(x, y, u, n)
  BY AlignedDigits
<1>2. x.e \in Int /\ y.e \in Int /\ Len(x.c) \in Nat \ {0} /\ Len(y.c) \in Nat \ {0}
  BY DEF HasDigits
<1> HIDE DEF u, n
<1>3. /\ u.e \in Int /\ x.e <= u.e /\ y.e <= u.e /\ (x.e = u.e \/ y.e = u.e)
      /\ n = u.e - x.e + Len(x.c) \/ n = u.e - y.e + Len(y.c)
      /\ n \in Nat \ {0} /\ u.e - x.e + Len(x.c) <= n /\ u.e - y.e + Len(y.c) <= n
  BY <1>1 DEF AlignedTo
<1>4. Decimal(u.a, n) /\ Decimal(u.b, n)
  BY <1>1 DEF AlignedTo, Decimal
<1>5. Shifted(u.a, x.c, u.e - x.e, n) /\ Shifted(u.b, y.c, u.e - y.e, n)
  BY <1>1 DEF AlignedTo, Shifted
<1>6. u.e - n + 1 = LowerOf(P(x), P(y))
  <2> DEFINE k == Len(x.c)
             l == Len(y.c)
  <2>1. P(x) = x.e - k + 1 /\ P(y) = y.e - l + 1 /\ k \in Int /\ l \in Int
    BY <1>2 DEF P
  <2>2. /\ n = u.e - x.e + k \/ n = u.e - y.e + l
        /\ u.e - x.e + k <= n /\ u.e - y.e + l <= n /\ n \in Int /\ u.e \in Int
    BY <1>3
  <2>0. x.e \in Int /\ y.e \in Int
    BY <1>2
  <2> HIDE DEF k, l
  <2>3. (u.e - n + 1 = P(x) /\ P(x) <= P(y)) \/ (u.e - n + 1 = P(y) /\ P(y) <= P(x))
    <3>1. CASE n = u.e - x.e + k
      BY <3>1, <2>0, <2>1, <2>2
    <3>2. CASE n = u.e - y.e + l
      BY <3>2, <2>0, <2>1, <2>2
    <3>3. QED
      BY <2>2, <3>1, <3>2
  <2>4. P(x) \in Int /\ P(y) \in Int
    BY <1>2, <2>1
  <2>5. QED
    BY <2>3, <2>4 DEF LowerOf
<1>7. u.a[1] # 0 \/ u.b[1] # 0
  <2>1. 1 \in 1..n /\ 1 \in DOMAIN x.c /\ 1 \in DOMAIN y.c
    BY <1>2, <1>3 DEF HasDigits
  <2>2. CASE x.e = u.e
    <3>1. u.a[1] = Digit(x.c, 1 - (u.e - x.e)) /\ 1 - (u.e - x.e) = 1
      BY <1>3, <1>5, <2>1, <2>2 DEF Shifted
    <3>2. u.a[1] = x.c[1]
      BY <2>1, <3>1 DEF Digit
    <3>3. QED
      BY <3>2
  <2>3. CASE y.e = u.e
    <3>1. u.b[1] = Digit(y.c, 1 - (u.e - y.e)) /\ 1 - (u.e - y.e) = 1
      BY <1>3, <1>5, <2>1, <2>3 DEF Shifted
    <3>2. u.b[1] = y.c[1]
      BY <2>1, <3>1 DEF Digit
    <3>3. QED
      BY <3>2
  <2>4. QED
    BY <1>3, <2>2, <2>3
<1>8. /\ At(M(x), P(x), u.e - n + 1) = x.s * FromDigits(u.a, 10) /\ FromDigits(u.a, 10) \in Nat
      /\ At(M(y), P(y), u.e - n + 1) = y.s * FromDigits(u.b, 10) /\ FromDigits(u.b, 10) \in Nat
  <2>1. n \in Nat
    BY <1>3
  <2>2. QED
    BY <1>3, <1>4, <1>5, <2>1, AlignedOne, ZenonT(60)
<1>9. AlignedAt(x, y, u, n)
  BY <1>3, <1>4, <1>6, <1>7, <1>8 DEF AlignedAt
<1>10. QED
  BY <1>3, <1>9 DEF u

(* A digit in front of n others.                                           *)
LEMMA OneMore ==
    ASSUME NEW n \in Nat, NEW c, Decimal(c, n), NEW d \in 1..9
    PROVE  /\ Decimal(<<d>> \o c, n + 1) /\ (<<d>> \o c)[1] = d
           /\ FromDigits(<<d>> \o c, 10) = d * Power(10, n) + FromDigits(c, 10)
<1> DEFINE f == <<d>> \o c
<1>1. c \in Seq(0..9) /\ Len(c) = n /\ <<d>> \in Seq(0..9) /\ Len(<<d>>) = 1 /\ <<d>>[1] = d
  BY DEF Decimal
<1>2. f \in Seq(0..9) /\ Len(f) = 1 + n
      /\ \A i \in 1..(1 + n) : f[i] = IF i <= 1 THEN <<d>>[i] ELSE c[i - 1]
  BY <1>1, ConcatProperties
<1> HIDE DEF f
<1>3. Decimal(f, 1 + n) /\ f[1] = d /\ \A i \in 1..n : f[1 + i] = c[i]
  BY <1>1, <1>2 DEF Decimal
<1>4. /\ IntDigits(f) /\ \A i \in 1..(1 + n) : Digit(f, i) = f[i]
      /\ IntDigits(c) /\ \A i \in 1..n : Digit(c, i) = c[i]
  BY <1>3, TenDigits
<1>5. \A i \in 1..n : Digit(f, 1 + i) = Digit(c, i)
  <2>1. \A i \in 1..n : 1 + i \in 1..(1 + n)
    OBVIOUS
  <2>2. QED
    BY <1>3, <1>4, <2>1
<1>6. 10 \in Int /\ 1 \in Nat /\ 0 \in Nat /\ IntDigits(f) /\ IntDigits(c) /\ 0 + 1 = 1 /\ Digit(f, 1) = d
  BY <1>3, <1>4
<1>7. Prefix(f, 10, 1 + n) = Prefix(f, 10, 1) * Power(10, n) + Prefix(c, 10, n)
  BY <1>5, <1>6, PrefixSplit
<1>8. Prefix(f, 10, 0 + 1) = Prefix(f, 10, 0) * 10 + Digit(f, 0 + 1) /\ Prefix(f, 10, 0) = 0
  BY <1>6, PrefixNext, PrefixZero, Zenon
<1>9. Prefix(f, 10, 1) = d
  BY <1>6, <1>8
<1>10. FromDigits(f, 10) = Prefix(f, 10, 1 + n) /\ FromDigits(c, 10) = Prefix(c, 10, n) /\ 1 + n = n + 1
  BY <1>1, <1>3 DEF FromDigits, Decimal
<1>11. QED
  BY <1>3, <1>7, <1>9, <1>10 DEF f

SumGives(g, r, m, p) ==
    \/ r = TypeError /\ ExponentOf(m, p) > g.maxE
    \/ Normal(r) /\ IsFinite(r) /\ SameValue(M(r), P(r), m, p)

LEMMA SumOfValue ==
    ASSUME NEW n \in Nat \ {0}, NEW a, NEW b, Decimal(a, n), Decimal(b, n), a[1] # 0 \/ b[1] # 0,
           NEW g, NEW s \in {-1, 1}, NEW e \in Int
    PROVE  SumGives(g, SumOf(g, s, e, SumDigits(a, b)), s * (FromDigits(a, 10) + FromDigits(b, 10)), e - n + 1)
<1> DEFINE c == SumDigits(a, b).c
           carry == SumDigits(a, b).carry
           t == FromDigits(a, 10) + FromDigits(b, 10)
<1>1. /\ Decimal(c, n) /\ carry \in {0, 1} /\ (carry = 0 => c[1] # 0)
      /\ carry * Power(10, n) + FromDigits(c, 10) = t
  BY SumValue
<1>2. SumOf(g, s, e, SumDigits(a, b)) =
          IF carry = 0 THEN BigNum(s, e, DropTrailingZeros(c))
          ELSE IF e + 1 > g.maxE THEN TypeError
          ELSE BigNum(s, e + 1, DropTrailingZeros(<<carry>> \o c))
  BY DEF SumOf
<1> HIDE DEF c, carry, t
<1>3. n \in Nat /\ n + 1 \in Nat \ {0} /\ (n + 1) - 1 = n /\ 1 \in 1..n /\ 1 \in 1..(n + 1) /\ e + 1 \in Int
  OBVIOUS
<1>4. Power(10, n) \in Int /\ FromDigits(c, 10) \in Int
  <2>1. IntDigits(c) /\ FromDigits(c, 10) = Prefix(c, 10, n)
    BY <1>1, TenDigits DEF Decimal, FromDigits
  <2>2. QED
    BY <1>3, <2>1, TenInt, PowerInt, PrefixInt, Zenon
<1>5. CASE carry = 0
  <2>1. FromDigits(c, 10) = t
    BY <1>1, <1>4, <1>5
  <2>2. Leads(c)
    BY <1>1, <1>3, <1>5 DEF Leads, Decimal
  <2>3. Normal(BigNum(s, e, DropTrailingZeros(c)))
    BY <2>2, NormalOfDigits
  <2>4. SameValue(M(BigNum(s, e, DropTrailingZeros(c))), P(BigNum(s, e, DropTrailingZeros(c))), s * t, e - n + 1)
    BY <1>1, <1>3, <1>5, <2>1, TrimmedValue
  <2>5. IsFinite(BigNum(s, e, DropTrailingZeros(c)))
    <3>1. PICK k \in 1..n : Decimal(DropTrailingZeros(c), k)
      BY <1>1, <1>3, <1>5, TrimValue
    <3>2. QED
      BY <3>1 DEF IsFinite, BigNum, Decimal
  <2>6. QED
    BY <1>2, <1>5, <2>3, <2>4, <2>5 DEF SumGives, t
<1>6. CASE carry = 1
  <2> DEFINE f == <<carry>> \o c
  <2>1. Decimal(f, n + 1) /\ f[1] = 1 /\ FromDigits(f, 10) = 1 * Power(10, n) + FromDigits(c, 10)
    BY <1>1, <1>3, <1>6, OneMore
  <2>2. FromDigits(f, 10) = t
    BY <1>1, <1>4, <1>6, <2>1
  <2> HIDE DEF f
  <2>3. t >= Power(10, (n + 1) - 1) /\ t < Power(10, n + 1) /\ t \in Nat
    BY <1>3, <2>1, <2>2, LeadsValue
  <2>4. ExponentOf(s * t, e - n + 1) = e + 1
    <3>1. AbsInt(s * t) = t /\ s * t \in Int /\ e - n + 1 \in Int
      BY <2>3 DEF AbsInt
    <3>2. ExponentOf(s * t, e - n + 1) = (n + 1) - 1 + (e - n + 1)
      BY <1>3, <2>3, <3>1, ExponentIs
    <3>3. QED
      BY <3>2
  <2>5. Leads(f)
    BY <1>3, <2>1 DEF Leads, Decimal
  <2>6. Normal(BigNum(s, e + 1, DropTrailingZeros(f)))
    BY <1>3, <2>5, NormalOfDigits
  <2>7. SameValue(M(BigNum(s, e + 1, DropTrailingZeros(f))), P(BigNum(s, e + 1, DropTrailingZeros(f))), s * t, e - n + 1)
    <3>1. (e + 1) - (n + 1) + 1 = e - n + 1 /\ n + 1 \in Nat /\ f[1] # 0
      BY <2>1
    <3>2. SameValue(M(BigNum(s, e + 1, DropTrailingZeros(f))), P(BigNum(s, e + 1, DropTrailingZeros(f))),
                    s * FromDigits(f, 10), (e + 1) - (n + 1) + 1)
      BY <1>3, <2>1, <3>1, TrimmedValue
    <3>3. QED
      BY <2>2, <3>1, <3>2
  <2>8. IsFinite(BigNum(s, e + 1, DropTrailingZeros(f)))
    <3>1. n + 1 \in Nat /\ f[1] # 0
      BY <2>1
    <3>2. PICK k \in 1..(n + 1) : Decimal(DropTrailingZeros(f), k)
      BY <1>3, <2>1, <3>1, TrimValue
    <3>3. QED
      BY <3>2 DEF IsFinite, BigNum, Decimal
  <2>9. SumOf(g, s, e, SumDigits(a, b)) =
            IF e + 1 > g.maxE THEN TypeError ELSE BigNum(s, e + 1, DropTrailingZeros(f))
    BY <1>2, <1>6 DEF f
  <2>10. QED
    BY <2>4, <2>6, <2>7, <2>8, <2>9 DEF SumGives, t
<1>7. QED
  BY <1>1, <1>5, <1>6

ZerosUntil(c, m)      == \A i \in 1..m : Digit(c, i) = 0
GoesOn(c, m, d, n)    == \A i \in 1..n : Digit(c, m + i) = Digit(d, i)

LEMMA ZerosBefore ==
    ASSUME NEW c, NEW d, NEW m \in Nat, NEW n \in Nat,
           IntDigits(c), IntDigits(d), ZerosUntil(c, m), GoesOn(c, m, d, n)
    PROVE  Prefix(c, 10, m + n) = Prefix(d, 10, n)
<1>1. 10 \in Int /\ IntDigits(c) /\ IntDigits(d)
  OBVIOUS
<1>2. Prefix(c, 10, m + n) = Prefix(c, 10, m) * Power(10, n) + Prefix(d, 10, n)
  <2>1. \A i \in 1..n : Digit(c, m + i) = Digit(d, i)
    BY DEF GoesOn
  <2>2. QED
    BY <1>1, <2>1, PrefixSplit
<1>3. Prefix(c, 10, m) = 0
  BY <1>1, PrefixOfZeros, Zenon DEF ZerosUntil
<1>4. Power(10, n) \in Int /\ Prefix(d, 10, n) \in Int
  BY <1>1, PowerInt, PrefixInt, Zenon
<1>5. QED
  BY <1>2, <1>3, <1>4

(* Zeros in front do not count either.                                     *)
LEMMA DropLeading ==
    ASSUME NEW n \in Nat, NEW c, Decimal(c, n), LeadingZeros(c) # n
    PROVE  \E z \in 0..(n - 1) :
               /\ LeadingZeros(c) = z
               /\ Decimal(SubSeq(c, z + 1, n), n - z) /\ SubSeq(c, z + 1, n)[1] # 0
               /\ FromDigits(SubSeq(c, z + 1, n), 10) = FromDigits(c, 10)
<1> DEFINE z == LeadingZeros(c)
           d == SubSeq(c, z + 1, n)
<1>1. c \in Seq(0..9) /\ Len(c) = n
  BY DEF Decimal
<1>2. z \in 0..(n - 1) /\ c[z + 1] # 0 /\ \A i \in 1..z : c[i] = 0
  BY <1>1, Leading
<1> HIDE DEF z
<1>3. d \in Seq(0..9) /\ Len(d) = n - z /\ \A i \in 1..(n - z) : d[i] = c[z + i]
  <2>1. \A i \in (z + 1)..n : c[i] \in 0..9
    BY <1>1, <1>2
  <2>2. d \in Seq(0..9) /\ Len(d) = n - (z + 1) + 1
        /\ \A i \in 1..(n - (z + 1) + 1) : d[i] = c[(z + 1) + i - 1]
    BY <1>1, <1>2, <2>1, SubSeqProperties
  <2>3. n - (z + 1) + 1 = n - z /\ \A i \in 1..(n - z) : (z + 1) + i - 1 = z + i
    BY <1>2
  <2>4. QED
    BY <2>2, <2>3
<1> HIDE DEF d
<1>4. Decimal(d, n - z) /\ d[1] # 0
  BY <1>2, <1>3 DEF Decimal
<1>5. /\ IntDigits(c) /\ \A j \in 1..n : Digit(c, j) = c[j]
      /\ IntDigits(d) /\ \A j \in 1..(n - z) : Digit(d, j) = d[j]
  BY <1>4, TenDigits
<1>6. (\A i \in 1..z : Digit(c, i) = 0) /\ \A i \in 1..(n - z) : Digit(c, z + i) = Digit(d, i)
  <2>1. z \in Nat /\ (\A i \in 1..z : i \in 1..n) /\ \A i \in 1..(n - z) : z + i \in 1..n
    BY <1>2
  <2>2. QED
    BY <1>2, <1>3, <1>5, <2>1
<1>7. PICK k \in Nat : z \in Nat /\ k = n - z /\ z + k = n
  <2>1. z \in Nat /\ n - z \in Nat /\ z + (n - z) = n
    BY <1>2
  <2>2. QED
    BY <2>1
<1>8. IntDigits(c) /\ IntDigits(d) /\ ZerosUntil(c, z) /\ GoesOn(c, z, d, k)
  BY <1>5, <1>6, <1>7 DEF ZerosUntil, GoesOn
<1>9. Prefix(c, 10, z + k) = Prefix(d, 10, k)
  BY <1>7, <1>8, ZerosBefore
<1>10. FromDigits(d, 10) = FromDigits(c, 10)
  BY <1>1, <1>3, <1>7, <1>9 DEF FromDigits
<1>11. QED
  BY <1>2, <1>4, <1>10 DEF d, z

LEMMA AllZeros ==
    ASSUME NEW n \in Nat, NEW c, Decimal(c, n), LeadingZeros(c) = n
    PROVE  FromDigits(c, 10) = 0
<1>1. \A i \in 1..n : c[i] = 0
  BY NoLeading DEF Decimal
<1>2. \A i \in 1..n : Digit(c, i) = 0
  BY <1>1, TenDigits
<1>3. IntDigits(c) /\ 10 \in Int
  BY TenDigits
<1>4. Prefix(c, 10, n) = 0
  BY <1>2, <1>3, PrefixOfZeros
<1>5. QED
  BY <1>4 DEF FromDigits, Decimal

(* A number below the range becomes zero.                                  *)
DiffGives(g, r, m, p) ==
    /\ Normal(r) /\ IsFinite(r)
    /\ SameValue(M(r), P(r), m, p) \/ (m # 0 /\ ExponentOf(m, p) < g.minE /\ IsZero(r))

LEMMA ZeroIs ==
    ASSUME NEW s \in {-1, 1}, NEW p \in Int
    PROVE  /\ SameValue(M(Zero(s)), P(Zero(s)), 0, p)
           /\ Normal(Zero(s)) /\ IsFinite(Zero(s)) /\ IsZero(Zero(s))
<1>1. Zero(s).c = <<0>> /\ Zero(s).e = 0 /\ Zero(s).s = s
  BY DEF Zero, BigNum
<1>2. Decimal(<<0>>, 1)
  BY DEF Decimal
<1>3. LeadingZeros(<<0>>) = 1
  <2>1. Significant(<<0>>) = {} /\ Len(<<0>>) = 1
    BY DEF Significant
  <2>2. QED
    BY <2>1 DEF LeadingZeros
<1>4. FromDigits(<<0>>, 10) = 0
  BY <1>2, <1>3, AllZeros
<1>5. M(Zero(s)) = 0 /\ P(Zero(s)) = 0
  BY <1>1, <1>4 DEF M, P
<1>6. \A q \in Int, r \in Int : r <= q => At(0, q, r) = 0
  BY TenInt, PowerInt DEF At
<1>7. LowerOf(0, p) \in Int /\ LowerOf(0, p) <= 0 /\ LowerOf(0, p) <= p
  BY DEF LowerOf
<1>8. SameValue(0, 0, 0, p)
  BY <1>6, <1>7 DEF SameValue
<1>9. QED
  BY <1>1, <1>5, <1>8, NormalConstants DEF IsFinite, IsZero

LEMMA SignedLength ==
    ASSUME NEW n \in Nat \ {0}, NEW c, Decimal(c, n), c[1] # 0, NEW s \in {-1, 1}, NEW p \in Int
    PROVE  /\ ExponentOf(s * FromDigits(c, 10), p) = n - 1 + p
           /\ s * FromDigits(c, 10) # 0 /\ s * FromDigits(c, 10) \in Int
<1>1. FromDigits(c, 10) >= Power(10, n - 1) /\ FromDigits(c, 10) < Power(10, n) /\ FromDigits(c, 10) \in Nat
  BY LeadsValue
<1>2. Power(10, n - 1) \in Nat \ {0}
  <2>1. n - 1 \in Nat
    OBVIOUS
  <2>2. QED
    BY <2>1, TenInt, PowerPositive, Zenon
<1>3. s * FromDigits(c, 10) \in Int /\ AbsInt(s * FromDigits(c, 10)) = FromDigits(c, 10) /\ s * FromDigits(c, 10) # 0
  BY <1>1, <1>2 DEF AbsInt
<1>4. ExponentOf(s * FromDigits(c, 10), p) = n - 1 + p
  BY <1>1, <1>3, ExponentIs
<1>5. QED
  BY <1>3, <1>4

LEMMA DiffOfValue ==
    ASSUME NEW n \in Nat \ {0}, NEW d, Decimal(d, n), NEW g, NEW s \in {-1, 1}, NEW e \in Int
    PROVE  DiffGives(g, SubtractDigits(g, s, e, d), s * FromDigits(d, 10), e - n + 1)
<1>1. Len(d) = n /\ n \in Nat
  BY DEF Decimal
<1>2. CASE LeadingZeros(d) = n
  <2>1. SubtractDigits(g, s, e, d) = Zero(s)
    BY <1>1, <1>2 DEF SubtractDigits, DiffOf
  <2>2. FromDigits(d, 10) = 0 /\ s * 0 = 0 /\ e - n + 1 \in Int
    BY <1>2, AllZeros
  <2>3. SameValue(M(Zero(s)), P(Zero(s)), 0, e - n + 1) /\ Normal(Zero(s)) /\ IsFinite(Zero(s))
    BY <2>2, ZeroIs
  <2>4. QED
    BY <2>1, <2>2, <2>3 DEF DiffGives
<1>3. CASE LeadingZeros(d) # n
  <2>1. PICK z \in 0..(n - 1) :
            /\ LeadingZeros(d) = z
            /\ Decimal(SubSeq(d, z + 1, n), n - z) /\ SubSeq(d, z + 1, n)[1] # 0
            /\ FromDigits(SubSeq(d, z + 1, n), 10) = FromDigits(d, 10)
    BY <1>3, DropLeading
  <2> DEFINE c == SubSeq(d, z + 1, n)
  <2>2. SubtractDigits(g, s, e, d) = IF e - z < g.minE THEN Zero(s) ELSE BigNum(s, e - z, DropTrailingZeros(c))
    BY <1>1, <2>1 DEF SubtractDigits, DiffOf
  <2>3. Decimal(c, n - z) /\ c[1] # 0 /\ FromDigits(c, 10) = FromDigits(d, 10)
    BY <2>1
  <2> HIDE DEF c
  <2>4. n - z \in Nat \ {0} /\ n - z \in Nat /\ e - n + 1 \in Int /\ e - z \in Int /\ 1 \in 1..(n - z)
        /\ (n - z) - 1 + (e - n + 1) = e - z /\ (e - z) - (n - z) + 1 = e - n + 1
    OBVIOUS
  <2>5. /\ ExponentOf(s * FromDigits(c, 10), e - n + 1) = (n - z) - 1 + (e - n + 1)
        /\ s * FromDigits(c, 10) # 0
    BY <2>3, <2>4, SignedLength
  <2>6. CASE e - z < g.minE
    <3>1. SubtractDigits(g, s, e, d) = Zero(s)
      BY <2>2, <2>6
    <3>2. Normal(Zero(s)) /\ IsFinite(Zero(s)) /\ IsZero(Zero(s))
      BY <2>4, ZeroIs
    <3>3. QED
      BY <2>3, <2>4, <2>5, <2>6, <3>1, <3>2 DEF DiffGives
  <2>7. CASE ~(e - z < g.minE)
    <3> DEFINE r == BigNum(s, e - z, DropTrailingZeros(c))
    <3>1. SubtractDigits(g, s, e, d) = r
      BY <2>2, <2>7
    <3>2. Leads(c)
      BY <2>3, <2>4 DEF Leads, Decimal
    <3>3. Normal(r)
      BY <2>4, <3>2, NormalOfDigits
    <3>4. SameValue(M(r), P(r), s * FromDigits(c, 10), (e - z) - (n - z) + 1)
      BY <2>3, <2>4, TrimmedValue
    <3>5. IsFinite(r)
      <4>1. PICK k \in 1..(n - z) : Decimal(DropTrailingZeros(c), k)
        BY <2>3, <2>4, TrimValue
      <4>2. QED
        BY <4>1 DEF IsFinite, BigNum, Decimal
    <3> HIDE DEF r
    <3>6. QED
      BY <2>3, <2>4, <3>1, <3>3, <3>4, <3>5 DEF DiffGives
  <2>8. QED
    BY <2>6, <2>7
<1>4. QED
  BY <1>2, <1>3

(* What x + y and x - y are, in units of 10^p.                             *)
Unit(x, y)  == LowerOf(P(x), P(y))
Left(x, y)  == At(M(x), P(x), Unit(x, y))
Right(x, y) == At(M(y), P(y), Unit(x, y))

LEMMA UnitInt ==
    ASSUME NEW x, NEW y, HasDigits(x), HasDigits(y)
    PROVE  /\ Unit(x, y) \in Int /\ Unit(x, y) <= P(x) /\ Unit(x, y) <= P(y)
           /\ Left(x, y) \in Int /\ Right(x, y) \in Int
<1>1. M(x) \in Int /\ P(x) \in Int /\ M(y) \in Int /\ P(y) \in Int
  BY ValueInt
<1>2. Unit(x, y) \in Int /\ Unit(x, y) <= P(x) /\ Unit(x, y) <= P(y)
  BY <1>1 DEF Unit, LowerOf
<1>3. QED
  BY <1>1, <1>2, AtInt DEF Left, Right

LEMMA AddAlignedGives ==
    ASSUME NEW g, NEW x, NEW y, HasDigits(x), HasDigits(y), x.c[1] # 0, y.c[1] # 0, x.s = y.s
    PROVE  SumGives(g, AddAligned(g, y.s, Aligned(x, y)), Left(x, y) + Right(x, y), Unit(x, y))
<1> DEFINE u == Aligned(x, y)
           A == FromDigits(u.a, 10)
           B == FromDigits(u.b, 10)
<1>1. PICK n \in Nat \ {0} : AlignedAt(x, y, u, n)
  BY AlignedValue
<1> HIDE DEF u
<1>2. /\ Decimal(u.a, n) /\ Decimal(u.b, n) /\ u.e \in Int /\ (u.a[1] # 0 \/ u.b[1] # 0)
      /\ u.e - n + 1 = Unit(x, y) /\ Left(x, y) = x.s * A /\ Right(x, y) = y.s * B
      /\ A \in Nat /\ B \in Nat
  BY <1>1 DEF AlignedAt, Unit, Left, Right
<1>3. y.s \in {-1, 1}
  BY DEF HasDigits
<1>4. SumGives(g, SumOf(g, y.s, u.e, SumDigits(u.a, u.b)), y.s * (A + B), u.e - n + 1)
  BY <1>2, <1>3, SumOfValue
<1> HIDE DEF A, B
<1>5. y.s * (A + B) = Left(x, y) + Right(x, y)
  <2>1. y.s * A = Left(x, y) /\ y.s * B = Right(x, y) /\ A \in Int /\ B \in Int
    BY <1>2
  <2>2. CASE y.s = 1
    BY <2>1, <2>2
  <2>3. CASE y.s = -1
    BY <2>1, <2>3
  <2>4. QED
    BY <1>3, <2>2, <2>3
<1>6. QED
  BY <1>2, <1>4, <1>5 DEF AddAligned, u

LEMMA SubtractAlignedGives ==
    ASSUME NEW g, NEW x, NEW y, HasDigits(x), HasDigits(y), x.c[1] # 0, y.c[1] # 0, x.s = y.s
    PROVE  DiffGives(g, SubtractAligned(g, y.s, Aligned(x, y)), Left(x, y) - Right(x, y), Unit(x, y))
<1> DEFINE u == Aligned(x, y)
           A == FromDigits(u.a, 10)
           B == FromDigits(u.b, 10)
<1>1. PICK n \in Nat \ {0} : AlignedAt(x, y, u, n)
  BY AlignedValue
<1> HIDE DEF u
<1>2. /\ Decimal(u.a, n) /\ Decimal(u.b, n) /\ u.e \in Int
      /\ u.e - n + 1 = Unit(x, y) /\ Left(x, y) = x.s * A /\ Right(x, y) = y.s * B
      /\ A \in Nat /\ B \in Nat
  BY <1>1 DEF AlignedAt, Unit, Left, Right
<1>3. y.s \in {-1, 1} /\ -y.s \in {-1, 1} /\ n \in Nat
  BY DEF HasDigits
<1>4. CmpDigits(u.a, u.b) = Sgn(A - B)
  BY <1>2, <1>3, CmpAligned
<1>5. A - B \in Int /\ (Sgn(A - B) < 0 <=> A < B)
  BY <1>2 DEF Sgn
<1>6. y.s * (A - B) = Left(x, y) - Right(x, y)
  <2> HIDE DEF A, B
  <2>1. y.s * A = Left(x, y) /\ y.s * B = Right(x, y) /\ A \in Int /\ B \in Int
    BY <1>2
  <2>2. CASE y.s = 1
    BY <2>1, <2>2
  <2>3. CASE y.s = -1
    BY <2>1, <2>3
  <2>4. QED
    BY <1>3, <2>2, <2>3
<1>7. CASE A < B
  <2>1. SubtractAligned(g, y.s, u) = SubtractDigits(g, -y.s, u.e, DiffDigits(u.b, u.a))
    BY <1>4, <1>5, <1>7 DEF SubtractAligned
  <2>2. Decimal(DiffDigits(u.b, u.a), n) /\ FromDigits(DiffDigits(u.b, u.a), 10) = B - A
    BY <1>2, <1>3, <1>7, DiffValue
  <2>3. DiffGives(g, SubtractDigits(g, -y.s, u.e, DiffDigits(u.b, u.a)), (-y.s) * (B - A), u.e - n + 1)
    BY <1>2, <1>3, <2>2, DiffOfValue
  <2> HIDE DEF A, B
  <2>4. (-y.s) * (B - A) = y.s * (A - B)
    BY <1>2, <1>3
  <2>5. QED
    BY <1>2, <1>6, <2>1, <2>3, <2>4 DEF u
<1>8. CASE ~(A < B)
  <2>1. SubtractAligned(g, y.s, u) = SubtractDigits(g, y.s, u.e, DiffDigits(u.a, u.b))
    BY <1>4, <1>5, <1>8 DEF SubtractAligned
  <2>2. A >= B
    BY <1>2, <1>8
  <2>3. Decimal(DiffDigits(u.a, u.b), n) /\ FromDigits(DiffDigits(u.a, u.b), 10) = A - B
    BY <1>2, <1>3, <2>2, DiffValue
  <2>4. DiffGives(g, SubtractDigits(g, y.s, u.e, DiffDigits(u.a, u.b)), y.s * (A - B), u.e - n + 1)
    BY <1>2, <1>3, <2>3, DiffOfValue
  <2>5. QED
    BY <1>2, <1>6, <2>1, <2>4 DEF u
<1>9. QED
  BY <1>7, <1>8

(* The same number with the other sign.                                    *)
LEMMA NegValue ==
    ASSUME NEW y, Normal(y), IsFinite(y)
    PROVE  /\ Normal(Neg(y)) /\ IsFinite(Neg(y)) /\ IsZero(Neg(y)) = IsZero(y)
           /\ Neg(y).s = -y.s /\ Neg(y).c = y.c
           /\ M(Neg(y)) = -M(y) /\ P(Neg(y)) = P(y)
<1>1. y.s \in {-1, 1} /\ y \in Numbers
  BY NormalFacts DEF Normal
<1>2. Neg(y).s = -y.s /\ Neg(y).c = y.c /\ Neg(y).e = y.e
  BY <1>1 DEF Neg, Numbers
<1>3. FromDigits(y.c, 10) \in Nat
  BY FiniteHasDigits, ValueInt
<1> DEFINE v == FromDigits(y.c, 10)
<1> HIDE DEF v
<1>4. v \in Int /\ M(y) = y.s * v /\ M(Neg(y)) = (-y.s) * v
  BY <1>2, <1>3 DEF M, v
<1>5. M(Neg(y)) = -M(y)
  BY <1>1, <1>4
<1>6. QED
  BY <1>2, <1>5, NormalNeg DEF IsFinite, IsZero, P

LEMMA ZeroValue ==
    ASSUME NEW y, Normal(y), IsZero(y)
    PROVE  M(y) = 0 /\ y = Zero(y.s) /\ y.s \in {-1, 1}
<1>1. y.s \in {-1, 1} /\ y.c = <<0>> /\ y = Zero(y.s) /\ M(y) \in Int /\ P(y) \in Int
  BY NormalFacts, FiniteHasDigits, ValueInt DEF IsZero, Zero, BigNum
<1>2. Decimal(<<0>>, 1)
  BY DEF Decimal
<1>3. LeadingZeros(<<0>>) = 1
  <2>1. Significant(<<0>>) = {} /\ Len(<<0>>) = 1
    BY DEF Significant
  <2>2. QED
    BY <2>1 DEF LeadingZeros
<1>4. FromDigits(y.c, 10) = 0
  BY <1>1, <1>2, <1>3, AllZeros
<1>5. QED
  BY <1>1, <1>4 DEF M

(* r is m * 10^p, an exception because it is above the range, or the zero  *)
(* it becomes below.                                                       *)
Yields(g, r, m, p) == SumGives(g, r, m, p) \/ DiffGives(g, r, m, p)

LEMMA GivesItself ==
    ASSUME NEW g, NEW x, Normal(x), IsFinite(x), NEW p \in Int, p <= P(x)
    PROVE  Yields(g, x, At(M(x), P(x), p), p)
<1>1. M(x) \in Int /\ P(x) \in Int
  BY FiniteHasDigits, ValueInt
<1>2. At(M(x), P(x), p) \in Int
  BY <1>1, AtInt
<1>3. SameValue(M(x), P(x), At(M(x), P(x), p), p)
  BY <1>1, <1>2, SameItself
<1>4. QED
  BY <1>3 DEF Yields, DiffGives

LEMMA AtZero ==
    ASSUME NEW p \in Int, NEW q \in Int, q <= p
    PROVE  At(0, p, q) = 0
<1>1. p - q \in Nat
  OBVIOUS
<1>2. Power(10, p - q) \in Int
  BY <1>1, TenInt, PowerInt, Zenon
<1>3. QED
  BY <1>2 DEF At

LEMMA AtNeg ==
    ASSUME NEW m \in Int, NEW p \in Int, NEW q \in Int, q <= p
    PROVE  At(-m, p, q) = 0 - At(m, p, q)
<1>1. p - q \in Nat
  OBVIOUS
<1>2. Power(10, p - q) \in Int
  BY <1>1, TenInt, PowerInt, Zenon
<1>3. \A k \in Int : (-m) * k = 0 - m * k
  OBVIOUS
<1>4. QED
  BY <1>2, <1>3 DEF At

LEMMA FiniteNeg ==
    ASSUME NEW g, NEW x, NEW y, Normal(x), Normal(y), IsFinite(x), IsFinite(y)
    PROVE  /\ x.s \in {-1, 1} /\ y.s \in {-1, 1} /\ ~IsNaN(x) /\ ~IsNaN(y)
           /\ ~IsZero(x) => x.c[1] # 0
           /\ ~IsZero(y) => y.c[1] # 0
           /\ HasDigits(x) /\ HasDigits(y)
  BY NormalFacts, FiniteHasDigits DEF IsNaN, Leads

LEMMA AddGives ==
    ASSUME NEW g, NEW x, NEW y, Normal(x), Normal(y), IsFinite(x), IsFinite(y), x.s = y.s
    PROVE  Yields(g, Add(g, x, y), Left(x, y) + Right(x, y), Unit(x, y))
<1>1. /\ x.s \in {-1, 1} /\ y.s \in {-1, 1} /\ HasDigits(x) /\ HasDigits(y)
      /\ (~IsZero(x) => x.c[1] # 0) /\ (~IsZero(y) => y.c[1] # 0)
  BY FiniteNeg
<1>2. /\ Unit(x, y) \in Int /\ Unit(x, y) <= P(x) /\ Unit(x, y) <= P(y) /\ P(x) \in Int /\ P(y) \in Int
      /\ Left(x, y) \in Int /\ Right(x, y) \in Int
  BY <1>1, UnitInt, ValueInt
<1>3. CASE IsZero(y)
  <2>1. Add(g, x, y) = IF IsZero(x) THEN Zero(x.s) ELSE x
    BY <1>3 DEF Add
  <2>2. Add(g, x, y) = x
    BY <2>1, ZeroValue
  <2>3. M(y) = 0
    BY <1>3, ZeroValue
  <2>4. Right(x, y) = 0
    BY <1>2, <2>3, AtZero DEF Right
  <2>5. Yields(g, x, Left(x, y), Unit(x, y))
    BY <1>2, GivesItself DEF Left
  <2>6. QED
    BY <1>2, <2>2, <2>4, <2>5
<1>4. CASE ~IsZero(y) /\ IsZero(x)
  <2>1. Add(g, x, y) = y
    BY <1>4 DEF Add
  <2>2. M(x) = 0
    BY <1>4, ZeroValue
  <2>3. Left(x, y) = 0
    BY <1>2, <2>2, AtZero DEF Left
  <2>4. Yields(g, y, Right(x, y), Unit(x, y))
    BY <1>2, GivesItself DEF Right
  <2>5. QED
    BY <1>2, <2>1, <2>3, <2>4
<1>5. CASE ~IsZero(y) /\ ~IsZero(x)
  <2>1. Add(g, x, y) = AddAligned(g, y.s, Aligned(x, y))
    BY <1>5 DEF Add
  <2>2. SumGives(g, AddAligned(g, y.s, Aligned(x, y)), Left(x, y) + Right(x, y), Unit(x, y))
    BY <1>1, <1>5, AddAlignedGives
  <2>3. QED
    BY <2>1, <2>2 DEF Yields
<1>6. QED
  BY <1>3, <1>4, <1>5

LEMMA SubtractGives ==
    ASSUME NEW g, NEW x, NEW y, Normal(x), Normal(y), IsFinite(x), IsFinite(y), x.s = y.s
    PROVE  Yields(g, Subtract(g, x, y), Left(x, y) - Right(x, y), Unit(x, y))
<1>1. /\ x.s \in {-1, 1} /\ y.s \in {-1, 1} /\ HasDigits(x) /\ HasDigits(y)
      /\ (~IsZero(x) => x.c[1] # 0) /\ (~IsZero(y) => y.c[1] # 0)
  BY FiniteNeg
<1>2. /\ Unit(x, y) \in Int /\ Unit(x, y) <= P(x) /\ Unit(x, y) <= P(y) /\ P(x) \in Int /\ P(y) \in Int
      /\ Left(x, y) \in Int /\ Right(x, y) \in Int /\ M(x) \in Int /\ M(y) \in Int
  BY <1>1, UnitInt, ValueInt
<1>3. CASE IsZero(y)
  <2>1. Subtract(g, x, y) = IF IsZero(x) THEN Zero(1) ELSE x
    BY <1>3 DEF Subtract
  <2>2. M(y) = 0
    BY <1>3, ZeroValue
  <2>3. Right(x, y) = 0 /\ Left(x, y) - 0 = Left(x, y)
    BY <1>2, <2>2, AtZero DEF Right
  <2>4. CASE IsZero(x)
    <3>1. Left(x, y) = 0
      BY <1>2, <2>4, ZeroValue, AtZero DEF Left
    <3>2. DiffGives(g, Zero(1), 0, Unit(x, y))
      BY <1>2, ZeroIs DEF DiffGives
    <3>3. QED
      BY <2>1, <2>3, <2>4, <3>1, <3>2 DEF Yields
  <2>5. CASE ~IsZero(x)
    <3>1. Yields(g, x, Left(x, y), Unit(x, y))
      BY <1>2, GivesItself DEF Left
    <3>2. QED
      BY <2>1, <2>3, <2>5, <3>1
  <2>6. QED
    BY <2>4, <2>5
<1>4. CASE ~IsZero(y) /\ IsZero(x)
  <2>1. Subtract(g, x, y) = Neg(y)
    BY <1>4 DEF Subtract
  <2>2. M(x) = 0
    BY <1>4, ZeroValue
  <2>3. Left(x, y) = 0
    BY <1>2, <2>2, AtZero DEF Left
  <2>4. Normal(Neg(y)) /\ IsFinite(Neg(y)) /\ M(Neg(y)) = -M(y) /\ P(Neg(y)) = P(y)
    BY NegValue
  <2>5. Yields(g, Neg(y), At(-M(y), P(y), Unit(x, y)), Unit(x, y))
    BY <1>2, <2>4, GivesItself
  <2>6. At(-M(y), P(y), Unit(x, y)) = 0 - Right(x, y)
    BY <1>2, AtNeg DEF Right
  <2>7. QED
    BY <2>1, <2>3, <2>5, <2>6
<1>5. CASE ~IsZero(y) /\ ~IsZero(x)
  <2>1. Subtract(g, x, y) = SubtractAligned(g, y.s, Aligned(x, y))
    BY <1>5 DEF Subtract
  <2>2. DiffGives(g, SubtractAligned(g, y.s, Aligned(x, y)), Left(x, y) - Right(x, y), Unit(x, y))
    BY <1>1, <1>5, SubtractAlignedGives
  <2>3. QED
    BY <2>1, <2>2 DEF Yields
<1>6. QED
  BY <1>3, <1>4, <1>5

(* The values of the operands when one of them has the other sign.         *)
LEMMA NegRight ==
    ASSUME NEW x, NEW y, Normal(x), Normal(y), IsFinite(x), IsFinite(y)
    PROVE  Unit(x, Neg(y)) = Unit(x, y) /\ Left(x, Neg(y)) = Left(x, y) /\ Right(x, Neg(y)) = 0 - Right(x, y)
<1>1. M(Neg(y)) = -M(y) /\ P(Neg(y)) = P(y)
  BY NegValue
<1>2. HasDigits(x) /\ HasDigits(y)
  BY FiniteHasDigits
<1>3. P(y) \in Int /\ M(y) \in Int /\ Unit(x, y) \in Int /\ Unit(x, y) <= P(y)
  BY <1>2, UnitInt, ValueInt
<1>4. Unit(x, Neg(y)) = Unit(x, y)
  BY <1>1 DEF Unit
<1>5. At(-M(y), P(y), Unit(x, y)) = 0 - At(M(y), P(y), Unit(x, y))
  BY <1>3, AtNeg
<1>6. QED
  BY <1>1, <1>4, <1>5 DEF Left, Right

LEMMA FinitePlus ==
    ASSUME NEW g, NEW x, NEW y, Normal(x), Normal(y), IsFinite(x), IsFinite(y)
    PROVE  Yields(g, Plus(g, x, y), Left(x, y) + Right(x, y), Unit(x, y))
<1>1. x.s \in {-1, 1} /\ y.s \in {-1, 1} /\ ~IsNaN(x) /\ ~IsNaN(y) /\ HasDigits(x) /\ HasDigits(y)
  BY FiniteNeg
<1>2. CASE x.s = y.s
  BY <1>1, <1>2, AddGives DEF Plus
<1>3. CASE x.s # y.s
  <2>1. Normal(Neg(y)) /\ IsFinite(Neg(y)) /\ Neg(y).s = x.s
    BY <1>1, <1>3, NegValue
  <2>2. Yields(g, Subtract(g, x, Neg(y)), Left(x, Neg(y)) - Right(x, Neg(y)), Unit(x, Neg(y)))
    BY <2>1, SubtractGives
  <2>3. Left(x, y) - (0 - Right(x, y)) = Left(x, y) + Right(x, y)
    BY <1>1, UnitInt
  <2>4. Plus(g, x, y) = Subtract(g, x, Neg(y))
    BY <1>1, <1>3 DEF Plus
  <2>5. QED
    BY <2>2, <2>3, <2>4, NegRight
<1>4. QED
  BY <1>2, <1>3

LEMMA FiniteMinus ==
    ASSUME NEW g, NEW x, NEW y, Normal(x), Normal(y), IsFinite(x), IsFinite(y)
    PROVE  Yields(g, Minus(g, x, y), Left(x, y) - Right(x, y), Unit(x, y))
<1>1. x.s \in {-1, 1} /\ y.s \in {-1, 1} /\ ~IsNaN(x) /\ ~IsNaN(y) /\ HasDigits(x) /\ HasDigits(y)
  BY FiniteNeg
<1>2. CASE x.s = y.s
  BY <1>1, <1>2, SubtractGives DEF Minus
<1>3. CASE x.s # y.s
  <2>1. Normal(Neg(y)) /\ IsFinite(Neg(y)) /\ Neg(y).s = x.s
    BY <1>1, <1>3, NegValue
  <2>2. Yields(g, Add(g, x, Neg(y)), Left(x, Neg(y)) + Right(x, Neg(y)), Unit(x, Neg(y)))
    BY <2>1, AddGives
  <2>3. Left(x, y) + (0 - Right(x, y)) = Left(x, y) - Right(x, y)
    BY <1>1, UnitInt
  <2>4. Minus(g, x, y) = Add(g, x, Neg(y))
    BY <1>1, <1>3 DEF Minus
  <2>5. QED
    BY <2>2, <2>3, <2>4, NegRight
<1>4. QED
  BY <1>2, <1>3

LEMMA GivesResult ==
    ASSUME NEW g, NEW r, NEW m, NEW p, Yields(g, r, m, p)
    PROVE  /\ Result(r) /\ (Threw(r) \/ IsFinite(r))
           /\ IF Threw(r) THEN ExponentOf(m, p) > g.maxE ELSE IsResult(g, r, m, p)
  BY NoThrow DEF Yields, SumGives, DiffGives, Result, IsResult

LEMMA PlusMinusResult ==
    ASSUME NEW g, NEW x, NEW y, Normal(x), Normal(y)
    PROVE  Result(Plus(g, x, y)) /\ Result(Minus(g, x, y))
<1>1. Normal(NaN) /\ Normal(Infinity(x.s)) /\ Normal(Neg(y)) /\ Normal(x) /\ Normal(Neg(Neg(y)))
  BY NormalFacts, NormalConstants, NormalNeg
<1>2. CASE IsFinite(x) /\ IsFinite(y)
  <2>1. Yields(g, Plus(g, x, y), Left(x, y) + Right(x, y), Unit(x, y))
    BY <1>2, FinitePlus
  <2>2. Yields(g, Minus(g, x, y), Left(x, y) - Right(x, y), Unit(x, y))
    BY <1>2, FiniteMinus
  <2>3. QED
    BY <2>1, <2>2, GivesResult
<1>3. CASE ~IsFinite(x) \/ ~IsFinite(y)
  <2>1. IsFinite(Neg(y)) <=> IsFinite(y)
    BY NormalFacts DEF Neg, IsFinite, BigNum
  <2>2. /\ Add(g, x, y) = Infinity(x.s) /\ Add(g, x, Neg(y)) = Infinity(x.s)
    BY <1>3, <2>1 DEF Add, IsFinite, IsZero
  <2>3. /\ Subtract(g, x, y) \in {Neg(y), x, NaN}
        /\ Subtract(g, x, Neg(y)) \in {Neg(Neg(y)), x, NaN}
    BY <1>3, <2>1 DEF Subtract, IsFinite, IsZero
  <2>4. Plus(g, x, y) \in {NaN, Infinity(x.s), Neg(Neg(y)), x}
    BY <2>2, <2>3 DEF Plus
  <2>5. Minus(g, x, y) \in {NaN, Infinity(x.s), Neg(y), x}
    BY <2>2, <2>3 DEF Minus
  <2>6. QED
    BY <1>1, <2>4, <2>5 DEF Result
<1>4. QED
  BY <1>2, <1>3

(* The digits of a number with more zeros behind them: its value in units  *)
(* of 10^q, without the sign.                                              *)
InUnits(x, q, a) ==
    /\ a \in Nat \ {0} /\ At(M(x), P(x), q) = x.s * a
    /\ a >= Power(10, x.e - q) /\ a < Power(10, x.e - q + 1)
    /\ a = FromDigits(x.c, 10) * Power(10, P(x) - q)

LEMMA UnitsOf ==
    ASSUME NEW x, HasDigits(x), x.c[1] # 0, NEW q \in Int, q <= P(x)
    PROVE  \E a : InUnits(x, q, a)
<1> DEFINE k == Len(x.c)
           v == FromDigits(x.c, 10)
<1>1. x.s \in {-1, 1} /\ x.e \in Int /\ k \in Nat \ {0} /\ Decimal(x.c, k)
  BY DEF HasDigits, Decimal
<1>2. P(x) = x.e - k + 1 /\ M(x) = x.s * v
  BY DEF P, M
<1> HIDE DEF k
<1>3. v >= Power(10, k - 1) /\ v < Power(10, k) /\ v \in Nat
  BY <1>1, LeadsValue
<1> HIDE DEF v
<1>4. PICK j \in Nat : j = P(x) - q /\ x.e - q = (k - 1) + j /\ x.e - q + 1 = k + j /\ k - 1 \in Nat /\ k \in Nat
  <2>1. P(x) - q \in Nat /\ x.e - q = (k - 1) + (P(x) - q) /\ x.e - q + 1 = k + (P(x) - q) /\ k - 1 \in Nat
    BY <1>1, <1>2
  <2>2. QED
    BY <1>1, <2>1
<1>5. Power(10, (k - 1) + j) = Power(10, k - 1) * Power(10, j) /\ Power(10, k + j) = Power(10, k) * Power(10, j)
  BY <1>4, TenInt, PowerPlus
<1>6. Power(10, j) \in Nat \ {0} /\ Power(10, k - 1) \in Nat \ {0} /\ Power(10, k) \in Nat \ {0}
  BY <1>4, TenInt, PowerPositive
<1> DEFINE a == v * Power(10, j)
<1>7. a >= Power(10, k - 1) * Power(10, j) /\ a < Power(10, k) * Power(10, j) /\ a \in Nat \ {0}
  <2> DEFINE f == Power(10, j)
             lo == Power(10, k - 1)
             hi == Power(10, k)
  <2>1. f \in Nat \ {0} /\ lo \in Nat \ {0} /\ hi \in Nat \ {0} /\ v \in Nat /\ v >= lo /\ v < hi
    BY <1>3, <1>6
  <2> HIDE DEF f, lo, hi
  <2>2. v * f >= lo * f /\ v * f < hi * f /\ v * f \in Nat /\ v * f # 0
    BY <2>1
  <2>3. QED
    BY <2>2 DEF f, lo, hi
<1>8. At(M(x), P(x), q) = x.s * a
  <2>1. (x.s * v) * Power(10, j) = x.s * (v * Power(10, j))
    BY <1>1, <1>3, <1>6
  <2>2. QED
    BY <1>2, <1>4, <2>1 DEF At
<1>9. InUnits(x, q, a)
  BY <1>4, <1>5, <1>7, <1>8 DEF InUnits, v
<1>10. QED
  BY <1>9

LEMMA SgnSigned ==
    ASSUME NEW s \in {-1, 1}, NEW v \in Int
    PROVE  Sgn(s * v) = s * Sgn(v)
<1>1. s * v = v \/ s * v = -v
  OBVIOUS
<1>2. CASE s = 1
  BY <1>2, SgnFacts
<1>3. CASE s = -1
  <2>1. s * v = -v /\ -v \in Int
    BY <1>3
  <2>2. Sgn(v) \in {-1, 0, 1} /\ Sgn(-v) = -Sgn(v)
    BY SgnFacts
  <2>3. s * Sgn(v) = -Sgn(v)
    BY <1>3, <2>2
  <2>4. QED
    BY <2>1, <2>2, <2>3
<1>4. QED
  BY <1>2, <1>3

(* The value of digits with zeros behind them.                             *)
LEMMA PrefixBeyond ==
    ASSUME NEW c, NEW k \in Nat, Decimal(c, k), NEW n \in Nat, k <= n
    PROVE  Prefix(c, 10, n) = FromDigits(c, 10) * Power(10, n - k)
<1>1. PICK j \in Nat : j = n - k /\ k + j = n
  <2>1. n - k \in Nat /\ k + (n - k) = n
    OBVIOUS
  <2>2. QED
    BY <2>1
<1>2. IntDigits(c) /\ Len(c) = k /\ DOMAIN c = 1..k
  <2>1. IntDigits(c)
    BY TenDigits
  <2>2. QED
    BY <2>1 DEF Decimal
<1>3. \A i \in 1..j : Digit(c, k + i) = 0
  <2>1. \A i \in 1..j : k + i \notin 1..k
    OBVIOUS
  <2>2. QED
    BY <1>2, <2>1 DEF Digit
<1>4. 10 \in Int /\ IntDigits(c)
  BY <1>2
<1>5. Prefix(c, 10, k + j) = Prefix(c, 10, k) * Power(10, j)
  BY <1>3, <1>4, PrefixZerosBehind
<1>6. QED
  BY <1>1, <1>2, <1>5 DEF FromDigits

(* Numbers of one sign with one exponent.                                  *)
LEMMA CmpOneExponent ==
    ASSUME NEW x, NEW y, HasDigits(x), HasDigits(y), x.c[Len(x.c)] # 0, y.c[Len(y.c)] # 0, x.e = y.e,
           NEW a, NEW b, InUnits(x, Unit(x, y), a), InUnits(y, Unit(x, y), b)
    PROVE  CmpDigits(x.c, y.c) = Sgn(a - b)
<1> DEFINE k == Len(x.c)
           l == Len(y.c)
           n == IF k > l THEN k ELSE l
<1>1. k \in Nat \ {0} /\ Decimal(x.c, k) /\ x.e \in Int /\ l \in Nat \ {0} /\ Decimal(y.c, l)
  BY DEF HasDigits, Decimal
<1>2. P(x) = x.e - k + 1 /\ P(y) = x.e - l + 1 /\ x.c[k] # 0 /\ y.c[l] # 0
  BY DEF P
<1> HIDE DEF k, l
<1>3. Unit(x, y) = x.e - n + 1 /\ k <= n /\ l <= n /\ n \in Nat /\ k \in Nat /\ l \in Nat
  BY <1>1, <1>2 DEF Unit, LowerOf
<1>4. P(x) - Unit(x, y) = n - k /\ P(y) - Unit(x, y) = n - l
  <2> HIDE DEF n
  <2>1. QED
    BY <1>1, <1>2, <1>3
<1>5. n = k \/ n = l
  OBVIOUS
<1> HIDE DEF n
<1>6. a = Prefix(x.c, 10, n) /\ b = Prefix(y.c, 10, n)
  BY <1>1, <1>3, <1>4, PrefixBeyond DEF InUnits
<1>7. a \in Int /\ b \in Int
  BY DEF InUnits
<1>8. CASE Differ(x.c, y.c) # {}
  BY <1>1, <1>3, <1>6, <1>8, CmpDifferent
<1>9. CASE Differ(x.c, y.c) = {}
  <2>1. Differ(y.c, x.c) = {}
    BY <1>9 DEF Differ
  <2>2. CASE k = l
    <3>1. Decimal(y.c, k) /\ n = k
      BY <1>1, <1>5, <2>2
    <3>2. CmpDigits(x.c, y.c) = 0 /\ a = b
      BY <1>1, <1>3, <1>6, <1>9, <3>1, CmpSame
    <3>3. QED
      BY <1>7, <3>2, SgnFacts
  <2>3. CASE k < l
    <3>1. n = l
      BY <1>3, <1>5, <2>3
    <3>2. CmpDigits(x.c, y.c) = -1 /\ a < b
      BY <1>1, <1>2, <1>3, <1>6, <1>9, <2>3, <3>1, CmpShorter
    <3>3. QED
      BY <1>7, <3>2, SgnFacts
  <2>4. CASE l < k
    <3>1. n = k
      BY <1>3, <1>5, <2>4
    <3>2. CmpDigits(x.c, y.c) = 1 /\ b < a
      BY <1>1, <1>2, <1>3, <1>6, <2>1, <2>4, <3>1, CmpShorter
    <3>3. QED
      BY <1>7, <3>2, SgnFacts
  <2>5. QED
    BY <1>3, <2>2, <2>3, <2>4
<1>10. QED
  BY <1>8, <1>9

LEMMA HigherExponent ==
    ASSUME NEW x, NEW y, NEW q \in Int, x.e \in Int, y.e \in Int, x.e < y.e, q <= x.e,
           NEW a, NEW b, InUnits(x, q, a), InUnits(y, q, b)
    PROVE  a < b
<1>1. PICK i \in Nat, j \in Nat : i = x.e - q + 1 /\ j = y.e - q /\ i <= j
  <2>1. x.e - q + 1 \in Nat /\ y.e - q \in Nat /\ x.e - q + 1 <= y.e - q
    OBVIOUS
  <2>2. QED
    BY <2>1
<1>2. Power(10, i) <= Power(10, j) /\ Power(10, i) \in Int /\ Power(10, j) \in Int
  BY <1>1, TenInt, PowerMonotone, PowerInt
<1>3. a < Power(10, i) /\ b >= Power(10, j) /\ a \in Int /\ b \in Int
  BY <1>1 DEF InUnits
<1>4. QED
  BY <1>2, <1>3

LEMMA FiniteCmp ==
    ASSUME NEW x, NEW y, Normal(x), Normal(y), IsFinite(x), IsFinite(y)
    PROVE  Cmp(x, y) = Sgn(Left(x, y) - Right(x, y))
<1>1. /\ x.s \in {-1, 1} /\ y.s \in {-1, 1} /\ HasDigits(x) /\ HasDigits(y) /\ ~IsNaN(x) /\ ~IsNaN(y)
      /\ (~IsZero(x) => x.c[1] # 0) /\ (~IsZero(y) => y.c[1] # 0)
  BY FiniteNeg
<1>2. /\ Unit(x, y) \in Int /\ Unit(x, y) <= P(x) /\ Unit(x, y) <= P(y) /\ P(x) \in Int /\ P(y) \in Int
      /\ x.e \in Int /\ y.e \in Int
  BY <1>1, UnitInt, ValueInt DEF HasDigits
<1>3. IsZero(x) => Left(x, y) = 0
  BY <1>2, ZeroValue, AtZero DEF Left
<1>4. IsZero(y) => Right(x, y) = 0
  BY <1>2, ZeroValue, AtZero DEF Right
<1>5. ~IsZero(x) => \E a : InUnits(x, Unit(x, y), a)
  BY <1>1, <1>2, UnitsOf
<1>6. ~IsZero(y) => \E b : InUnits(y, Unit(x, y), b)
  BY <1>1, <1>2, UnitsOf
<1>7. CASE IsZero(x) \/ IsZero(y)
  <2>1. Cmp(x, y) = IF ~IsZero(x) THEN x.s ELSE IF IsZero(y) THEN 0 ELSE -y.s
    BY <1>1, <1>7 DEF Cmp
  <2>2. CASE IsZero(x) /\ IsZero(y)
    BY <1>3, <1>4, <2>1, <2>2, SgnFacts
  <2>3. CASE IsZero(x) /\ ~IsZero(y)
    <3>1. PICK b : InUnits(y, Unit(x, y), b)
      BY <1>6, <2>3
    <3>2. Right(x, y) = y.s * b /\ b \in Nat \ {0}
      BY <3>1 DEF InUnits, Right
    <3>3. Sgn(0 - Right(x, y)) = -y.s
      <4>1. 0 - y.s * b = -b \/ 0 - y.s * b = b
        BY <1>1, <3>2
      <4>2. CASE y.s = 1
        BY <3>2, <4>2, SgnFacts
      <4>3. CASE y.s = -1
        BY <3>2, <4>3, SgnFacts
      <4>4. QED
        BY <1>1, <4>2, <4>3
    <3>4. QED
      BY <1>3, <2>1, <2>3, <3>3
  <2>4. CASE ~IsZero(x) /\ IsZero(y)
    <3>1. PICK a : InUnits(x, Unit(x, y), a)
      BY <1>5, <2>4
    <3>2. Left(x, y) = x.s * a /\ a \in Nat \ {0}
      BY <3>1 DEF InUnits, Left
    <3>3. Sgn(Left(x, y) - 0) = x.s
      <4>1. CASE x.s = 1
        BY <3>2, <4>1, SgnFacts
      <4>2. CASE x.s = -1
        BY <3>2, <4>2, SgnFacts
      <4>3. QED
        BY <1>1, <4>1, <4>2
    <3>4. QED
      BY <1>4, <2>1, <2>4, <3>3
  <2>5. QED
    BY <1>7, <2>2, <2>3, <2>4
<1>8. CASE ~IsZero(x) /\ ~IsZero(y)
  <2>1. Cmp(x, y) = IF x.s # y.s THEN x.s
                    ELSE x.s * IF x.e # y.e THEN Sgn(x.e - y.e) ELSE CmpDigits(x.c, y.c)
    BY <1>1, <1>8 DEF Cmp
  <2>2. PICK a : InUnits(x, Unit(x, y), a)
    BY <1>5, <1>8
  <2>3. PICK b : InUnits(y, Unit(x, y), b)
    BY <1>6, <1>8
  <2>4. Left(x, y) = x.s * a /\ Right(x, y) = y.s * b /\ a \in Nat \ {0} /\ b \in Nat \ {0}
    BY <2>2, <2>3 DEF InUnits, Left, Right
  <2>5. CASE x.s # y.s
    <3>1. CASE x.s = 1 /\ y.s = -1
      BY <2>1, <2>4, <3>1, SgnFacts
    <3>2. CASE x.s = -1 /\ y.s = 1
      BY <2>1, <2>4, <3>2, SgnFacts
    <3>3. QED
      BY <1>1, <2>5, <3>1, <3>2
  <2>6. CASE x.s = y.s
    <3>1. Left(x, y) - Right(x, y) = x.s * (a - b) /\ a - b \in Int
      BY <1>1, <2>4, <2>6
    <3>2. Sgn(x.s * (a - b)) = x.s * Sgn(a - b)
      BY <1>1, <3>1, SgnSigned
    <3>3. CASE x.e = y.e
      <4>1. x.c[Len(x.c)] # 0 /\ y.c[Len(y.c)] # 0
        BY <1>8, NormalFacts
      <4>2. CmpDigits(x.c, y.c) = Sgn(a - b)
        BY <1>1, <2>2, <2>3, <3>3, <4>1, CmpOneExponent
      <4>3. QED
        BY <2>1, <2>6, <3>1, <3>2, <3>3, <4>2
    <3>4. CASE x.e # y.e
      <4>1. Unit(x, y) <= x.e /\ Unit(x, y) <= y.e
        <5>1. P(x) <= x.e /\ P(y) <= y.e
          <6>1. Len(x.c) \in Nat \ {0} /\ Len(y.c) \in Nat \ {0}
            BY <1>1 DEF HasDigits
          <6>2. PICK m \in Nat \ {0} : m = Len(x.c)
            BY <6>1
          <6>3. PICK n \in Nat \ {0} : n = Len(y.c)
            BY <6>1
          <6>4. P(x) = x.e - m + 1 /\ P(y) = y.e - n + 1
            BY <6>2, <6>3 DEF P
          <6>5. QED
            BY <1>2, <6>4
        <5>2. QED
          BY <1>2, <5>1
      <4>2. Sgn(x.e - y.e) = Sgn(a - b)
        <5>1. CASE x.e < y.e
          <6>1. a < b
            BY <1>2, <2>2, <2>3, <4>1, <5>1, HigherExponent
          <6>2. x.e - y.e < 0 /\ a - b < 0 /\ x.e - y.e \in Int /\ a - b \in Int
            BY <1>2, <2>4, <5>1, <6>1
          <6>3. QED
            BY <6>2, SgnFacts
        <5>2. CASE y.e < x.e
          <6>1. b < a
            BY <1>2, <2>2, <2>3, <4>1, <5>2, HigherExponent
          <6>2. x.e - y.e > 0 /\ a - b > 0 /\ x.e - y.e \in Int /\ a - b \in Int
            BY <1>2, <2>4, <5>2, <6>1
          <6>3. QED
            BY <6>2, SgnFacts
        <5>3. QED
          BY <1>2, <3>4, <5>1, <5>2
      <4>3. QED
        BY <2>1, <2>6, <3>1, <3>2, <3>4, <4>2
    <3>5. QED
      BY <3>3, <3>4
  <2>7. QED
    BY <2>5, <2>6
<1>9. QED
  BY <1>7, <1>8

LEMMA InfiniteCmp ==
    ASSUME NEW x, NEW y, Normal(x), Normal(y), ~IsNaN(x), ~IsNaN(y), ~(IsFinite(x) /\ IsFinite(y))
    PROVE  Cmp(x, y) = Sgn((IF IsFinite(x) THEN 0 ELSE x.s) - (IF IsFinite(y) THEN 0 ELSE y.s))
<1>1. x.s \in {-1, 1} /\ y.s \in {-1, 1}
  BY NormalFacts DEF IsNaN
<1>2. (IsZero(x) => IsFinite(x)) /\ (IsZero(y) => IsFinite(y))
  BY DEF IsZero
<1>3. CASE IsZero(x) \/ IsZero(y)
  <2>1. Cmp(x, y) = IF ~IsZero(x) THEN x.s ELSE IF IsZero(y) THEN 0 ELSE -y.s
    BY <1>3 DEF Cmp
  <2>2. QED
    BY <1>1, <1>2, <1>3, <2>1, SgnFacts DEF IsFinite, IsZero
<1>4. CASE ~IsZero(x) /\ ~IsZero(y)
  <2>1. Cmp(x, y) = IF x.s # y.s THEN x.s
                    ELSE IF ~IsFinite(x) /\ ~IsFinite(y) THEN 0
                    ELSE IF ~IsFinite(x) THEN x.s ELSE -x.s
    BY <1>4 DEF Cmp, IsFinite
  <2>2. CASE ~IsFinite(x) /\ ~IsFinite(y)
    BY <1>1, <2>1, <2>2, SgnFacts
  <2>3. CASE ~IsFinite(x) /\ IsFinite(y)
    BY <1>1, <2>1, <2>3, SgnFacts
  <2>4. CASE IsFinite(x) /\ ~IsFinite(y)
    BY <1>1, <2>1, <2>4, SgnFacts
  <2>5. QED
    BY <2>2, <2>3, <2>4
<1>5. QED
  BY <1>3, <1>4

----------------------------------------------------------------------------
(* Products.                                                               *)

LEMMA DigitProduct ==
    ASSUME NEW p \in 0..9, NEW d \in 0..9, NEW q \in 0..9, NEW w \in 0..9
    PROVE  /\ (p + d * q + w) \div 10 \in 0..9
           /\ (p + d * q + w) % 10 \in 0..9
           /\ p + d * q + w = 10 * ((p + d * q + w) \div 10) + ((p + d * q + w) % 10)
           /\ d * q \in Nat
<1>1. d * q \in 0..81
  <2>1. CASE d \in {0, 1, 2, 3, 4}
    BY <2>1
  <2>2. CASE d \in {5, 6, 7, 8, 9}
    BY <2>2
  <2>3. QED
    BY <2>1, <2>2
<1>2. \A k \in 0..99 : k \div 10 \in 0..9 /\ (k % 10) \in 0..9 /\ k = 10 * (k \div 10) + (k % 10)
  OBVIOUS
<1>3. PICK m \in 0..81 : m = d * q
  BY <1>1
<1>4. p + m + w \in 0..99
  BY <1>3
<1>5. QED
  BY <1>2, <1>3, <1>4

LEMMA DecimalOf ==
    ASSUME NEW n \in Nat, NEW f, f = [i \in 1..n |-> f[i]], \A i \in 1..n : f[i] \in 0..9
    PROVE  Decimal(f, n)
<1>1. [i \in 1..n |-> f[i]] \in Seq(0..9) /\ Len([i \in 1..n |-> f[i]]) = n
  OBVIOUS
<1>2. QED
  BY <1>1 DEF Decimal

LEMMA Distribute ==
    ASSUME NEW d \in Int, NEW u \in Int, NEW v \in Int
    PROVE  d * (u * 10 + v) = 10 * (d * u) + d * v /\ d * u \in Int /\ d * v \in Int
  OBVIOUS

(* The carries of a row.                                                   *)
RowCarries(c, xc, d, k, a, carry) ==
    /\ carry \in [0..a -> 0..9] /\ carry[a] = 0
    /\ \A j \in 0..(a - 1) : carry[j] = (c[k + j + 1] + d * xc[j + 1] + carry[j + 1]) \div 10

RowOf(c, xc, d, k, a, n, carry) ==
    [i \in 1..n |-> IF i < k \/ i > k + a THEN c[i]
                    ELSE IF i = k THEN (c[i] + carry[0]) % 10
                    ELSE (c[i] + d * xc[i - k] + carry[i - k]) % 10]

LEMMA RowHasCarries ==
    ASSUME NEW n \in Nat, NEW a \in Nat, NEW k \in Nat \ {0}, k + a <= n,
           NEW c, NEW xc, Decimal(c, n), Decimal(xc, a), NEW d \in 0..9
    PROVE  \E carry : RowCarries(c, xc, d, k, a, carry) /\ AddRow(c, xc, d, k) = RowOf(c, xc, d, k, a, n, carry)
<1> DEFINE Def(p) == p = [j \in 0..a |-> IF j = a THEN 0 ELSE (c[k + j + 1] + d * xc[j + 1] + p[j + 1]) \div 10]
           carry == CHOOSE p : Def(p)
<1>0. Len(xc) = a /\ DOMAIN c = 1..n
  BY DEF Decimal
<1>1. AddRow(c, xc, d, k) = RowOf(c, xc, d, k, a, n, carry)
  BY <1>0 DEF AddRow, RowOf
<1>2. \A j \in 0..(a - 1) : c[k + j + 1] \in 0..9 /\ xc[j + 1] \in 0..9
  <2>1. \A j \in 0..(a - 1) : k + j + 1 \in 1..n /\ j + 1 \in 1..a
    OBVIOUS
  <2>2. QED
    BY <2>1, TenDigits
<1>3. \A j \in 0..(a - 1), w \in 0..9 : (c[k + j + 1] + d * xc[j + 1] + w) \div 10 \in 0..9
  BY <1>2, DigitProduct
<1>4. \E p : Def(p)
  <2> DEFINE F == [j \in Nat |-> [v \in 0..9 |-> IF j < a THEN (c[k + j + 1] + d * xc[j + 1] + v) \div 10 ELSE 0]]
  <2>1. \A j \in Nat : j < a => j \in 0..(a - 1)
    OBVIOUS
  <2>2. F \in [Nat -> [0..9 -> 0..9]]
    BY <1>3, <2>1
  <2>3. 0 \in 0..9
    OBVIOUS
  <2>4. \E p : DownComputes(0..9, 0, F, a, p)
    <3> HIDE DEF F
    <3>1. QED
      BY <2>2, <2>3, DownComputationExists, Zenon
  <2>5. PICK p : DownComputes(0..9, 0, F, a, p)
    BY <2>4
  <2>6. p \in [0..a -> 0..9] /\ p[a] = 0 /\ \A j \in 0..(a - 1) : p[j] = F[j][p[j + 1]]
    BY <2>5 DEF DownComputes
  <2>7. ASSUME NEW j \in 0..a
        PROVE  p[j] = IF j = a THEN 0 ELSE (c[k + j + 1] + d * xc[j + 1] + p[j + 1]) \div 10
    <3>1. CASE j = a
      BY <2>6, <3>1
    <3>2. CASE j # a
      <4>1. j \in 0..(a - 1) /\ j \in Nat /\ j < a /\ j + 1 \in 0..a
        BY <3>2
      <4>2. p[j + 1] \in 0..9 /\ p[j] = F[j][p[j + 1]]
        BY <2>6, <4>1
      <4>3. F[j][p[j + 1]] = (c[k + j + 1] + d * xc[j + 1] + p[j + 1]) \div 10
        BY <4>1, <4>2
      <4>4. QED
        BY <3>2, <4>2, <4>3
    <3>3. QED
      BY <3>1, <3>2
  <2>8. Def(p)
    BY <2>6, <2>7
  <2>9. QED
    BY <2>8
<1>5. Def(carry)
  BY <1>4
<1> HIDE DEF carry
<1>6. DOMAIN carry = 0..a /\ carry = [j \in 0..a |-> carry[j]]
  BY <1>5
<1>7. carry[a] = 0 /\ \A j \in 0..(a - 1) : carry[j] = (c[k + j + 1] + d * xc[j + 1] + carry[j + 1]) \div 10
  BY <1>5
<1> DEFINE S == {j \in 0..a : carry[j] \in 0..9}
<1>8. a \in S
  BY <1>7
<1>9. ASSUME NEW j \in 0..(a - 1), j + 1 \in S PROVE j \in S
  <2>1. carry[j + 1] \in 0..9
    BY <1>9
  <2>2. (c[k + j + 1] + d * xc[j + 1] + carry[j + 1]) \div 10 \in 0..9
    BY <1>3, <2>1
  <2>3. QED
    BY <1>7, <2>2
<1> HIDE DEF S
<1>10. \A j \in 0..a : j \in S
  BY <1>8, <1>9, DownInduction
<1>11. carry \in [0..a -> 0..9]
  BY <1>6, <1>10 DEF S
<1>12. QED
  BY <1>1, <1>7, <1>11 DEF RowCarries

(* The row adds d times the number.                                        *)
SameFrom(c, b, m, n) == \A i \in 1..n : Digit(c, m + i) = Digit(b, m + i)

LEMMA SameBehind ==
    ASSUME NEW c, NEW b, NEW m \in Nat, NEW n \in Nat, IntDigits(c), IntDigits(b), SameFrom(c, b, m, n)
    PROVE  Prefix(c, 10, m + n) - Prefix(b, 10, m + n) = (Prefix(c, 10, m) - Prefix(b, 10, m)) * Power(10, n)
<1> DEFINE f == [i \in 1..n |-> Digit(c, m + i)]
<1>1. \A i \in 1..n : Digit(f, i) = Digit(c, m + i)
  BY DEF Digit
<1>2. IntDigits(f)
  <2>1. \A i \in 1..n : m + i \in Nat
    OBVIOUS
  <2>2. \A i \in 1..n : f[i] \in Int
    BY <2>1 DEF IntDigits
  <2>3. DOMAIN f = 1..n
    OBVIOUS
  <2> HIDE DEF f
  <2>4. QED
    BY <2>2, <2>3 DEF IntDigits, Digit
<1> HIDE DEF f
<1>3. 10 \in Int /\ IntDigits(c) /\ IntDigits(b) /\ IntDigits(f)
  BY <1>2
<1>4. Prefix(c, 10, m + n) = Prefix(c, 10, m) * Power(10, n) + Prefix(f, 10, n)
  BY <1>1, <1>3, PrefixSplit
<1>5. \A i \in 1..n : Digit(b, m + i) = Digit(f, i)
  BY <1>1 DEF SameFrom
<1>6. Prefix(b, 10, m + n) = Prefix(b, 10, m) * Power(10, n) + Prefix(f, 10, n)
  BY <1>3, <1>5, PrefixSplit
<1>7. /\ Prefix(c, 10, m) \in Int /\ Prefix(b, 10, m) \in Int /\ Prefix(f, 10, n) \in Int /\ Power(10, n) \in Int
  BY <1>3, PrefixInt, PowerInt, Zenon
<1>8. QED
  <2> DEFINE u == Prefix(c, 10, m)
             v == Prefix(b, 10, m)
             w == Prefix(f, 10, n)
             t == Power(10, n)
  <2>1. u \in Int /\ v \in Int /\ w \in Int /\ t \in Int
    BY <1>7
  <2> HIDE DEF u, v, w, t
  <2>2. (u * t + w) - (v * t + w) = (u - v) * t
    BY <2>1
  <2>3. QED
    BY <1>4, <1>6, <2>2 DEF u, v, w, t

LEMMA RowValue ==
    ASSUME NEW n \in Nat, NEW a \in Nat, NEW k \in Nat \ {0}, k + a <= n,
           NEW c, NEW xc, Decimal(c, n), Decimal(xc, a), NEW d \in 0..9, ZerosUntil(c, k)
    PROVE  /\ Decimal(AddRow(c, xc, d, k), n) /\ ZerosUntil(AddRow(c, xc, d, k), k - 1)
           /\ FromDigits(AddRow(c, xc, d, k), 10) = FromDigits(c, 10) + (d * FromDigits(xc, 10)) * Power(10, n - k - a)
<1> DEFINE r == AddRow(c, xc, d, k)
<1>1. PICK carry : RowCarries(c, xc, d, k, a, carry) /\ r = RowOf(c, xc, d, k, a, n, carry)
  BY RowHasCarries
<1>2. /\ carry \in [0..a -> 0..9] /\ carry[a] = 0
      /\ \A j \in 0..(a - 1) : carry[j] = (c[k + j + 1] + d * xc[j + 1] + carry[j + 1]) \div 10
  BY <1>1 DEF RowCarries
<1>3. r = [i \in 1..n |-> IF i < k \/ i > k + a THEN c[i]
                          ELSE IF i = k THEN (c[i] + carry[0]) % 10
                          ELSE (c[i] + d * xc[i - k] + carry[i - k]) % 10]
  BY <1>1 DEF RowOf
<1> HIDE DEF r
<1>4. (\A i \in 1..n : c[i] \in 0..9 /\ Digit(c, i) = c[i]) /\ \A i \in 1..a : xc[i] \in 0..9 /\ Digit(xc, i) = xc[i]
  BY TenDigits
<1>5. c[k] = 0 /\ r[k] = carry[0] /\ carry[0] \in 0..9
  <2>1. k \in 1..n /\ k \in 1..k /\ 0 \in 0..a /\ ~(k < k) /\ ~(k > k + a)
    OBVIOUS
  <2>2. c[k] = 0 /\ carry[0] \in 0..9
    BY <1>2, <1>4, <2>1 DEF ZerosUntil
  <2>3. r[k] = (c[k] + carry[0]) % 10
    BY <1>3, <2>1
  <2>4. \A w \in 0..9 : (0 + w) % 10 = w
    OBVIOUS
  <2>5. QED
    BY <2>2, <2>3, <2>4
<1>6. ASSUME NEW j \in 0..(a - 1)
      PROVE  /\ c[k + j + 1] \in 0..9 /\ xc[j + 1] \in 0..9 /\ r[k + j + 1] \in 0..9
             /\ carry[j] \in 0..9 /\ carry[j + 1] \in 0..9 /\ d * xc[j + 1] \in Nat
             /\ c[k + j + 1] + d * xc[j + 1] + carry[j + 1] = 10 * carry[j] + r[k + j + 1]
  <2>1. k + j + 1 \in 1..n /\ j + 1 \in 1..a /\ j \in 0..a /\ j + 1 \in 0..a /\ (k + j + 1) - k = j + 1
        /\ ~(k + j + 1 < k) /\ ~(k + j + 1 > k + a) /\ k + j + 1 # k
    OBVIOUS
  <2>2. c[k + j + 1] \in 0..9 /\ xc[j + 1] \in 0..9 /\ carry[j] \in 0..9 /\ carry[j + 1] \in 0..9
    BY <1>2, <1>4, <2>1
  <2>3. r[k + j + 1] = (c[k + j + 1] + d * xc[j + 1] + carry[j + 1]) % 10
    BY <1>3, <2>1
  <2>4. carry[j] = (c[k + j + 1] + d * xc[j + 1] + carry[j + 1]) \div 10
    BY <1>2
  <2>5. /\ (c[k + j + 1] + d * xc[j + 1] + carry[j + 1]) % 10 \in 0..9
        /\ c[k + j + 1] + d * xc[j + 1] + carry[j + 1]
               = 10 * ((c[k + j + 1] + d * xc[j + 1] + carry[j + 1]) \div 10)
                 + ((c[k + j + 1] + d * xc[j + 1] + carry[j + 1]) % 10)
        /\ d * xc[j + 1] \in Nat
    <3> DEFINE p == c[k + j + 1]
               q == xc[j + 1]
               w == carry[j + 1]
    <3>1. p \in 0..9 /\ q \in 0..9 /\ w \in 0..9
      BY <2>2
    <3> HIDE DEF p, q, w
    <3>2. /\ (p + d * q + w) % 10 \in 0..9
          /\ p + d * q + w = 10 * ((p + d * q + w) \div 10) + ((p + d * q + w) % 10)
          /\ d * q \in Nat
      BY <3>1, DigitProduct
    <3>3. QED
      BY <3>2 DEF p, q, w
  <2>6. QED
    BY <2>2, <2>3, <2>4, <2>5
<1>7. \A i \in 1..n : r[i] \in 0..9
  <2>1. SUFFICES ASSUME NEW i \in 1..n PROVE r[i] \in 0..9
    OBVIOUS
  <2>2. CASE i < k \/ i > k + a
    BY <1>3, <1>4, <2>2
  <2>3. CASE i = k
    BY <1>5, <2>3
  <2>4. CASE i > k /\ i <= k + a
    <3>1. i - k - 1 \in 0..(a - 1) /\ k + (i - k - 1) + 1 = i
      BY <2>4
    <3>2. r[k + (i - k - 1) + 1] \in 0..9
      BY <1>6, <3>1
    <3>3. QED
      BY <3>1, <3>2
  <2>5. QED
    BY <2>2, <2>3, <2>4
<1>8. Decimal(r, n)
  <2>1. r = [i \in 1..n |-> r[i]]
    BY <1>3
  <2>2. QED
    BY <1>7, <2>1, DecimalOf
<1>9. \A i \in 1..n : Digit(r, i) = r[i]
  BY <1>8, TenDigits
<1>10. IntDigits(r) /\ IntDigits(c) /\ IntDigits(xc) /\ 10 \in Int
  BY <1>8, TenDigits
<1>11. ZerosUntil(r, k - 1)
  <2>1. ASSUME NEW i \in 1..(k - 1) PROVE Digit(r, i) = 0
    <3>1. i \in 1..n /\ i \in 1..k /\ i < k
      OBVIOUS
    <3>2. r[i] = c[i] /\ c[i] = 0
      BY <1>3, <1>4, <3>1 DEF ZerosUntil
    <3>3. QED
      BY <1>9, <3>1, <3>2
  <2>2. QED
    BY <2>1 DEF ZerosUntil
<1> DEFINE S == {j \in 0..a : Prefix(r, 10, k + j) = Prefix(c, 10, k + j) + d * Prefix(xc, 10, j) + carry[j]}
<1>12. 0 \in S
  <2>1. PICK m \in Nat : m = k - 1 /\ m + 1 = k
    <3>1. k - 1 \in Nat /\ (k - 1) + 1 = k
      OBVIOUS
    <3>2. QED
      BY <3>1
  <2>2. ZerosUntil(r, m) /\ ZerosUntil(c, k)
    BY <1>11, <2>1
  <2>3. Prefix(r, 10, m) = 0 /\ Prefix(c, 10, k) = 0
    <3>1. k \in Nat
      OBVIOUS
    <3>2. QED
      BY <1>10, <2>2, <3>1, PrefixOfZeros, Zenon DEF ZerosUntil
  <2>4. Prefix(r, 10, m + 1) = Prefix(r, 10, m) * 10 + Digit(r, m + 1)
    BY <1>10, <2>1, PrefixNext, Zenon
  <2>5. Digit(r, m + 1) = carry[0]
    <3>1. k \in 1..n
      OBVIOUS
    <3>2. QED
      BY <1>5, <1>9, <2>1, <3>1
  <2>6. Prefix(r, 10, k) = carry[0]
    BY <1>5, <2>1, <2>3, <2>4, <2>5
  <2>7. Prefix(xc, 10, 0) = 0
    BY <1>10, PrefixZero, Zenon
  <2>8. k + 0 = k /\ 0 \in 0..a /\ d * 0 = 0
    OBVIOUS
  <2>9. QED
    BY <1>5, <2>3, <2>6, <2>7, <2>8
<1>13. ASSUME NEW j \in 0..(a - 1), j \in S PROVE j + 1 \in S
  <2>1. k + j \in Nat /\ j \in Nat /\ k + j + 1 = (k + j) + 1 /\ k + (j + 1) = (k + j) + 1
        /\ (k + j) + 1 \in 1..n /\ j + 1 \in 1..a /\ j + 1 \in 0..a
    OBVIOUS
  <2>2. /\ Prefix(r, 10, (k + j) + 1) = Prefix(r, 10, k + j) * 10 + Digit(r, (k + j) + 1)
        /\ Prefix(c, 10, (k + j) + 1) = Prefix(c, 10, k + j) * 10 + Digit(c, (k + j) + 1)
        /\ Prefix(xc, 10, j + 1) = Prefix(xc, 10, j) * 10 + Digit(xc, j + 1)
    BY <1>10, <2>1, PrefixNext, Zenon
  <2>3. Prefix(c, 10, k + j) \in Int /\ Prefix(xc, 10, j) \in Int
    BY <1>10, <2>1, PrefixInt, Zenon
  <2>4. Digit(r, (k + j) + 1) = r[k + j + 1] /\ Digit(c, (k + j) + 1) = c[k + j + 1] /\ Digit(xc, j + 1) = xc[j + 1]
    BY <1>4, <1>9, <2>1
  <2>5. Prefix(r, 10, k + j) = Prefix(c, 10, k + j) + d * Prefix(xc, 10, j) + carry[j]
    BY <1>13
  <2>6. d * (Prefix(xc, 10, j) * 10 + xc[j + 1]) = 10 * (d * Prefix(xc, 10, j)) + d * xc[j + 1]
        /\ d * Prefix(xc, 10, j) \in Int /\ d * xc[j + 1] \in Int
    <3> DEFINE u == Prefix(xc, 10, j)
               v == xc[j + 1]
    <3>1. d \in Int /\ v \in Int /\ u \in Int
      BY <1>6, <2>3
    <3> HIDE DEF u, v
    <3>2. d * (u * 10 + v) = 10 * (d * u) + d * v /\ d * u \in Int /\ d * v \in Int
      BY <3>1, Distribute
    <3>3. QED
      BY <3>2 DEF u, v
  <2>7. Prefix(r, 10, (k + j) + 1) = Prefix(c, 10, (k + j) + 1) + d * Prefix(xc, 10, j + 1) + carry[j + 1]
    <3> DEFINE pc == Prefix(c, 10, k + j)
               dx == d * Prefix(xc, 10, j)
               dd == d * xc[j + 1]
    <3>1. pc \in Int /\ dx \in Int /\ dd \in Int
      BY <2>3, <2>6
    <3>2. d * Prefix(xc, 10, j + 1) = 10 * dx + dd
      BY <2>2, <2>4, <2>6
    <3>3. Prefix(c, 10, (k + j) + 1) = pc * 10 + c[k + j + 1]
      BY <2>2, <2>4
    <3>4. Prefix(r, 10, (k + j) + 1) = (pc + dx + carry[j]) * 10 + r[k + j + 1]
      BY <2>2, <2>4, <2>5
    <3>5. c[k + j + 1] + dd + carry[j + 1] = 10 * carry[j] + r[k + j + 1]
      BY <1>6
    <3>6. c[k + j + 1] \in 0..9 /\ carry[j] \in 0..9 /\ carry[j + 1] \in 0..9 /\ r[k + j + 1] \in 0..9
      BY <1>6
    <3>7. c[k + j + 1] \in Int /\ carry[j] \in Int /\ carry[j + 1] \in Int /\ r[k + j + 1] \in Int
      BY <3>6
    <3> HIDE DEF pc, dx, dd
    <3>8. QED
      BY <3>1, <3>2, <3>3, <3>4, <3>5, <3>7
  <2>8. QED
    BY <2>1, <2>7
<1> HIDE DEF S
<1>14. \A j \in 0..a : j \in S
  BY <1>12, <1>13, IntervalInduction
<1>15. Prefix(r, 10, k + a) = Prefix(c, 10, k + a) + d * Prefix(xc, 10, a)
  <2>1. a \in S
    BY <1>14
  <2>2. Prefix(c, 10, k + a) \in Int /\ Prefix(xc, 10, a) \in Int
    <3>1. k + a \in Nat
      OBVIOUS
    <3>2. QED
      BY <1>10, <3>1, PrefixInt, Zenon
  <2>3. d * Prefix(xc, 10, a) \in Int
    BY <2>2
  <2>4. QED
    BY <1>2, <2>1, <2>2, <2>3 DEF S
<1>16. PICK m \in Nat, t \in Nat : m = k + a /\ t = n - k - a /\ m + t = n
  <2>1. k + a \in Nat /\ n - k - a \in Nat /\ (k + a) + (n - k - a) = n
    OBVIOUS
  <2>2. QED
    BY <2>1
<1>17. SameFrom(r, c, m, t)
  <2>1. ASSUME NEW i \in 1..t PROVE Digit(r, m + i) = Digit(c, m + i)
    <3>1. m + i \in 1..n /\ m + i > k + a
      BY <1>16
    <3>2. r[m + i] = c[m + i]
      BY <1>3, <3>1
    <3>3. QED
      BY <1>4, <1>9, <3>1, <3>2
  <2>2. QED
    BY <2>1 DEF SameFrom
<1>18. Prefix(r, 10, m + t) - Prefix(c, 10, m + t) = (Prefix(r, 10, m) - Prefix(c, 10, m)) * Power(10, t)
  BY <1>10, <1>17, SameBehind
<1>19. /\ Prefix(r, 10, m) \in Int /\ Prefix(c, 10, m) \in Int /\ Prefix(xc, 10, a) \in Int
       /\ Prefix(r, 10, n) \in Int /\ Prefix(c, 10, n) \in Int /\ Power(10, t) \in Int
  BY <1>10, PrefixInt, PowerInt, Zenon
<1>20. Prefix(r, 10, n) = Prefix(c, 10, n) + (d * Prefix(xc, 10, a)) * Power(10, t)
  <2>1. Prefix(r, 10, m) - Prefix(c, 10, m) = d * Prefix(xc, 10, a)
    <3>1. d * Prefix(xc, 10, a) \in Int
      BY <1>19
    <3>2. QED
      BY <1>15, <1>16, <1>19, <3>1
  <2>2. Prefix(r, 10, n) - Prefix(c, 10, n) = (d * Prefix(xc, 10, a)) * Power(10, t)
    BY <1>16, <1>18, <2>1
  <2>3. QED
    <3> DEFINE q == (d * Prefix(xc, 10, a)) * Power(10, t)
    <3>1. q \in Int
      BY <1>19
    <3>2. Prefix(r, 10, n) - Prefix(c, 10, n) = q
      BY <2>2
    <3> HIDE DEF q
    <3>3. Prefix(r, 10, n) = Prefix(c, 10, n) + q
      BY <1>19, <3>1, <3>2
    <3>4. QED
      BY <3>3 DEF q
<1>21. FromDigits(r, 10) = Prefix(r, 10, n) /\ FromDigits(c, 10) = Prefix(c, 10, n) /\ FromDigits(xc, 10) = Prefix(xc, 10, a)
  BY <1>8 DEF FromDigits, Decimal
<1>22. QED
  BY <1>8, <1>11, <1>16, <1>20, <1>21 DEF r

(* The rows of a product from the last digit of y to its first.            *)
RowsFrom(xc, yc, b, n, f) ==
    /\ f[b + 1] = Zeros(n)
    /\ \A k \in 1..b : f[k] = AddRow(f[k + 1], xc, yc[k], k)

RowsSoFar(xc, yc, b, n, i, c) ==
    /\ Decimal(c, n) /\ ZerosUntil(c, i)
    /\ FromDigits(c, 10) = FromDigits(xc, 10) * (FromDigits(yc, 10) - Prefix(yc, 10, i) * Power(10, b - i))

LEMMA ZerosDecimal ==
    ASSUME NEW n \in Nat
    PROVE  Decimal(Zeros(n), n) /\ FromDigits(Zeros(n), 10) = 0 /\ \A i \in 1..n : Digit(Zeros(n), i) = 0
<1>1. Zeros(n) = [i \in 1..n |-> Zeros(n)[i]] /\ \A i \in 1..n : Zeros(n)[i] = 0
  BY DEF Zeros
<1>2. Decimal(Zeros(n), n)
  BY <1>1, DecimalOf
<1>3. \A i \in 1..n : Digit(Zeros(n), i) = 0
  BY <1>1, <1>2, TenDigits
<1>4. IntDigits(Zeros(n)) /\ 10 \in Int
  BY <1>2, TenDigits
<1>5. Prefix(Zeros(n), 10, n) = 0
  BY <1>3, <1>4, PrefixOfZeros
<1>6. QED
  BY <1>2, <1>3, <1>5 DEF FromDigits, Decimal

LEMMA ProductHasRows ==
    ASSUME NEW a \in Nat, NEW b \in Nat, NEW xc, NEW yc, Decimal(xc, a), Decimal(yc, b)
    PROVE  \E f : RowsFrom(xc, yc, b, a + b, f) /\ Product(xc, yc) = f[1]
<1> DEFINE n == a + b
           Def(p) == p = [k \in 1..(b + 1) |-> IF k > b THEN Zeros(n) ELSE AddRow(p[k + 1], xc, yc[k], k)]
           rows == CHOOSE p : Def(p)
<1>1. Len(xc) = a /\ Len(yc) = b /\ n \in Nat
  BY DEF Decimal
<1>2. Product(xc, yc) = rows[1]
  BY <1>1 DEF Product
<1> HIDE DEF n
<1>3. \E p : Def(p)
  <2> DEFINE V == {c \in Seq(0..9) : Decimal(c, n)}
             F == [i \in Nat |-> [c \in V |-> IF i < b /\ ZerosUntil(c, i + 1) THEN AddRow(c, xc, yc[i + 1], i + 1) ELSE c]]
  <2>1. ASSUME NEW i \in Nat, NEW c \in V, i < b, ZerosUntil(c, i + 1)
        PROVE  AddRow(c, xc, yc[i + 1], i + 1) \in V /\ ZerosUntil(AddRow(c, xc, yc[i + 1], i + 1), i)
    <3>1. i + 1 \in Nat \ {0} /\ (i + 1) + a <= n /\ (i + 1) - 1 = i /\ i + 1 \in 1..b
      BY <2>1 DEF n
    <3>2. yc[i + 1] \in 0..9 /\ Decimal(c, n)
      BY <3>1, TenDigits
    <3>3. Decimal(AddRow(c, xc, yc[i + 1], i + 1), n) /\ ZerosUntil(AddRow(c, xc, yc[i + 1], i + 1), (i + 1) - 1)
      BY <1>1, <2>1, <3>1, <3>2, RowValue
    <3>4. QED
      BY <3>1, <3>3 DEF Decimal
  <2>2. F \in [Nat -> [V -> V]]
    <3> HIDE DEF V
    <3>1. QED
      BY <2>1
  <2>3. Zeros(n) \in V
    BY <1>1, ZerosDecimal DEF Decimal
  <2>4. \E g : DownComputes(V, Zeros(n), F, b, g)
    <3> HIDE DEF F, V
    <3>1. QED
      BY <2>2, <2>3, DownComputationExists, Zenon
  <2>5. PICK g : DownComputes(V, Zeros(n), F, b, g)
    BY <2>4
  <2>6. g \in [0..b -> V] /\ g[b] = Zeros(n) /\ \A i \in 0..(b - 1) : g[i] = F[i][g[i + 1]]
    BY <2>5 DEF DownComputes
  <2> HIDE DEF V
  <2> DEFINE S == {i \in 0..b : ZerosUntil(g[i], i)}
  <2>7. b \in S
    <3>1. \A i \in 1..b : i \in 1..n
      BY DEF n
    <3>2. ZerosUntil(Zeros(n), b)
      BY <1>1, <3>1, ZerosDecimal DEF ZerosUntil
    <3>3. QED
      BY <2>6, <3>2
  <2>8. ASSUME NEW i \in 0..(b - 1), ZerosUntil(g[i + 1], i + 1)
        PROVE  g[i] = AddRow(g[i + 1], xc, yc[i + 1], i + 1) /\ ZerosUntil(g[i], i)
    <3>1. i \in Nat /\ i < b /\ i + 1 \in 0..b
      OBVIOUS
    <3>2. g[i + 1] \in V /\ g[i] = F[i][g[i + 1]]
      BY <2>6, <3>1
    <3>3. F[i][g[i + 1]] = AddRow(g[i + 1], xc, yc[i + 1], i + 1)
      BY <2>8, <3>1, <3>2
    <3>4. QED
      BY <2>1, <2>8, <3>1, <3>2, <3>3
  <2>9. ASSUME NEW i \in 0..(b - 1), i + 1 \in S PROVE i \in S
    BY <2>8, <2>9
  <2> HIDE DEF S
  <2>10. \A i \in 0..b : i \in S
    BY <2>7, <2>9, DownInduction
  <2> DEFINE p == [k \in 1..(b + 1) |-> g[k - 1]]
  <2>11. ASSUME NEW k \in 1..(b + 1)
         PROVE  p[k] = IF k > b THEN Zeros(n) ELSE AddRow(p[k + 1], xc, yc[k], k)
    <3>1. CASE k > b
      BY <2>6, <3>1
    <3>2. CASE ~(k > b)
      <4>1. k - 1 \in 0..(b - 1) /\ (k - 1) + 1 = k /\ k + 1 \in 1..(b + 1) /\ (k + 1) - 1 = k /\ k \in 0..b
        BY <3>2
      <4>2. ZerosUntil(g[k], k)
        BY <2>10, <4>1 DEF S
      <4>3. g[k - 1] = AddRow(g[(k - 1) + 1], xc, yc[(k - 1) + 1], (k - 1) + 1)
        BY <2>8, <4>1, <4>2
      <4>4. p[k] = g[k - 1] /\ p[k + 1] = g[k]
        BY <4>1
      <4>5. QED
        BY <3>2, <4>1, <4>3, <4>4
    <3>3. QED
      BY <3>1, <3>2
  <2>12. Def(p)
    BY <2>11
  <2>13. QED
    BY <2>12
<1>4. Def(rows)
  BY <1>3
<1> HIDE DEF rows
<1>5. rows[b + 1] = Zeros(n)
  <2>1. b + 1 \in 1..(b + 1) /\ b + 1 > b
    OBVIOUS
  <2>2. QED
    BY <1>4, <2>1
<1>6. \A k \in 1..b : rows[k] = AddRow(rows[k + 1], xc, yc[k], k)
  <2>1. \A k \in 1..b : k \in 1..(b + 1) /\ ~(k > b)
    OBVIOUS
  <2>2. QED
    BY <1>4, <2>1
<1>7. RowsFrom(xc, yc, b, n, rows)
  BY <1>5, <1>6 DEF RowsFrom
<1>8. QED
  BY <1>2, <1>7 DEF n

(* One more row.                                                           *)
LEMMA NextRow ==
    ASSUME NEW a \in Nat, NEW b \in Nat, NEW xc, NEW yc, Decimal(xc, a), Decimal(yc, b),
           NEW i \in 0..(b - 1), NEW c, RowsSoFar(xc, yc, b, a + b, i + 1, c)
    PROVE  RowsSoFar(xc, yc, b, a + b, i, AddRow(c, xc, yc[i + 1], i + 1))
<1> DEFINE n == a + b
           d == yc[i + 1]
           r == AddRow(c, xc, d, i + 1)
           X == FromDigits(xc, 10)
           Y == FromDigits(yc, 10)
<1>1. PICK j \in Nat : j = b - (i + 1) /\ b - i = j + 1 /\ n - (i + 1) - a = j
  <2>1. b - (i + 1) \in Nat /\ b - i = (b - (i + 1)) + 1 /\ n - (i + 1) - a = b - (i + 1)
    OBVIOUS
  <2>2. QED
    BY <2>1
<1>2. i + 1 \in Nat \ {0} /\ (i + 1) + a <= n /\ (i + 1) - 1 = i /\ i \in Nat /\ i + 1 \in 1..b /\ n \in Nat
  OBVIOUS
<1>3. Decimal(c, n) /\ ZerosUntil(c, i + 1)
      /\ FromDigits(c, 10) = X * (Y - Prefix(yc, 10, i + 1) * Power(10, j))
  BY <1>1 DEF RowsSoFar
<1>4. d \in 0..9 /\ Digit(yc, i + 1) = d /\ IntDigits(yc) /\ IntDigits(xc)
  BY <1>2, TenDigits
<1> HIDE DEF n, d
<1>5. Decimal(r, n) /\ ZerosUntil(r, (i + 1) - 1) /\ FromDigits(r, 10) = FromDigits(c, 10) + (d * X) * Power(10, n - (i + 1) - a)
  BY <1>2, <1>3, <1>4, RowValue
<1>6. Prefix(yc, 10, i + 1) = Prefix(yc, 10, i) * 10 + d
  BY <1>2, <1>4, TenInt, PrefixNext
<1>7. Power(10, j + 1) = Power(10, j) * 10
  BY TenInt, PowerNext
<1>8. Prefix(yc, 10, i) \in Int /\ Power(10, j) \in Int
  BY <1>2, <1>4, TenInt, PrefixInt, PowerInt, Zenon
<1>9. X \in Int /\ Y \in Int
  <2>1. X = Prefix(xc, 10, a) /\ Y = Prefix(yc, 10, b)
    BY DEF FromDigits, Decimal
  <2>2. Prefix(xc, 10, a) \in Int /\ Prefix(yc, 10, b) \in Int
    BY <1>4, TenInt, PrefixInt, Zenon
  <2>3. QED
    BY <2>1, <2>2
<1>10. FromDigits(r, 10) = X * (Y - Prefix(yc, 10, i) * Power(10, j + 1))
  <2> DEFINE u == Prefix(yc, 10, i)
             t == Power(10, j)
  <2> HIDE DEF X, Y, u, t, r
  <2>1. u \in Int /\ t \in Int /\ X \in Int /\ Y \in Int /\ d \in Int
    BY <1>4, <1>8, <1>9 DEF u, t
  <2>2. X * (Y - (u * 10 + d) * t) + (d * X) * t = X * (Y - u * (t * 10))
    <3>1. (u * 10 + d) * t = u * (t * 10) + d * t
      BY <2>1
    <3>2. PICK w \in Int : w = u * (t * 10)
      BY <2>1
    <3>3. PICK v \in Int : v = d * t
      BY <2>1
    <3>4. (d * X) * t = X * v
      BY <2>1, <3>3
    <3>5. X * (Y - (w + v)) + X * v = X * (Y - w)
      BY <2>1
    <3>6. QED
      BY <3>1, <3>2, <3>3, <3>4, <3>5
  <2>3. FromDigits(r, 10) = X * (Y - (u * 10 + d) * t) + (d * X) * t
    BY <1>1, <1>3, <1>5, <1>6 DEF u, t
  <2>4. QED
    BY <1>7, <2>2, <2>3 DEF u, t
<1>11. QED
  BY <1>1, <1>2, <1>5, <1>10 DEF RowsSoFar, n, d

LEMMA ProductValue ==
    ASSUME NEW a \in Nat, NEW b \in Nat, NEW xc, NEW yc, Decimal(xc, a), Decimal(yc, b)
    PROVE  /\ Decimal(Product(xc, yc), a + b)
           /\ FromDigits(Product(xc, yc), 10) = FromDigits(xc, 10) * FromDigits(yc, 10)
<1> DEFINE n == a + b
<1>1. PICK f : RowsFrom(xc, yc, b, n, f) /\ Product(xc, yc) = f[1]
  BY ProductHasRows
<1>2. f[b + 1] = Zeros(n) /\ \A k \in 1..b : f[k] = AddRow(f[k + 1], xc, yc[k], k)
  BY <1>1 DEF RowsFrom
<1>3. n \in Nat /\ IntDigits(xc) /\ IntDigits(yc)
  BY TenDigits
<1>4. FromDigits(xc, 10) \in Int /\ FromDigits(yc, 10) \in Int /\ FromDigits(yc, 10) = Prefix(yc, 10, b)
  <2>1. FromDigits(xc, 10) = Prefix(xc, 10, a) /\ FromDigits(yc, 10) = Prefix(yc, 10, b)
    BY DEF FromDigits, Decimal
  <2>2. Prefix(xc, 10, a) \in Int /\ Prefix(yc, 10, b) \in Int
    BY <1>3, TenInt, PrefixInt, Zenon
  <2>3. QED
    BY <2>1, <2>2
<1> DEFINE S == {i \in 0..b : RowsSoFar(xc, yc, b, n, i, f[i + 1])}
<1>5. b \in S
  <2>1. Decimal(Zeros(n), n) /\ FromDigits(Zeros(n), 10) = 0 /\ \A i \in 1..n : Digit(Zeros(n), i) = 0
    BY <1>3, ZerosDecimal
  <2>2. ZerosUntil(Zeros(n), b)
    <3>1. \A i \in 1..b : i \in 1..n
      OBVIOUS
    <3>2. QED
      BY <2>1, <3>1 DEF ZerosUntil
  <2>3. Power(10, b - b) = 1
    <3>1. b - b = 0
      OBVIOUS
    <3>2. QED
      BY <3>1, TenInt, PowerZero, Zenon
  <2>4. FromDigits(xc, 10) * (FromDigits(yc, 10) - Prefix(yc, 10, b) * Power(10, b - b)) = 0
    BY <1>4, <2>3
  <2>5. RowsSoFar(xc, yc, b, n, b, f[b + 1])
    <3> HIDE DEF n
    <3>1. QED
      BY <1>2, <2>1, <2>2, <2>4 DEF RowsSoFar
  <2>6. QED
    BY <2>5
<1>6. ASSUME NEW i \in 0..(b - 1), i + 1 \in S PROVE i \in S
  <2>1. i + 1 \in 1..b /\ i \in 0..b
    OBVIOUS
  <2>2. f[i + 1] = AddRow(f[(i + 1) + 1], xc, yc[i + 1], i + 1)
    BY <1>2, <2>1
  <2>3. RowsSoFar(xc, yc, b, n, i + 1, f[(i + 1) + 1])
    BY <1>6
  <2>4. RowsSoFar(xc, yc, b, n, i, AddRow(f[(i + 1) + 1], xc, yc[i + 1], i + 1))
    BY <2>3, NextRow
  <2>5. QED
    BY <2>1, <2>2, <2>4
<1> HIDE DEF S
<1>7. \A i \in 0..b : i \in S
  BY <1>5, <1>6, DownInduction
<1>8. RowsSoFar(xc, yc, b, n, 0, f[0 + 1])
  BY <1>7 DEF S
<1>9. Prefix(yc, 10, 0) = 0 /\ Power(10, b - 0) \in Int
  <2>1. b - 0 \in Nat
    OBVIOUS
  <2>2. QED
    BY <1>3, <2>1, TenInt, PrefixZero, PowerInt, Zenon
<1>10. FromDigits(yc, 10) - Prefix(yc, 10, 0) * Power(10, b - 0) = FromDigits(yc, 10)
  BY <1>4, <1>9
<1>11. QED
  BY <1>1, <1>8, <1>10 DEF RowsSoFar

(* Digits that begin with one that is not 0, as a number in range or as    *)
(* what becomes of it.                                                     *)
LEMMA RangeGives ==
    ASSUME NEW n \in Nat \ {0}, NEW c, Decimal(c, n), c[1] # 0, NEW g, NEW s \in {-1, 1}, NEW e \in Int,
           NEW m \in Int, NEW p \in Int, m = s * FromDigits(c, 10), p = e - n + 1
    PROVE  /\ Normal(InRange(g, BigNum(s, e, DropTrailingZeros(c))))
           /\ IsResult(g, InRange(g, BigNum(s, e, DropTrailingZeros(c))), m, p)
<1> DEFINE r == BigNum(s, e, DropTrailingZeros(c))
<1>1. Leads(c)
  BY DEF Leads, Decimal
<1>2. Normal(r)
  BY <1>1, NormalOfDigits
<1>3. SameValue(M(r), P(r), m, p)
  <2>1. n \in Nat /\ 1 \in 1..n
    OBVIOUS
  <2>2. QED
    BY <2>1, TrimmedValue
<1>4. r.e = e /\ r.s = s
  BY DEF BigNum
<1>5. IsFinite(r)
  <2>1. n \in Nat /\ 1 \in 1..n
    OBVIOUS
  <2>2. PICK k \in 1..n : Decimal(DropTrailingZeros(c), k)
    BY <2>1, TrimValue
  <2>3. QED
    BY <2>2 DEF IsFinite, BigNum, Decimal
<1>6. ExponentOf(m, p) = e /\ m # 0
  <2>1. ExponentOf(m, p) = n - 1 + p /\ m # 0
    BY SignedLength
  <2>2. n - 1 + p = e
    OBVIOUS
  <2>3. QED
    BY <2>1, <2>2
<1>7. s = IF m < 0 THEN -1 ELSE 1
  <2>1. FromDigits(c, 10) \in Nat
    BY LeadsValue
  <2>2. QED
    BY <1>6, <2>1
<1>8. Normal(InRange(g, r))
  <2>1. r.s # 0
    BY <1>4
  <2>2. QED
    BY <1>2, <2>1, ResultInRange
<1> HIDE DEF r
<1>9. IsResult(g, InRange(g, r), m, p)
  <2>1. CASE e > g.maxE
    <3>1. InRange(g, r) = Infinity(IF m < 0 THEN -1 ELSE 1)
      BY <1>4, <1>7, <2>1 DEF InRange
    <3>2. QED
      BY <1>6, <2>1, <3>1 DEF IsResult
  <2>2. CASE ~(e > g.maxE) /\ e < g.minE
    <3>1. InRange(g, r) = Zero(s)
      BY <1>4, <2>2 DEF InRange
    <3>2. IsZero(Zero(s))
      BY DEF IsZero, IsFinite, Zero, BigNum
    <3>3. QED
      BY <1>6, <2>2, <3>1, <3>2 DEF IsResult
  <2>3. CASE ~(e > g.maxE) /\ ~(e < g.minE)
    <3>1. InRange(g, r) = r
      BY <1>4, <2>3 DEF InRange
    <3>2. QED
      BY <1>3, <1>5, <3>1 DEF IsResult
  <2>4. QED
    BY <2>1, <2>2, <2>3
<1>10. QED
  BY <1>8, <1>9 DEF r

LEMMA FirstStays ==
    ASSUME NEW n \in Nat \ {0}, NEW c, Decimal(c, n), c[1] # 0
    PROVE  DropTrailingZeros(c)[1] # 0
<1>1. c \in Seq(0..9) /\ 1 \in 1..Len(c)
  BY DEF Decimal
<1>2. /\ Len(DropTrailingZeros(c)) \in 1..Len(c)
      /\ \A j \in 1..Len(DropTrailingZeros(c)) : DropTrailingZeros(c)[j] = c[j]
  BY <1>1, DropTrailing
<1>3. 1 \in 1..Len(DropTrailingZeros(c))
  BY <1>1, <1>2
<1>4. QED
  BY <1>2, <1>3

LEMMA ProductGives ==
    ASSUME NEW a \in Nat \ {0}, NEW b \in Nat \ {0}, NEW xc, NEW yc, Decimal(xc, a), Decimal(yc, b),
           xc[1] # 0, yc[1] # 0, NEW g, NEW s \in {-1, 1}, NEW e \in Int, NEW p \in Int, p = e - (a + b) + 2,
           NEW m \in Int, m = s * (FromDigits(xc, 10) * FromDigits(yc, 10))
    PROVE  /\ Normal(InRange(g, ProductOf(s, e, Product(xc, yc))))
           /\ IsResult(g, InRange(g, ProductOf(s, e, Product(xc, yc))), m, p)
           /\ ProductOf(s, e, Product(xc, yc)).c[1] # 0
<1> DEFINE c == Product(xc, yc)
           X == FromDigits(xc, 10)
           Y == FromDigits(yc, 10)
<1>1. PICK n \in Nat : n = a + b /\ n - 1 \in Nat \ {0}
  <2>1. a + b \in Nat /\ (a + b) - 1 \in Nat \ {0}
    OBVIOUS
  <2>2. QED
    BY <2>1
<1>2. Decimal(c, n) /\ FromDigits(c, 10) = X * Y
  <2>1. a \in Nat /\ b \in Nat
    OBVIOUS
  <2>2. QED
    BY <1>1, <2>1, ProductValue
<1>3. FromDigits(c, 10) >= Power(10, n - 2) /\ n - 2 \in Nat
  <2>1. X >= Power(10, a - 1) /\ Y >= Power(10, b - 1) /\ X \in Nat /\ Y \in Nat
    BY LeadsValue
  <2>2. a - 1 \in Nat /\ b - 1 \in Nat /\ (a - 1) + (b - 1) = n - 2 /\ n - 2 \in Nat
    BY <1>1
  <2>3. Power(10, (a - 1) + (b - 1)) = Power(10, a - 1) * Power(10, b - 1)
    BY <2>2, TenInt, PowerPlus
  <2>4. Power(10, a - 1) \in Nat /\ Power(10, b - 1) \in Nat
    BY <2>2, TenInt, PowerPositive
  <2>5. X * Y >= Power(10, a - 1) * Power(10, b - 1)
    <3> DEFINE u == Power(10, a - 1)
               v == Power(10, b - 1)
    <3> HIDE DEF X, Y, u, v
    <3>1. X \in Nat /\ Y \in Nat /\ u \in Nat /\ v \in Nat /\ X >= u /\ Y >= v
      BY <2>1, <2>4 DEF u, v
    <3>2. X * Y >= u * Y /\ u * Y >= u * v
      BY <3>1
    <3>3. X * Y \in Int /\ u * Y \in Int /\ u * v \in Int
      BY <3>1
    <3>4. X * Y >= u * v
      BY <3>2, <3>3
    <3>5. QED
      BY <3>4 DEF u, v
  <2>6. QED
    BY <1>2, <2>2, <2>3, <2>5
<1>4. Power(10, n - 2) \in Nat \ {0}
  BY <1>3, TenInt, PowerPositive
<1> HIDE DEF c
<1>5. LeadingZeros(c) # n
  <2>1. FromDigits(c, 10) # 0
    <3>1. \A v \in Int : v >= Power(10, n - 2) => v # 0
      BY <1>4
    <3>2. FromDigits(c, 10) = 0 => 0 >= Power(10, n - 2)
      BY <1>3
    <3>3. QED
      BY <3>1, <3>2
  <2>2. QED
    BY <1>2, <2>1, AllZeros
<1>6. PICK z \in 0..(n - 1) :
          /\ LeadingZeros(c) = z
          /\ Decimal(SubSeq(c, z + 1, n), n - z) /\ SubSeq(c, z + 1, n)[1] # 0
          /\ FromDigits(SubSeq(c, z + 1, n), 10) = FromDigits(c, 10)
  BY <1>2, <1>5, DropLeading
<1>7. z \in {0, 1}
  <2>1. n - z \in Nat \ {0}
    OBVIOUS
  <2>2. FromDigits(SubSeq(c, z + 1, n), 10) < Power(10, n - z) /\ FromDigits(SubSeq(c, z + 1, n), 10) \in Nat
    BY <1>6, <2>1, LeadsValue
  <2>3. SUFFICES ASSUME z >= 2 PROVE FALSE
    OBVIOUS
  <2>4. n - z \in Nat /\ n - 2 \in Nat /\ n - z <= n - 2
    BY <1>3, <2>3
  <2>5. Power(10, n - z) <= Power(10, n - 2) /\ Power(10, n - z) \in Int /\ Power(10, n - 2) \in Int
    BY <2>4, TenInt, PowerMonotone, PowerInt
  <2>6. QED
    BY <1>3, <1>6, <2>2, <2>5
<1>8. c \in Seq(0..9) /\ Len(c) = n
  BY <1>2 DEF Decimal
<1>9. CASE c[1] # 0
  <2>1. n \in Nat \ {0} /\ p = (e + 1) - n + 1 /\ e + 1 \in Int /\ m = s * FromDigits(c, 10)
    BY <1>1, <1>2
  <2>2. ProductOf(s, e, c) = BigNum(s, e + 1, DropTrailingZeros(c))
    BY <1>9 DEF ProductOf
  <2>3. ProductOf(s, e, c).c[1] # 0
    BY <1>2, <1>9, <2>1, <2>2, FirstStays DEF BigNum
  <2>4. QED
    BY <1>2, <1>9, <2>1, <2>2, <2>3, RangeGives DEF c
<1>10. CASE c[1] = 0
  <2>1. z = 1
    <3>1. c[LeadingZeros(c) + 1] # 0
      BY <1>5, <1>8, Leading
    <3>2. z # 0
      BY <1>6, <1>10, <3>1
    <3>3. QED
      BY <1>7, <3>2
  <2> DEFINE d == SubSeq(c, 2, n)
  <2>2. Tail(c) = d
    BY <1>1, <1>8
  <2>3. Decimal(d, n - 1) /\ d[1] # 0 /\ FromDigits(d, 10) = FromDigits(c, 10)
    BY <1>6, <2>1
  <2> HIDE DEF d
  <2>4. n - 1 \in Nat \ {0} /\ p = e - (n - 1) + 1 /\ m = s * FromDigits(d, 10)
    BY <1>1, <1>2, <2>3
  <2>5. ProductOf(s, e, c) = BigNum(s, e, DropTrailingZeros(d))
    BY <1>10, <2>2 DEF ProductOf
  <2>6. ProductOf(s, e, c).c[1] # 0
    BY <2>3, <2>4, <2>5, FirstStays DEF BigNum
  <2>7. QED
    BY <2>3, <2>4, <2>5, <2>6, RangeGives DEF c
<1>11. QED
  BY <1>9, <1>10

LEMMA FiniteTimes ==
    ASSUME NEW g, NEW x, NEW y, Normal(x), Normal(y), IsFinite(x), IsFinite(y)
    PROVE  Normal(Times(g, x, y)) /\ IsResult(g, Times(g, x, y), M(x) * M(y), P(x) + P(y))
<1>1. /\ x.s \in {-1, 1} /\ y.s \in {-1, 1} /\ HasDigits(x) /\ HasDigits(y) /\ ~IsNaN(x) /\ ~IsNaN(y)
      /\ (~IsZero(x) => x.c[1] # 0) /\ (~IsZero(y) => y.c[1] # 0)
  BY FiniteNeg
<1>2. M(x) \in Int /\ P(x) \in Int /\ M(y) \in Int /\ P(y) \in Int
  BY <1>1, ValueInt
<1> DEFINE s == IF x.s = y.s THEN 1 ELSE -1
<1>3. s \in {-1, 1}
  OBVIOUS
<1>4. CASE IsZero(x) \/ IsZero(y)
  <2>1. Times(g, x, y) = Zero(s)
    BY <1>1, <1>4 DEF Times, IsSpecial
  <2>2. M(x) * M(y) = 0
    <3>1. M(x) = 0 \/ M(y) = 0
      BY <1>4, ZeroValue
    <3>2. QED
      BY <1>2, <3>1
  <2>3. P(x) + P(y) \in Int
    BY <1>2
  <2>4. SameValue(M(Zero(s)), P(Zero(s)), 0, P(x) + P(y)) /\ Normal(Zero(s)) /\ IsFinite(Zero(s))
    BY <1>3, <2>3, ZeroIs
  <2>5. QED
    BY <2>1, <2>2, <2>4 DEF IsResult
<1>5. CASE ~IsZero(x) /\ ~IsZero(y)
  <2> DEFINE a == Len(x.c)
             b == Len(y.c)
  <2>1. Times(g, x, y) = InRange(g, ProductOf(s, x.e + y.e, Product(x.c, y.c)))
    BY <1>1, <1>5 DEF Times, IsSpecial
  <2>2. a \in Nat \ {0} /\ b \in Nat \ {0} /\ Decimal(x.c, a) /\ Decimal(y.c, b) /\ x.e \in Int /\ y.e \in Int
    BY <1>1 DEF HasDigits, Decimal
  <2>3. P(x) = x.e - a + 1 /\ P(y) = y.e - b + 1
    BY DEF P
  <2> HIDE DEF a, b
  <2>4. P(x) + P(y) = (x.e + y.e) - (a + b) + 2 /\ P(x) + P(y) \in Int /\ x.e + y.e \in Int
    BY <2>2, <2>3
  <2>5. M(x) * M(y) = s * (FromDigits(x.c, 10) * FromDigits(y.c, 10)) /\ M(x) * M(y) \in Int
    <3> DEFINE X == FromDigits(x.c, 10)
               Y == FromDigits(y.c, 10)
    <3>1. X \in Int /\ Y \in Int
      BY <1>1, ValueInt
    <3>2. M(x) = x.s * X /\ M(y) = y.s * Y
      BY DEF M
    <3> HIDE DEF X, Y
    <3>3. (x.s * X) * (y.s * Y) = s * (X * Y)
      <4>1. CASE x.s = 1 /\ y.s = 1
        BY <3>1, <4>1
      <4>2. CASE x.s = 1 /\ y.s = -1
        BY <3>1, <4>2
      <4>3. CASE x.s = -1 /\ y.s = 1
        BY <3>1, <4>3
      <4>4. CASE x.s = -1 /\ y.s = -1
        BY <3>1, <4>4
      <4>5. QED
        BY <1>1, <4>1, <4>2, <4>3, <4>4
    <3>4. QED
      BY <1>2, <3>2, <3>3 DEF X, Y
  <2>6. x.c[1] # 0 /\ y.c[1] # 0
    BY <1>1, <1>5
  <2> DEFINE m == M(x) * M(y)
             p == P(x) + P(y)
             e == x.e + y.e
  <2>7. /\ p = e - (a + b) + 2 /\ p \in Int /\ e \in Int
        /\ m = s * (FromDigits(x.c, 10) * FromDigits(y.c, 10)) /\ m \in Int
        /\ Times(g, x, y) = InRange(g, ProductOf(s, e, Product(x.c, y.c)))
    BY <2>1, <2>4, <2>5
  <2> HIDE DEF s, m, p, e
  <2>8. /\ Normal(InRange(g, ProductOf(s, e, Product(x.c, y.c))))
        /\ IsResult(g, InRange(g, ProductOf(s, e, Product(x.c, y.c))), m, p)
    BY <1>3, <2>2, <2>6, <2>7, ProductGives
  <2>9. QED
    BY <2>7, <2>8 DEF m, p
<1>6. QED
  BY <1>4, <1>5

LEMMA TimesNormal ==
    ASSUME NEW g, NEW x, NEW y, Normal(x), Normal(y)
    PROVE  Normal(Times(g, x, y))
<1> DEFINE s == IF x.s = y.s THEN 1 ELSE -1
<1>1. CASE IsFinite(x) /\ IsFinite(y)
  BY <1>1, FiniteTimes
<1>2. CASE ~(IsFinite(x) /\ IsFinite(y))
  <2>1. Times(g, x, y) \in {NaN, Infinity(s), Zero(s)}
    BY <1>2 DEF Times, IsSpecial, IsFinite, IsZero
  <2>2. Normal(NaN) /\ Normal(Infinity(s)) /\ Normal(Zero(s))
    BY NormalConstants
  <2>3. QED
    BY <2>1, <2>2
<1>3. QED
  BY <1>1, <1>2
==============================================================================
