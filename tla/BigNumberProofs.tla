--------------------------- MODULE BigNumberProofs ---------------------------
(***************************************************************************)
(* Quotients, remainders and rounding of any two finite numbers against    *)
(* the integers they stand for; the normal form after any sequence of      *)
(* calls; and the theorems about them.                                     *)
(***************************************************************************)
EXTENDS BigNumberLib, DigitTheorems

----------------------------------------------------------------------------
(* Long division by D, which has b digits, in base 10.                     *)

DivStates(D) == [qc : Seq(0..9), rem : 0..(10 * D - 1), left : BOOLEAN]

Divides(dvd, b, D, n, f) ==
    /\ f[0] = [qc |-> <<>>, rem |-> Prefix(dvd, 10, b), left |-> TRUE]
    /\ \A k \in 1..n : f[k] = DivideStep(dvd, b, D, 10, k, f[k - 1])

LEMMA ByDivisor ==
    ASSUME NEW D \in Nat \ {0}, NEW r \in 0..(10 * D - 1), NEW t \in 0..9
    PROVE  /\ r \div D \in 0..9 /\ (r % D) \in 0..(D - 1) /\ r = D * (r \div D) + (r % D)
           /\ (r % D) * 10 + t \in 0..(10 * D - 1)
<1>1. r \div D \in Int /\ (r % D) \in 0..(D - 1) /\ r = D * (r \div D) + (r % D)
  OBVIOUS
<1>2. PICK q \in Int : q = r \div D
  BY <1>1
<1>3. q \in 0..9
  <2>1. CASE q < 0
    <3>1. D * q <= D * (-1)
      BY <2>1
    <3>2. QED
      BY <1>1, <1>2, <3>1
  <2>2. CASE q > 9
    <3>1. D * q >= D * 10
      BY <2>2
    <3>2. QED
      BY <1>1, <1>2, <3>1
  <2>3. QED
    BY <2>1, <2>2
<1>4. QED
  BY <1>1, <1>2, <1>3

LEMMA StepStays ==
    ASSUME NEW dvd, BaseDigits(10, dvd), NEW b \in Nat, NEW D \in Nat \ {0}, NEW k \in Nat, NEW st \in DivStates(D)
    PROVE  DivideStep(dvd, b, D, 10, k, st) \in DivStates(D)
<1>1. st.rem \in 0..(10 * D - 1) /\ st.qc \in Seq(0..9)
  BY DEF DivStates
<1>2. Digit(dvd, b + k) \in 0..9
  <2>1. b + k \in Nat /\ 0..(10 - 1) = 0..9
    OBVIOUS
  <2>2. QED
    BY <2>1 DEF BaseDigits
<1>3. st.rem \div D \in 0..9 /\ (st.rem % D) * 10 + Digit(dvd, b + k) \in 0..(10 * D - 1)
  BY <1>1, <1>2, ByDivisor
<1>4. Append(st.qc, st.rem \div D) \in Seq(0..9)
  BY <1>1, <1>3
<1>5. QED
  BY <1>3, <1>4 DEF DivideStep, DivStates

LEMMA DivideHasSteps ==
    ASSUME NEW dvd, BaseDigits(10, dvd), NEW b \in Nat, NEW D \in Nat \ {0},
           Prefix(dvd, 10, b) \in 0..(10 * D - 1), NEW n \in Nat
    PROVE  \E f : /\ Divides(dvd, b, D, n, f) /\ \A k \in 0..n : f[k] \in DivStates(D)
                  /\ DivideDigits(dvd, b, D, 10, n) = f[n]
<1> DEFINE V == DivStates(D)
           v0 == [qc |-> <<>>, rem |-> Prefix(dvd, 10, b), left |-> TRUE]
           Def(p) == p = [k \in 0..n |-> IF k = 0 THEN v0 ELSE DivideStep(dvd, b, D, 10, k, p[k - 1])]
           steps == CHOOSE p : Def(p)
           F == [k \in Nat |-> [st \in V |-> DivideStep(dvd, b, D, 10, k, st)]]
<1>1. DivideDigits(dvd, b, D, 10, n) = steps[n]
  BY DEF DivideDigits
<1>2. v0 \in V
  BY DEF DivStates
<1> HIDE DEF v0, V
<1>3. F \in [Nat -> [V -> V]]
  <2>1. \A k \in Nat, st \in V : DivideStep(dvd, b, D, 10, k, st) \in V
    BY StepStays DEF V
  <2>2. QED
    BY <2>1
<1>4. \E p : Def(p)
  <2>1. \E g : Computes(V, v0, F, n, g)
    <3> HIDE DEF F
    <3>1. QED
      BY <1>2, <1>3, ComputationExists, Zenon
  <2>2. PICK g : Computes(V, v0, F, n, g)
    BY <2>1
  <2>3. g \in [0..n -> V] /\ g[0] = v0 /\ \A k \in 1..n : g[k] = F[k][g[k - 1]]
    BY <2>2 DEF Computes
  <2>4. ASSUME NEW k \in 0..n
        PROVE  g[k] = IF k = 0 THEN v0 ELSE DivideStep(dvd, b, D, 10, k, g[k - 1])
    <3>1. CASE k = 0
      BY <2>3, <3>1
    <3>2. CASE k # 0
      <4>1. k \in 1..n /\ k \in Nat /\ k - 1 \in 0..n
        BY <3>2
      <4>2. g[k - 1] \in V /\ g[k] = F[k][g[k - 1]]
        BY <2>3, <4>1
      <4>3. QED
        BY <3>2, <4>1, <4>2
    <3>3. QED
      BY <3>1, <3>2
  <2>5. Def(g)
    BY <2>3, <2>4
  <2>6. QED
    BY <2>5
<1>5. Def(steps)
  BY <1>4
<1> HIDE DEF steps
<1>6. steps[0] = v0
  BY <1>5
<1>7. \A k \in 1..n : steps[k] = DivideStep(dvd, b, D, 10, k, steps[k - 1])
  <2>1. \A k \in 1..n : k \in 0..n /\ k # 0
    OBVIOUS
  <2>2. QED
    BY <1>5, <2>1
<1>8. Divides(dvd, b, D, n, steps)
  BY <1>6, <1>7 DEF Divides, v0
<1> DEFINE S == {k \in 0..n : steps[k] \in V}
<1>9. 0 \in S
  BY <1>2, <1>6
<1>10. ASSUME NEW k \in 0..(n - 1), k \in S PROVE k + 1 \in S
  <2>1. k + 1 \in 1..n /\ (k + 1) - 1 = k /\ k + 1 \in 0..n /\ k + 1 \in Nat
    OBVIOUS
  <2>2. steps[k] \in DivStates(D) /\ steps[k + 1] = DivideStep(dvd, b, D, 10, k + 1, steps[k])
    BY <1>7, <1>10, <2>1 DEF V
  <2>3. steps[k + 1] \in V
    BY <2>1, <2>2, StepStays DEF V
  <2>4. QED
    BY <2>1, <2>3
<1> HIDE DEF S
<1>11. \A k \in 0..n : k \in S
  BY <1>9, <1>10, IntervalInduction
<1>12. \A k \in 0..n : steps[k] \in DivStates(D)
  BY <1>11 DEF S, V
<1>13. QED
  BY <1>1, <1>8, <1>12

(* What is true after k steps, for a dividend of a digits: qc is the       *)
(* quotient so far, its first two digits are not both 0, and the last one  *)
(* of an exact quotient is not 0.                                          *)
Divided(dvd, a, b, D, k, st) ==
    LET j == Len(st.qc)
    IN  /\ st \in DivStates(D)
        /\ IF st.left THEN j = k ELSE j \in 1..k /\ st.qc[j] # 0 /\ j + b > a /\ st.rem = 0
        /\ FromDigits(st.qc, 10) * (10 * D) + st.rem = Prefix(dvd, 10, b + j)
        /\ st.left /\ st.rem = 0 => b + k + 1 <= a
        /\ st.left /\ k > 0 /\ b + k > a => st.rem # 0
        /\ j = 1 /\ st.qc[1] = 0 => st.left /\ st.rem >= D
        /\ j > 1 /\ st.qc[1] = 0 => st.qc[2] # 0

Dividend(dvd, a, b, D) ==
    /\ Decimal(dvd, a) /\ a \in Nat \ {0} /\ dvd[1] # 0 /\ dvd[a] # 0
    /\ b \in Nat \ {0} /\ D \in Nat \ {0} /\ D >= Power(10, b - 1) /\ D < Power(10, b)

LEMMA FirstPart ==
    ASSUME NEW dvd, NEW a, NEW b, NEW D, Dividend(dvd, a, b, D)
    PROVE  /\ Prefix(dvd, 10, b) \in 0..(10 * D - 1) /\ Prefix(dvd, 10, b) # 0
           /\ Prefix(dvd, 10, b) * 10 >= D
<1>1. b \in Nat \ {0} /\ D \in Nat \ {0} /\ D >= Power(10, b - 1) /\ D < Power(10, b)
  BY DEF Dividend
<1>2. b \in Nat /\ b - 1 \in Nat /\ (b - 1) + 1 = b
  BY <1>1
<1>3. BaseDigits(10, dvd) /\ Digit(dvd, 1) # 0
  <2>1. Decimal(dvd, a) /\ 1 \in 1..a /\ dvd[1] # 0
    BY DEF Dividend
  <2>2. QED
    BY <2>1, TenDigits
<1>4. Prefix(dvd, 10, b) \in Nat /\ Prefix(dvd, 10, b) < Power(10, b)
  BY <1>2, <1>3, TenInt, PrefixBounds, Zenon
<1>5. Prefix(dvd, 10, (b - 1) + 1) >= Power(10, b - 1)
  BY <1>2, <1>3, TenInt, PrefixLeading, Zenon
<1>6. Power(10, (b - 1) + 1) = Power(10, b - 1) * 10
  BY <1>2, TenInt, PowerNext, Zenon
<1>7. Power(10, b - 1) \in Nat \ {0}
  BY <1>2, TenInt, PowerPositive, Zenon
<1>8. Prefix(dvd, 10, b) >= Power(10, b - 1) /\ Power(10, b) = Power(10, b - 1) * 10
  BY <1>2, <1>5, <1>6
<1>9. QED
  <2> DEFINE p == Prefix(dvd, 10, b)
             t == Power(10, b - 1)
             u == Power(10, b)
  <2>1. p \in Nat /\ t \in Nat \ {0} /\ p < u /\ u = t * 10 /\ p >= t /\ D >= t /\ D < u /\ D \in Nat
    BY <1>1, <1>4, <1>7, <1>8
  <2> HIDE DEF p, t, u
  <2>2. p \in 0..(10 * D - 1) /\ p # 0 /\ p * 10 >= D
    BY <2>1
  <2>3. QED
    BY <2>2 DEF p

LEMMA AppendValue ==
    ASSUME NEW j \in Nat, NEW c, Decimal(c, j), NEW q \in 0..9
    PROVE  /\ Decimal(Append(c, q), j + 1) /\ Append(c, q)[j + 1] = q
           /\ \A i \in 1..j : Append(c, q)[i] = c[i]
           /\ FromDigits(Append(c, q), 10) = FromDigits(c, 10) * 10 + q
<1> DEFINE f == Append(c, q)
<1>1. c \in Seq(0..9) /\ Len(c) = j
  BY DEF Decimal
<1>2. f \in Seq(0..9) /\ Len(f) = j + 1 /\ f[j + 1] = q /\ \A i \in 1..j : f[i] = c[i]
  BY <1>1
<1>3. Decimal(f, j + 1)
  BY <1>2 DEF Decimal
<1> HIDE DEF f
<1>4. /\ IntDigits(f) /\ \A i \in 1..(j + 1) : Digit(f, i) = f[i]
      /\ IntDigits(c) /\ \A i \in 1..j : Digit(c, i) = c[i]
  BY <1>3, TenDigits
<1>5. Prefix(f, 10, j + 1) = Prefix(f, 10, j) * 10 + Digit(f, j + 1)
  BY <1>4, TenInt, PrefixNext, Zenon
<1>6. Prefix(f, 10, j) = Prefix(c, 10, j)
  <2>1. \A i \in 1..j : Digit(f, i) = Digit(c, i)
    BY <1>2, <1>4
  <2>2. 10 \in Int /\ IntDigits(f) /\ IntDigits(c)
    BY <1>4
  <2>3. QED
    BY <2>1, <2>2, PrefixSame
<1>7. Digit(f, j + 1) = q
  BY <1>2, <1>4
<1>8. FromDigits(f, 10) = Prefix(f, 10, j + 1) /\ FromDigits(c, 10) = Prefix(c, 10, j)
  BY <1>1, <1>2 DEF FromDigits
<1>9. QED
  BY <1>2, <1>3, <1>5, <1>6, <1>7, <1>8 DEF f

LEMMA DivideStarts ==
    ASSUME NEW dvd, NEW a, NEW b, NEW D, Dividend(dvd, a, b, D)
    PROVE  Divided(dvd, a, b, D, 0, [qc |-> <<>>, rem |-> Prefix(dvd, 10, b), left |-> TRUE])
<1> DEFINE st == [qc |-> <<>>, rem |-> Prefix(dvd, 10, b), left |-> TRUE]
<1>1. Prefix(dvd, 10, b) \in 0..(10 * D - 1) /\ Prefix(dvd, 10, b) # 0
  BY FirstPart
<1>2. st \in DivStates(D)
  BY <1>1 DEF DivStates
<1>3. FromDigits(<<>>, 10) = 0
  <2>1. Decimal(<<>>, 0)
    BY DEF Decimal
  <2>2. IntDigits(<<>>)
    BY <2>1, TenDigits
  <2>3. Prefix(<<>>, 10, 0) = 0
    BY <2>2, TenInt, PrefixZero, Zenon
  <2>4. QED
    BY <2>3 DEF FromDigits
<1>4. D \in Nat /\ b \in Nat /\ b + 0 = b
  BY DEF Dividend
<1>5. FromDigits(<<>>, 10) * (10 * D) + Prefix(dvd, 10, b) = Prefix(dvd, 10, b + 0)
  BY <1>1, <1>3, <1>4
<1>6. Len(<<>>) = 0
  OBVIOUS
<1>7. st.qc = <<>> /\ st.rem = Prefix(dvd, 10, b) /\ st.left = TRUE
  OBVIOUS
<1> HIDE DEF st
<1>8. Divided(dvd, a, b, D, 0, st)
  BY <1>1, <1>2, <1>5, <1>6, <1>7 DEF Divided
<1>9. QED
  BY <1>8 DEF st

LEMMA DivideGoesOn ==
    ASSUME NEW dvd, NEW a, NEW b, NEW D, Dividend(dvd, a, b, D),
           NEW k \in Nat, NEW st, Divided(dvd, a, b, D, k, st)
    PROVE  Divided(dvd, a, b, D, k + 1, DivideStep(dvd, b, D, 10, k + 1, st))
<1> DEFINE st2 == DivideStep(dvd, b, D, 10, k + 1, st)
           j == Len(st.qc)
<1>1. /\ st \in DivStates(D)
      /\ IF st.left THEN j = k ELSE j \in 1..k /\ st.qc[j] # 0 /\ j + b > a /\ st.rem = 0
      /\ FromDigits(st.qc, 10) * (10 * D) + st.rem = Prefix(dvd, 10, b + j)
      /\ (st.left /\ st.rem = 0) => b + k + 1 <= a
      /\ (st.left /\ k > 0 /\ b + k > a) => st.rem # 0
      /\ (j = 1 /\ st.qc[1] = 0) => st.left /\ st.rem >= D
      /\ (j > 1 /\ st.qc[1] = 0) => st.qc[2] # 0
  BY DEF Divided
<1>2. CASE ~st.left
  <2>1. st2 = st
    BY <1>2 DEF DivideStep
  <2>2. j \in 1..k => j \in 1..(k + 1)
    OBVIOUS
  <2>3. Divided(dvd, a, b, D, k + 1, st)
    BY <1>1, <1>2, <2>2 DEF Divided
  <2>4. QED
    BY <2>1, <2>3
<1>3. CASE st.left
  <2> DEFINE q    == st.rem \div D
             rest == st.rem % D
             t    == Digit(dvd, b + (k + 1))
             i    == b + k + 1
             Q    == FromDigits(st.qc, 10)
  <2>1. /\ a \in Nat \ {0} /\ b \in Nat \ {0} /\ D \in Nat \ {0}
        /\ DOMAIN dvd = 1..a /\ dvd[a] # 0
        /\ BaseDigits(10, dvd) /\ IntDigits(dvd)
        /\ \A m \in 1..a : Digit(dvd, m) = dvd[m]
    <3>1. Decimal(dvd, a) /\ a \in Nat \ {0} /\ b \in Nat \ {0} /\ D \in Nat \ {0} /\ dvd[a] # 0
      BY DEF Dividend
    <3>2. DOMAIN dvd = 1..a
      BY <3>1 DEF Decimal
    <3>3. QED
      BY <3>1, <3>2, TenDigits
  <2>2. b + (k + 1) = i /\ i \in Nat /\ b + k \in Nat /\ i = (b + k) + 1
    BY <2>1
  <2>3. t \in 0..9
    <3>1. 0..(10 - 1) = 0..9
      OBVIOUS
    <3>2. QED
      BY <2>1, <2>2, <3>1 DEF BaseDigits
  <2>4. st.rem \in 0..(10 * D - 1) /\ st.qc \in Seq(0..9) /\ Decimal(st.qc, k)
    BY <1>1, <1>3 DEF DivStates, Decimal
  <2>5. q \in 0..9 /\ rest \in 0..(D - 1) /\ st.rem = D * q + rest
    BY <2>1, <2>3, <2>4, ByDivisor
  <2>6. st2 = [qc |-> Append(st.qc, q), rem |-> rest * 10 + t, left |-> rest # 0 \/ i \in 1..a]
    BY <1>3, <2>1, <2>2 DEF DivideStep
  <2>7. /\ Decimal(Append(st.qc, q), k + 1) /\ Append(st.qc, q)[k + 1] = q
        /\ \A m \in 1..k : Append(st.qc, q)[m] = st.qc[m]
        /\ FromDigits(Append(st.qc, q), 10) = Q * 10 + q
    <3>1. Decimal(st.qc, k) /\ q \in 0..9
      BY <2>4, <2>5
    <3> HIDE DEF q
    <3>2. QED
      BY <3>1, AppendValue, ZenonT(60)
  <2>8. st2 \in DivStates(D)
    BY <1>1, <2>1, StepStays
  <2>9. /\ i \in 1..a => t = dvd[i]
        /\ i \notin 1..a => t = 0 /\ i > a
    BY <2>1, <2>2 DEF Digit
  <2>10. Prefix(dvd, 10, i) = Prefix(dvd, 10, b + k) * 10 + t
    BY <2>1, <2>2, TenInt, PrefixNext
  <2>11. Q \in Int /\ Prefix(dvd, 10, b + k) \in Int
    <3>1. Q = Prefix(st.qc, 10, k) /\ IntDigits(st.qc)
      BY <2>4, TenDigits DEF FromDigits, Decimal
    <3>2. QED
      BY <2>1, <2>2, <3>1, TenInt, PrefixInt, Zenon
  <2>12. Q * (10 * D) + st.rem = Prefix(dvd, 10, b + k)
    BY <1>1, <1>3
  <2> DEFINE c == Append(st.qc, q)
  <2>13. Len(c) = k + 1
    BY <2>7 DEF Decimal
  <2> HIDE DEF c
  <2>14. st2.qc = c /\ st2.rem = rest * 10 + t /\ (st2.left <=> (rest # 0 \/ i \in 1..a))
    <3>1. st2.qc = c /\ st2.rem = rest * 10 + t
      BY <2>6 DEF c
    <3> HIDE DEF st2, rest, q, t, i
    <3>2. CASE rest # 0 \/ i \in 1..a
      <4>1. st2.left = TRUE
        BY <2>6, <3>2
      <4>2. QED
        BY <3>1, <3>2, <4>1
    <3>3. CASE ~(rest # 0 \/ i \in 1..a)
      <4>1. st2.left = FALSE
        BY <2>6, <3>3
      <4>2. QED
        BY <3>1, <3>3, <4>1
    <3>4. QED
      BY <3>2, <3>3
  <2>15. c[k + 1] = q /\ (\A m \in 1..k : c[m] = st.qc[m]) /\ FromDigits(c, 10) = Q * 10 + q
    BY <2>7 DEF c
  <2> DEFINE P0 == Prefix(dvd, 10, b + k)
             r  == st.rem
  <2> HIDE DEF q, rest, t, Q, P0, st2, r
  <2>16. FromDigits(c, 10) * (10 * D) + (rest * 10 + t) = Prefix(dvd, 10, b + (k + 1))
    <3>1. (Q * 10 + q) * (10 * D) + (rest * 10 + t) = 10 * (Q * (10 * D) + (D * q + rest)) + t
      <4>1. Q \in Int /\ q \in Int /\ D \in Int /\ rest \in Int /\ t \in Int
        BY <2>1, <2>3, <2>5, <2>11
      <4>2. PICK u \in Int : u = Q * (10 * D)
        BY <4>1
      <4>3. PICK v \in Int : v = D * q
        BY <4>1
      <4>4. (Q * 10 + q) * (10 * D) = 10 * u + 10 * v
        BY <4>1, <4>2, <4>3
      <4>5. QED
        BY <4>1, <4>2, <4>3, <4>4
    <3>2. Q * (10 * D) + (D * q + rest) = P0
      BY <2>5, <2>12 DEF P0
    <3>3. Prefix(dvd, 10, b + (k + 1)) = P0 * 10 + t
      BY <2>2, <2>10 DEF P0
    <3>4. P0 \in Int /\ t \in Int
      BY <2>3, <2>11 DEF P0
    <3>5. QED
      BY <2>15, <3>1, <3>2, <3>3, <3>4
  <2>17. ASSUME ~(rest # 0 \/ i \in 1..a) PROVE q # 0 /\ (k + 1) + b > a /\ rest * 10 + t = 0
    <3>1. rest = 0 /\ t = 0 /\ i > a
      BY <2>9, <2>17
    <3>2. i = (k + 1) + b
      BY <2>1
    <3>3. ASSUME q = 0 PROVE FALSE
      <4>1. r = 0
        BY <2>1, <2>5, <3>1, <3>3 DEF r
      <4>2. i <= a
        BY <1>1, <1>3, <4>1 DEF r
      <4>3. QED
        BY <2>1, <2>2, <3>1, <4>2
    <3>4. QED
      BY <3>1, <3>2, <3>3
  <2>18. ASSUME rest # 0 \/ i \in 1..a, rest * 10 + t = 0 PROVE b + (k + 1) + 1 <= a
    <3>1. rest = 0 /\ t = 0
      BY <2>1, <2>3, <2>5, <2>18
    <3>2. i \in 1..a /\ dvd[i] = 0
      BY <2>9, <2>18, <3>1
    <3>3. i # a
      BY <2>1, <3>2
    <3>4. QED
      BY <2>1, <2>2, <3>2, <3>3
  <2>19. ASSUME rest # 0 \/ i \in 1..a, b + (k + 1) > a PROVE rest * 10 + t # 0
    <3>1. i \notin 1..a
      BY <2>1, <2>2, <2>19
    <3>2. QED
      BY <2>1, <2>3, <2>5, <2>19, <3>1
  <2>20. ASSUME k + 1 = 1, q = 0 PROVE rest # 0 /\ rest * 10 + t >= D
    <3>1. k = 0 /\ b + k = b
      BY <2>1, <2>20
    <3>2. Q = 0
      <4>1. Decimal(st.qc, 0) /\ IntDigits(st.qc) /\ Len(st.qc) = 0
        BY <2>4, <3>1, TenDigits DEF Decimal
      <4>2. Prefix(st.qc, 10, 0) = 0
        BY <4>1, TenInt, PrefixZero, Zenon
      <4>3. QED
        BY <4>1, <4>2 DEF FromDigits, Q
    <3>3. Prefix(dvd, 10, b) # 0 /\ Prefix(dvd, 10, b) * 10 >= D /\ Prefix(dvd, 10, b) \in Int
      BY <2>11, <3>1, FirstPart
    <3>4. r = Prefix(dvd, 10, b)
      <4>1. 0 * (10 * D) = 0 /\ r \in Int
        BY <2>1, <2>4 DEF r
      <4>2. QED
        BY <2>12, <3>1, <3>2, <4>1 DEF r
    <3>5. r = rest
      <4>1. D * 0 = 0 /\ rest \in Int
        BY <2>1, <2>5
      <4>2. QED
        BY <2>5, <2>20, <4>1 DEF r
    <3>6. QED
      BY <2>1, <2>3, <2>5, <3>3, <3>4, <3>5
  <2>21. ASSUME k + 1 > 1, c[1] = 0 PROVE c[2] # 0
    <3>1. 1 \in 1..k /\ c[1] = st.qc[1]
      BY <2>15, <2>21
    <3>2. CASE k = 1
      <4>1. st.rem >= D
        BY <1>1, <1>3, <2>21, <3>1, <3>2
      <4>2. q # 0
        <5>1. q = 0 => st.rem = rest
          <6>1. D * 0 = 0 /\ rest \in Int
            BY <2>1, <2>5
          <6>2. QED
            BY <2>5, <6>1
        <5>2. QED
          BY <2>1, <2>5, <4>1, <5>1
      <4>3. c[2] = q
        BY <2>15, <3>2
      <4>4. QED
        BY <4>2, <4>3
    <3>3. CASE k > 1
      <4>1. 2 \in 1..k /\ c[2] = st.qc[2]
        BY <2>15, <3>3
      <4>2. QED
        BY <1>1, <1>3, <2>21, <3>1, <3>3, <4>1
    <3>4. QED
      BY <2>21, <3>2, <3>3
  <2>22. Divided(dvd, a, b, D, k + 1, st2)
    <3>1. Len(st2.qc) = k + 1
      BY <2>13, <2>14
    <3>2. IF st2.left THEN k + 1 = k + 1
          ELSE k + 1 \in 1..(k + 1) /\ st2.qc[k + 1] # 0 /\ (k + 1) + b > a /\ st2.rem = 0
      BY <2>14, <2>15, <2>17
    <3>3. st2.left /\ st2.rem = 0 => b + (k + 1) + 1 <= a
      BY <2>14, <2>18
    <3>4. st2.left /\ k + 1 > 0 /\ b + (k + 1) > a => st2.rem # 0
      BY <2>14, <2>19
    <3>5. k + 1 = 1 /\ st2.qc[1] = 0 => st2.left /\ st2.rem >= D
      BY <2>14, <2>15, <2>20
    <3>6. k + 1 > 1 /\ st2.qc[1] = 0 => st2.qc[2] # 0
      BY <2>14, <2>21
    <3>7. FromDigits(st2.qc, 10) * (10 * D) + st2.rem = Prefix(dvd, 10, b + (k + 1))
      BY <2>14, <2>16
    <3>8. QED
      BY <2>8, <3>1, <3>2, <3>3, <3>4, <3>5, <3>6, <3>7 DEF Divided
  <2>23. QED
    BY <2>22 DEF st2
<1>4. QED
  BY <1>2, <1>3

(* The state in which the division of dvd by dvs ends.                     *)
LEMMA DivideEnds ==
    ASSUME NEW dvd, NEW a, NEW b, NEW D, Dividend(dvd, a, b, D), NEW n \in Nat
    PROVE  Divided(dvd, a, b, D, n, DivideDigits(dvd, b, D, 10, n))
<1>1. BaseDigits(10, dvd) /\ b \in Nat /\ D \in Nat \ {0} /\ Prefix(dvd, 10, b) \in 0..(10 * D - 1)
  <2>1. Decimal(dvd, a) /\ b \in Nat /\ D \in Nat \ {0}
    BY DEF Dividend
  <2>2. QED
    BY <2>1, TenDigits, FirstPart
<1>2. PICK f : /\ Divides(dvd, b, D, n, f) /\ DivideDigits(dvd, b, D, 10, n) = f[n]
  BY <1>1, DivideHasSteps
<1> DEFINE S == {k \in 0..n : Divided(dvd, a, b, D, k, f[k])}
<1>3. 0 \in S
  <2>1. f[0] = [qc |-> <<>>, rem |-> Prefix(dvd, 10, b), left |-> TRUE]
    BY <1>2 DEF Divides
  <2>2. Divided(dvd, a, b, D, 0, f[0])
    BY <2>1, DivideStarts
  <2>3. QED
    BY <2>2
<1>4. ASSUME NEW k \in 0..(n - 1), k \in S PROVE k + 1 \in S
  <2>1. k + 1 \in 1..n /\ (k + 1) - 1 = k /\ k + 1 \in 0..n /\ k \in Nat
    OBVIOUS
  <2>2. f[k + 1] = DivideStep(dvd, b, D, 10, k + 1, f[k])
    BY <1>2, <2>1 DEF Divides
  <2>3. Divided(dvd, a, b, D, k, f[k])
    BY <1>4
  <2>4. Divided(dvd, a, b, D, k + 1, f[k + 1])
    BY <2>1, <2>2, <2>3, DivideGoesOn
  <2>5. QED
    BY <2>1, <2>4
<1> HIDE DEF S
<1>5. \A k \in 0..n : k \in S
  BY <1>3, <1>4, IntervalInduction
<1>6. n \in S
  BY <1>5
<1>7. QED
  BY <1>2, <1>6 DEF S

(* The quotient that is rounded has digits, the one that is not is exact   *)
(* and in normal form.                                                     *)
LEMMA QuotientDigits ==
    ASSUME NEW s \in {-1, 1}, NEW e \in Int, NEW qc \in Seq(0..9), Len(qc) > 0
    PROVE  /\ HasDigits(Quotient(s, e, qc)) /\ Quotient(s, e, qc).s = s
           /\ (qc[Len(qc)] # 0 /\ (Len(qc) > 1 /\ qc[1] = 0 => qc[2] # 0)) => Normal(Quotient(s, e, qc))
<1>0. PICK m \in Nat : m = Len(qc)
  OBVIOUS
<1>1. CASE qc[1] = 0 /\ Len(qc) # 1
  <2>0. m > 1 /\ m - 1 \in Nat \ {0} /\ (m - 1) + 1 = m
    BY <1>0, <1>1
  <2>1. Quotient(s, e, qc) = BigNum(s, e - 1, Tail(qc))
    BY <1>1 DEF Quotient
  <2> DEFINE t == Tail(qc)
  <2>2. t \in Seq(0..9) /\ Len(t) = m - 1 /\ t # <<>> /\ t[1] = qc[2] /\ t[Len(t)] = qc[Len(qc)] /\ Len(t) > 0
    <3>1. qc # <<>>
      BY <2>0, <1>0
    <3>2. t \in Seq(0..9) /\ Len(t) = m - 1
      BY <1>0, <3>1
    <3>3. \A i \in 1..(m - 1) : t[i] = qc[i + 1]
      BY <1>0, <3>1
    <3>4. 1 \in 1..(m - 1) /\ m - 1 \in 1..(m - 1) /\ 1 + 1 = 2
      BY <2>0
    <3>5. t[1] = qc[2] /\ t[m - 1] = qc[m]
      BY <2>0, <3>3, <3>4
    <3> HIDE DEF t
    <3>6. t # <<>>
      BY <2>0, <3>2
    <3>7. QED
      BY <1>0, <2>0, <3>2, <3>5, <3>6
  <2> HIDE DEF t
  <2>3. e - 1 \in Int /\ Len(qc) > 1
    BY <1>0, <2>0
  <2>4. Normal(BigNum(s, e - 1, t)) \/ t[1] = 0 \/ t[Len(t)] = 0
    BY <2>2, <2>3 DEF Normal, Numbers, BigNum
  <2>5. HasDigits(BigNum(s, e - 1, t)) /\ BigNum(s, e - 1, t).s = s
    BY <2>2, <2>3 DEF HasDigits, BigNum
  <2>6. QED
    BY <1>1, <2>1, <2>2, <2>3, <2>4, <2>5 DEF t
<1>2. CASE ~(qc[1] = 0 /\ Len(qc) # 1)
  <2>1. Quotient(s, e, qc) = BigNum(s, e, qc)
    BY <1>2 DEF Quotient
  <2>2. qc # <<>>
    OBVIOUS
  <2>3. Normal(BigNum(s, e, qc)) \/ qc[1] = 0 \/ qc[Len(qc)] = 0
    BY <2>2 DEF Normal, Numbers, BigNum
  <2>4. HasDigits(BigNum(s, e, qc)) /\ BigNum(s, e, qc).s = s
    BY DEF HasDigits, BigNum
  <2>5. QED
    BY <1>2, <2>1, <2>3, <2>4
<1>3. QED
  BY <1>1, <1>2

(* The digits the division computes, the last one for the rounding.        *)
Limit(g, e) == (IF g.dp + e + 1 < 0 THEN 0 ELSE g.dp + e + 1) + 1

LEMMA QuotientNormal ==
    ASSUME NEW dvd, NEW a, NEW b, NEW D, Dividend(dvd, a, b, D),
           NEW g \in Settings, NEW s \in {-1, 1}, NEW e \in Int, NEW odd \in BOOLEAN, NEW n \in Nat \ {0}, n = Limit(g, e),
           NEW st, Divided(dvd, a, b, D, n, st)
    PROVE  Normal(QuotientOf(g, s, e, 10, odd, st)) /\ QuotientOf(g, s, e, 10, odd, st).s = s
<1> DEFINE q == Quotient(s, e, st.qc)
<1>1. st.qc \in Seq(0..9) /\ st.left \in BOOLEAN /\ g.dp \in Nat
  BY DEF Divided, DivStates, Settings
<1>2. /\ IF st.left THEN Len(st.qc) = n ELSE Len(st.qc) \in 1..n /\ st.qc[Len(st.qc)] # 0
      /\ Len(st.qc) = 1 /\ st.qc[1] = 0 => st.left
      /\ Len(st.qc) > 1 /\ st.qc[1] = 0 => st.qc[2] # 0
  BY DEF Divided
<1>3. Len(st.qc) > 0
  BY <1>2
<1>4. HasDigits(q) /\ q.s = s
  BY <1>1, <1>3, QuotientDigits
<1>5. CASE Len(st.qc) > g.dp + e + 1
  <2>1. QuotientOf(g, s, e, 10, odd, st) = Rnd(g, q, g.dp, 10, odd, st.left)
    BY <1>5 DEF QuotientOf
  <2> HIDE DEF q
  <2>2. g.dp \in Int
    BY <1>1
  <2>3. Normal(Rnd(g, q, g.dp, 10, odd, st.left))
    BY <1>1, <1>4, <2>2, RoundNormal, Zenon
  <2>4. Rnd(g, q, g.dp, 10, odd, st.left).s = s
    BY <1>4 DEF Rnd, BigNum, Zero
  <2>5. QED
    BY <2>1, <2>3, <2>4
<1>6. CASE ~(Len(st.qc) > g.dp + e + 1)
  <2>1. QuotientOf(g, s, e, 10, odd, st) = q
    BY <1>6 DEF QuotientOf
  <2>2. ~st.left
    BY <1>1, <1>2, <1>3, <1>6 DEF Limit
  <2>3. st.qc[Len(st.qc)] # 0 /\ (Len(st.qc) > 1 /\ st.qc[1] = 0 => st.qc[2] # 0)
    BY <1>2, <2>2
  <2>4. Normal(q)
    BY <1>1, <1>3, <2>3, QuotientDigits
  <2>5. QED
    BY <1>4, <2>1, <2>4
<1>7. QED
  BY <1>5, <1>6

LEMMA DivideNormal ==
    ASSUME NEW dvd, NEW a, NEW b, NEW dvs, Decimal(dvs, b), Dividend(dvd, a, b, FromDigits(dvs, 10)),
           NEW g \in Settings, NEW s \in {-1, 1}, NEW e \in Int
    PROVE  Normal(Divide(g, dvd, dvs, e, s, 10, FALSE))
<1> DEFINE n == Limit(g, e)
           D == FromDigits(dvs, 10)
           st == DivideDigits(dvd, b, D, 10, n)
           q == QuotientOf(g, s, e, 10, FALSE, st)
<1>1. g.dp \in Nat
  BY DEF Settings
<1>2. n \in Nat \ {0}
  BY <1>1 DEF Limit
<1>3. Len(dvs) = b
  BY DEF Decimal
<1>4. Divide(g, dvd, dvs, e, s, 10, FALSE) = InRange(g, q)
  BY <1>3 DEF Divide, Limit
<1>5. n = Limit(g, e)
  OBVIOUS
<1> HIDE DEF n, D
<1>6. Divided(dvd, a, b, D, n, st)
  BY <1>2, DivideEnds DEF D
<1> HIDE DEF st
<1>7. Normal(q) /\ q.s = s
  <2>1. Dividend(dvd, a, b, D)
    BY DEF D
  <2> HIDE DEF D
  <2>2. FALSE \in BOOLEAN
    OBVIOUS
  <2>3. \A odd \in BOOLEAN, m \in Nat \ {0} : \A t : m = Limit(g, e) /\ Divided(dvd, a, b, D, m, t)
            => Normal(QuotientOf(g, s, e, 10, odd, t)) /\ QuotientOf(g, s, e, 10, odd, t).s = s
    BY <2>1, QuotientNormal
  <2>4. QED
    BY <1>2, <1>5, <1>6, <2>1, <2>2, <2>3, Zenon
<1> HIDE DEF q
<1>8. Normal(InRange(g, q))
  BY <1>7, ResultInRange
<1>9. QED
  BY <1>4, <1>8

(* The digits of two finite numbers other than zero.                       *)
LEMMA DividendOf ==
    ASSUME NEW x, NEW y, Normal(x), Normal(y), IsFinite(x), IsFinite(y), ~IsZero(x), ~IsZero(y)
    PROVE  /\ Decimal(x.c, Len(x.c)) /\ Decimal(y.c, Len(y.c)) /\ x.e \in Int /\ y.e \in Int
           /\ Dividend(x.c, Len(x.c), Len(y.c), FromDigits(y.c, 10))
<1>1. /\ Leads(x.c) /\ x.c[Len(x.c)] # 0 /\ Len(x.c) \in Nat \ {0} /\ x.e \in Int
      /\ Leads(y.c) /\ Len(y.c) \in Nat \ {0} /\ y.e \in Int
  BY NormalFacts
<1>2. Decimal(x.c, Len(x.c)) /\ Decimal(y.c, Len(y.c)) /\ x.c[1] # 0 /\ y.c[1] # 0
  BY <1>1 DEF Leads, Decimal
<1> DEFINE n == Len(y.c)
<1> HIDE DEF n
<1>3. n \in Nat \ {0} /\ Decimal(y.c, n)
  BY <1>1, <1>2 DEF n
<1>4. FromDigits(y.c, 10) >= Power(10, n - 1) /\ FromDigits(y.c, 10) < Power(10, n) /\ FromDigits(y.c, 10) \in Nat
  BY <1>2, <1>3, LeadsValue
<1>5. FromDigits(y.c, 10) \in Nat \ {0}
  <2>1. n - 1 \in Nat
    BY <1>3
  <2>2. Power(10, n - 1) \in Nat \ {0}
    BY <2>1, TenInt, PowerPositive, Zenon
  <2>3. QED
    BY <1>4, <2>2
<1>6. Dividend(x.c, Len(x.c), n, FromDigits(y.c, 10))
  BY <1>1, <1>2, <1>3, <1>4, <1>5 DEF Dividend
<1>7. QED
  BY <1>1, <1>2, <1>6 DEF n

LEMMA DivNormal ==
    ASSUME NEW g \in Settings, NEW x, NEW y, Normal(x), Normal(y)
    PROVE  Normal(Div(g, x, y))
<1> DEFINE s == IF x.s = y.s THEN 1 ELSE -1
<1>1. s \in {-1, 1} /\ s \in {-1, 0, 1}
  OBVIOUS
<1>2. Normal(NaN) /\ Normal(Infinity(s)) /\ Normal(Zero(s))
  BY <1>1, NormalConstants
<1>3. CASE IsNaN(x) \/ IsNaN(y)
  <2>1. Div(g, x, y) = NaN
    BY <1>3 DEF Div
  <2>2. QED
    BY <1>2, <2>1
<1>4. CASE ~IsNaN(x) /\ ~IsNaN(y) /\ (IsSpecial(x) \/ IsSpecial(y))
  <2>1. Div(g, x, y) \in {NaN, Zero(s), Infinity(s)}
    BY <1>4 DEF Div
  <2>2. QED
    BY <1>2, <2>1
<1>5. CASE ~(IsNaN(x) \/ IsNaN(y)) /\ ~(IsSpecial(x) \/ IsSpecial(y))
  <2>1. IsFinite(x) /\ IsFinite(y) /\ ~IsZero(x) /\ ~IsZero(y)
    BY <1>5 DEF IsSpecial
  <2>2. Div(g, x, y) = Divide(g, x.c, y.c, x.e - y.e, s, 10, FALSE)
    BY <1>5 DEF Div
  <2> HIDE DEF s
  <2>3. /\ Decimal(x.c, Len(x.c)) /\ Decimal(y.c, Len(y.c)) /\ x.e \in Int /\ y.e \in Int
        /\ Dividend(x.c, Len(x.c), Len(y.c), FromDigits(y.c, 10))
    BY <2>1, DividendOf
  <2>4. x.e - y.e \in Int
    BY <2>3
  <2>5. Normal(Divide(g, x.c, y.c, x.e - y.e, s, 10, FALSE))
    BY <1>1, <2>3, <2>4, DivideNormal
  <2>6. QED
    BY <2>2, <2>5
<1>6. QED
  BY <1>3, <1>4, <1>5

(* The settings a call works under and sets back.                          *)
LEMMA ModSettings ==
    ASSUME NEW g \in Settings
    PROVE  /\ [g EXCEPT !.dp = 0, !.rm = 1] \in Settings
           /\ [[g EXCEPT !.dp = 0, !.rm = 1] EXCEPT !.dp = g.dp, !.rm = g.rm] = g
<1> DEFINE during == [g EXCEPT !.dp = 0, !.rm = 1]
           after  == [during EXCEPT !.dp = g.dp, !.rm = g.rm]
<1>1. during \in Settings
  <2> DEFINE d1 == [g EXCEPT !.dp = 0]
  <2>1. d1 \in Settings
    BY DEF Settings
  <2> HIDE DEF d1
  <2>2. [d1 EXCEPT !.rm = 1] \in Settings
    BY <2>1 DEF Settings
  <2>3. during = [d1 EXCEPT !.rm = 1]
    BY DEF d1, Settings
  <2>4. QED
    BY <2>2, <2>3
<1>2. after = [g EXCEPT !.dp = g.dp, !.rm = g.rm]
  BY DEF Settings
<1>3. [g EXCEPT !.dp = g.dp, !.rm = g.rm] = g
  BY DEF Settings
<1>4. QED
  BY <1>1, <1>2, <1>3

LEMMA ModResult ==
    ASSUME NEW g \in Settings, NEW x, NEW y, Normal(x), Normal(y)
    PROVE  Result(Mod(g, x, y).value) /\ Mod(g, x, y).settings = g
<1> DEFINE during == [g EXCEPT !.dp = 0, !.rm = 1]
           after  == [during EXCEPT !.dp = g.dp, !.rm = g.rm]
           q == Div(during, x, y)
<1>1. during \in Settings /\ after = g
  BY ModSettings
<1>2. Mod(g, x, y) = [value |->
           CASE IsNaN(x) \/ IsNaN(y) \/ IsZero(y) -> NaN
             [] ~IsNaN(x) /\ ~IsNaN(y) /\ ~IsZero(y) ->
                   IF IsZero(x) \/ Gt(Abs(y), Abs(x)) THEN x
                   ELSE Minus(after, x, Times(after, q, y)),
         settings |-> after]
  BY DEF Mod
<1> HIDE DEF during, after, q
<1>3. Normal(q)
  BY <1>1, DivNormal DEF q
<1>4. Normal(Times(g, q, y))
  BY <1>3, TimesNormal
<1>5. Result(Minus(g, x, Times(g, q, y)))
  BY <1>4, PlusMinusResult
<1>6. Normal(NaN)
  BY NormalConstants
<1>7. Result(x) /\ Result(NaN)
  BY <1>6 DEF Result
<1>8. QED
  BY <1>1, <1>2, <1>5, <1>7

(* Steps from v0, of which each stays in V.                                *)
Steps(V, v0, F, n, p) == p[0] = v0 /\ \A k \in 1..n : p[k - 1] \in V => p[k] = F[k][p[k - 1]]

LEMMA StepsStay ==
    ASSUME NEW V, NEW v0 \in V, NEW F \in [Nat -> [V -> V]], NEW n \in Nat, NEW p, Steps(V, v0, F, n, p)
    PROVE  \A k \in 0..n : p[k] \in V
<1> DEFINE S == {k \in 0..n : p[k] \in V}
<1>1. p[0] = v0 /\ \A k \in 1..n : p[k - 1] \in V => p[k] = F[k][p[k - 1]]
  BY DEF Steps
<1>2. 0 \in S
  BY <1>1
<1>3. ASSUME NEW k \in 0..(n - 1), k \in S PROVE k + 1 \in S
  <2>1. k + 1 \in 1..n /\ (k + 1) - 1 = k /\ k + 1 \in 0..n /\ k + 1 \in Nat
    OBVIOUS
  <2>2. p[k] \in V
    BY <1>3
  <2>3. p[k + 1] = F[k + 1][p[k]]
    BY <1>1, <2>1, <2>2
  <2>4. F[k + 1][p[k]] \in V
    BY <2>1, <2>2
  <2>5. QED
    BY <2>1, <2>3, <2>4
<1> HIDE DEF S
<1>4. \A k \in 0..n : k \in S
  BY <1>2, <1>3, IntervalInduction
<1>5. QED
  BY <1>4 DEF S

NormalNumbers == {n \in Numbers : Normal(n)}

LEMMA NormalNumber == \A n : n \in NormalNumbers <=> Normal(n)
  BY DEF NormalNumbers, Normal

PowerStates == [i : Nat, x : NormalNumbers, r : NormalNumbers]

LEMMA SquareStays ==
    ASSUME NEW g, NEW st \in PowerStates
    PROVE  MultiplyAndSquare(g, st) \in PowerStates
<1>1. st.i \in Nat /\ Normal(st.x) /\ Normal(st.r) /\ st.i \div 2 \in Nat
  BY NormalNumber DEF PowerStates
<1>2. Normal(Times(g, st.x, st.x)) /\ Normal(Times(g, st.r, st.x))
  BY <1>1, TimesNormal
<1>3. CASE st.i = 0
  BY <1>3 DEF MultiplyAndSquare
<1>4. CASE st.i # 0
  <2> DEFINE h == st.i \div 2
             xx == IF h = 0 THEN st.x ELSE Times(g, st.x, st.x)
             rr == IF st.i % 2 = 1 THEN Times(g, st.r, st.x) ELSE st.r
  <2>1. MultiplyAndSquare(g, st) = [i |-> h, x |-> xx, r |-> rr]
    BY <1>4 DEF MultiplyAndSquare
  <2>2. h \in Nat /\ xx \in NormalNumbers /\ rr \in NormalNumbers
    BY <1>1, <1>2, NormalNumber
  <2> HIDE DEF h, xx, rr
  <2>3. QED
    BY <2>1, <2>2 DEF PowerStates
<1>5. QED
  BY <1>3, <1>4

LEMMA PowerRounds ==
    ASSUME NEW g, NEW x, Normal(x), NEW n \in Nat
    PROVE  \E rounds : /\ IntegerPower(g, x, n) = rounds[n].r
                       /\ rounds[0] = [i |-> n, x |-> x, r |-> ONE]
                       /\ \A k \in 1..n : rounds[k] = MultiplyAndSquare(g, rounds[k - 1])
<1> DEFINE V == PowerStates
           v0 == [i |-> n, x |-> x, r |-> ONE]
           Def(p) == p = [k \in 0..n |-> IF k = 0 THEN v0 ELSE MultiplyAndSquare(g, p[k - 1])]
           rounds == CHOOSE p : Def(p)
           F == [k \in Nat |-> [st \in V |-> MultiplyAndSquare(g, st)]]
<1>1. IntegerPower(g, x, n) = rounds[n].r
  BY DEF IntegerPower
<1>2. v0 \in V
  BY NormalConstants, NormalNumber DEF PowerStates
<1>3. F \in [Nat -> [V -> V]]
  <2>1. \A k \in Nat, st \in V : MultiplyAndSquare(g, st) \in V
    BY SquareStays
  <2> HIDE DEF V
  <2>2. QED
    BY <2>1
<1> HIDE DEF v0, V
<1>4. \E p : Def(p)
  <2>1. \E h : Computes(V, v0, F, n, h)
    <3> HIDE DEF F
    <3>1. QED
      BY <1>2, <1>3, ComputationExists, Zenon
  <2>2. PICK h : Computes(V, v0, F, n, h)
    BY <2>1
  <2>3. h \in [0..n -> V] /\ h[0] = v0 /\ \A k \in 1..n : h[k] = F[k][h[k - 1]]
    BY <2>2 DEF Computes
  <2>4. ASSUME NEW k \in 0..n
        PROVE  h[k] = IF k = 0 THEN v0 ELSE MultiplyAndSquare(g, h[k - 1])
    <3>1. CASE k = 0
      BY <2>3, <3>1
    <3>2. CASE k # 0
      <4>1. k \in 1..n /\ k \in Nat /\ k - 1 \in 0..n
        BY <3>2
      <4>2. h[k - 1] \in V /\ h[k] = F[k][h[k - 1]]
        BY <2>3, <4>1
      <4>3. QED
        BY <3>2, <4>1, <4>2
    <3>3. QED
      BY <3>1, <3>2
  <2>5. Def(h)
    BY <2>3, <2>4
  <2>6. QED
    BY <2>5
<1>5. Def(rounds)
  BY <1>4
<1> HIDE DEF rounds, F
<1>6. rounds[0] = v0 /\ \A k \in 1..n : rounds[k] = MultiplyAndSquare(g, rounds[k - 1])
  <2>1. ASSUME NEW k \in 1..n PROVE rounds[k] = MultiplyAndSquare(g, rounds[k - 1])
    <3>1. k \in 0..n /\ k # 0
      OBVIOUS
    <3>2. QED
      BY <1>5, <3>1
  <2>2. QED
    BY <1>5, <2>1
<1>7. QED
  BY <1>1, <1>6 DEF v0

LEMMA IntegerPowerNormal ==
    ASSUME NEW g, NEW x, Normal(x), NEW n \in Nat
    PROVE  Normal(IntegerPower(g, x, n))
<1> DEFINE V == PowerStates
           v0 == [i |-> n, x |-> x, r |-> ONE]
           F == [k \in Nat |-> [st \in V |-> MultiplyAndSquare(g, st)]]
<1>1. PICK rounds : /\ IntegerPower(g, x, n) = rounds[n].r /\ rounds[0] = v0
                    /\ \A k \in 1..n : rounds[k] = MultiplyAndSquare(g, rounds[k - 1])
  BY PowerRounds
<1>2. v0 \in V
  BY NormalConstants, NormalNumber DEF PowerStates
<1>3. F \in [Nat -> [V -> V]]
  <2>1. \A k \in Nat, st \in V : MultiplyAndSquare(g, st) \in V
    BY SquareStays
  <2> HIDE DEF V
  <2>2. QED
    BY <2>1
<1> HIDE DEF v0, V
<1>4. Steps(V, v0, F, n, rounds)
  <2>1. ASSUME NEW k \in 1..n, rounds[k - 1] \in V PROVE rounds[k] = F[k][rounds[k - 1]]
    <3>1. k \in Nat
      OBVIOUS
    <3>2. QED
      BY <1>1, <2>1, <3>1
  <2>2. QED
    BY <1>1, <2>1 DEF Steps
<1> HIDE DEF F
<1>5. \A k \in 0..n : rounds[k] \in V
  BY <1>2, <1>3, <1>4, StepsStay, Zenon
<1>6. rounds[n] \in PowerStates
  BY <1>5 DEF V
<1>7. QED
  BY <1>1, <1>6, NormalNumber DEF PowerStates

LEMMA PowResult ==
    ASSUME NEW g \in Settings, NEW x, Normal(x), NEW e \in Int
    PROVE  Result(Pow(g, x, e))
<1>1. MAX_POWER \in Nat \ {0}
  BY BigNumberAssumption
<1>2. Normal(ONE) /\ Normal(NaN) /\ Normal(Infinity(1)) /\ Normal(Zero(1))
  BY NormalConstants
<1>3. CASE e < -MAX_POWER \/ e > MAX_POWER
  <2>1. Pow(g, x, e) \in {BigNumberError, NaN, Infinity(1), Zero(1)}
    <3>1. e # 0 /\ e \notin 1..MAX_POWER /\ -e \notin 1..MAX_POWER
      BY <1>1, <1>3
    <3>2. Pow(g, x, e) = IfExceptionsThrow(g, MathPow(x, e > 0))
      BY <1>3, <3>1, Zenon DEF Pow
    <3>3. \A up : MathPow(x, up) \in {NaN, Infinity(1), Zero(1)}
      BY Zenon DEF MathPow
    <3>4. MathPow(x, e > 0) \in {NaN, Infinity(1), Zero(1)}
      BY <3>3, Zenon
    <3>5. \A r : IfExceptionsThrow(g, r) \in {BigNumberError, r}
      BY DEF IfExceptionsThrow
    <3>6. IfExceptionsThrow(g, MathPow(x, e > 0)) \in {BigNumberError, MathPow(x, e > 0)}
      BY <3>5, Zenon
    <3>7. QED
      BY <3>2, <3>4, <3>6, Zenon
  <2>2. QED
    BY <1>2, <2>1 DEF Result
<1>4. CASE e = 0
  BY <1>1, <1>2, <1>4 DEF Pow, Result
<1>5. CASE e \in 1..MAX_POWER
  <2>1. Pow(g, x, e) = IntegerPower(g, x, e) /\ e \in Nat
    BY <1>1, <1>5 DEF Pow
  <2>2. QED
    BY <2>1, IntegerPowerNormal DEF Result
<1>6. CASE -e \in 1..MAX_POWER
  <2>1. Pow(g, x, e) = Div(g, ONE, IntegerPower(g, x, -e)) /\ -e \in Nat
    BY <1>1, <1>6 DEF Pow
  <2>2. Normal(IntegerPower(g, x, -e))
    BY <2>1, IntegerPowerNormal
  <2>3. Normal(Div(g, ONE, IntegerPower(g, x, -e)))
    BY <1>2, <2>2, DivNormal
  <2>4. QED
    BY <2>1, <2>3 DEF Result
<1>7. QED
  BY <1>1, <1>3, <1>4, <1>5, <1>6

LEMMA RoundResult ==
    ASSUME NEW g \in Settings, NEW x, Normal(x), NEW dp \in Int \cup {null}, NEW rm
    PROVE  Result(Round(g, x, dp, rm).value) /\ Round(g, x, dp, rm).settings = g
<1> DEFINE badDp == dp # null /\ (dp < 0 \/ dp > MAX)
           badRm == rm # null /\ (rm < 0 \/ rm > 8)
           d == IF dp = null \/ badDp THEN 0 ELSE dp
           m == IF rm = null \/ badRm THEN g.rm ELSE rm
<1>1. Round(g, x, dp, rm) = IF g.errors /\ (badDp \/ badRm) THEN [value |-> BigNumberError, settings |-> g]
                            ELSE SetMode(g, x, d, m)
  BY DEF Round
<1>2. d \in Int
  OBVIOUS
<1> HIDE DEF badDp, badRm, d, m
<1>3. Normal(SetMode(g, x, d, m).value) /\ SetMode(g, x, d, m).settings = g
  BY <1>2, SetModeNormal
<1>4. QED
  BY <1>1, <1>3 DEF Result

LEMMA CeilFloorNormal ==
    ASSUME NEW g \in Settings, NEW x, Normal(x)
    PROVE  /\ Normal(Ceil(g, x).value) /\ Ceil(g, x).settings = g
           /\ Normal(Floor(g, x).value) /\ Floor(g, x).settings = g
<1>1. 0 \in Int
  OBVIOUS
<1>2. QED
  BY <1>1, SetModeNormal DEF Ceil, Floor

IsSquareRoot(r, n) == r * r <= n /\ (r + 1) * (r + 1) > n

LEMMA SquareRootExists ==
    ASSUME NEW n \in Nat
    PROVE  \E r \in Nat : IsSquareRoot(r, n)
<1> DEFINE S == {k \in Nat : \E r \in Nat : IsSquareRoot(r, k)}
<1>1. 0 \in S
  BY DEF IsSquareRoot
<1>2. ASSUME NEW k \in Nat, k \in S PROVE k + 1 \in S
  <2>1. PICK r \in Nat : IsSquareRoot(r, k)
    BY <1>2
  <2>2. PICK q \in Int : q = r * r
    BY <2>1
  <2>3. (r + 1) * (r + 1) = q + 2 * r + 1 /\ ((r + 1) + 1) * ((r + 1) + 1) = q + 4 * r + 4
    BY <2>1, <2>2
  <2>4. IsSquareRoot(r, k + 1) \/ IsSquareRoot(r + 1, k + 1)
    BY <2>1, <2>2, <2>3 DEF IsSquareRoot
  <2>5. QED
    BY <2>1, <2>4
<1> HIDE DEF S
<1>3. n \in S
  BY <1>1, <1>2, NatSetInduction
<1>4. QED
  BY <1>3 DEF S

LEMMA RootInBounds ==
    ASSUME NEW n \in Nat \ {0}, NEW p \in Nat \ {0}, n < p * p
    PROVE  \E r \in 1..p : IsSquareRoot(r, n)
<1>1. PICK r \in Nat : IsSquareRoot(r, n)
  BY SquareRootExists
<1>2. r # 0
  BY <1>1 DEF IsSquareRoot
<1>3. r <= p
  <2>1. ASSUME r > p PROVE FALSE
    <3>1. PICK d \in Nat : r = p + d
      <4>1. r - p \in Nat /\ r = p + (r - p)
        BY <2>1
      <4>2. QED
        BY <4>1
    <3>2. r * r = p * p + 2 * (p * d) + d * d
      BY <3>1
    <3>3. p * d \in Nat /\ d * d \in Nat /\ p * p \in Nat
      BY <3>1
    <3>4. QED
      BY <1>1, <3>2, <3>3 DEF IsSquareRoot
  <2>2. QED
    BY <2>1
<1>4. QED
  BY <1>1, <1>2, <1>3

(* The first digits of a number, or all of them with zeros behind.         *)
LEMMA LeadingDigits ==
    ASSUME NEW c, Leads(c), NEW len \in Nat \ {0}
    PROVE  \A shift \in Int : Len(c) + shift = len =>
               Leads(IF shift >= 0 THEN c \o Zeros(shift) ELSE SubSeq(c, 1, Len(c) + shift))
               /\ Decimal(IF shift >= 0 THEN c \o Zeros(shift) ELSE SubSeq(c, 1, Len(c) + shift), len)
<1>1. SUFFICES ASSUME NEW shift \in Int, Len(c) + shift = len
               PROVE  LET d == IF shift >= 0 THEN c \o Zeros(shift) ELSE SubSeq(c, 1, Len(c) + shift)
                      IN  Leads(d) /\ Decimal(d, len)
  OBVIOUS
<1>2. c \in Seq(0..9) /\ Len(c) \in Nat \ {0} /\ c[1] # 0
  BY DEF Leads
<1>3. CASE shift >= 0
  <2>1. Zeros(shift) \in Seq(0..9) /\ Len(Zeros(shift)) = shift
    BY <1>3 DEF Zeros
  <2> DEFINE d == c \o Zeros(shift)
  <2>2. d \in Seq(0..9) /\ Len(d) = len /\ d[1] = c[1]
    BY <1>1, <1>2, <2>1
  <2>3. Leads(d) /\ Decimal(d, len)
    BY <1>2, <2>2 DEF Leads, Decimal
  <2>4. QED
    BY <1>3, <2>3
<1>4. CASE shift < 0
  <2> DEFINE d == SubSeq(c, 1, Len(c) + shift)
  <2>1. len \in 1..Len(c)
    BY <1>1, <1>2, <1>4
  <2>2. d \in Seq(0..9) /\ Len(d) = len /\ d[1] = c[1]
    BY <1>1, <1>2, <2>1
  <2>3. Leads(d) /\ Decimal(d, len)
    BY <1>2, <2>2 DEF Leads, Decimal
  <2>4. QED
    BY <1>4, <2>3
<1>5. QED
  BY <1>3, <1>4

(* The digits of a number that is not zero.                                *)
LEMMA ToDigitsLeads ==
    ASSUME NEW n \in Nat \ {0}
    PROVE  Leads(ToDigits(n, 10))
<1>1. PICK k \in Nat \ {0} : /\ HasLength(n, 10, k)
                            /\ ToDigits(n, 10) = [i \in 1..k |-> (n \div Power(10, k - i)) % 10]
                            /\ ToDigits(n, 10) \in Seq(0..(10 - 1)) /\ Len(ToDigits(n, 10)) = k
  BY TenInt, ToDigitsLength
<1>2. 1 \in 1..k /\ 0..(10 - 1) = 0..9 /\ k - 1 \in Nat /\ (k - 1) + 1 = k
  BY <1>1
<1>3. ToDigits(n, 10)[1] = (n \div Power(10, k - 1)) % 10
  BY <1>1, <1>2
<1>4. n < Power(10, k) /\ n >= Power(10, k - 1)
  <2>1. CASE k = 1
    <3>1. Power(10, 0) = 1
      BY TenInt, PowerZero
    <3>2. QED
      BY <1>1, <2>1, <3>1 DEF HasLength
  <2>2. CASE k # 1
    BY <1>1, <2>2 DEF HasLength
  <2>3. QED
    BY <2>1, <2>2
<1>5. Power(10, (k - 1) + 1) = Power(10, k - 1) * 10 /\ Power(10, k - 1) \in Nat \ {0}
  BY <1>2, TenInt, PowerNext, PowerPositive, Zenon
<1>6. (n \div Power(10, k - 1)) % 10 # 0
  <2> DEFINE p == Power(10, k - 1)
  <2>1. p \in Nat \ {0} /\ n >= p /\ n < p * 10
    BY <1>2, <1>4, <1>5
  <2> HIDE DEF p
  <2>2. PICK q \in Int : q = n \div p /\ q * p <= n /\ n < (q + 1) * p
    <3>1. n \div p \in Int /\ n = p * (n \div p) + (n % p) /\ (n % p) \in 0..(p - 1)
      BY <2>1
    <3>2. QED
      BY <2>1, <3>1
  <2>3. q >= 1
    <3>1. ASSUME q + 1 <= 1 PROVE FALSE
      <4>1. (q + 1) * p <= 1 * p
        BY <2>1, <2>2, <3>1
      <4>2. QED
        BY <2>1, <2>2, <4>1
    <3>2. QED
      BY <2>2, <3>1
  <2>4. q < 10
    <3>1. ASSUME q >= 10 PROVE FALSE
      <4>1. q * p >= 10 * p
        BY <2>1, <2>2, <3>1
      <4>2. QED
        BY <2>1, <2>2, <4>1
    <3>2. QED
      BY <2>2, <3>1
  <2>5. (q % 10) # 0
    BY <2>2, <2>3, <2>4
  <2>6. QED
    BY <2>2, <2>5 DEF p
<1>7. QED
  BY <1>1, <1>2, <1>3, <1>6 DEF Leads

LEMMA EstimateNormal ==
    ASSUME NEW x, Normal(x), IsFinite(x), ~IsZero(x)
    PROVE  Normal(Estimate(x)) /\ IsFinite(Estimate(x)) /\ HasDigits(Estimate(x))
<1> DEFINE shift == 2 * Guess - (IF (x.e % 2) = 0 THEN 1 ELSE 0) - Len(x.c)
           c == IF shift >= 0 THEN x.c \o Zeros(shift) ELSE SubSeq(x.c, 1, Len(x.c) + shift)
           n == FromDigits(c, 10)
           root == CHOOSE r \in 1..Power(10, Guess) : r * r <= n /\ (r + 1) * (r + 1) > n
<1>1. Leads(x.c) /\ Len(x.c) \in Nat \ {0} /\ x.e \in Int
  BY NormalFacts
<1>2. Guess \in Nat \ {0}
  BY BigNumberAssumption
<1>3. Estimate(x) = BigNum(1, x.e \div 2, DropTrailingZeros(ToDigits(root, 10)))
  BY DEF Estimate
<1>4. PICK len \in Nat \ {0} : len = Len(x.c) + shift /\ len <= Guess + Guess /\ shift \in Int
  <2>1. Len(x.c) + shift \in Nat \ {0} /\ Len(x.c) + shift <= Guess + Guess /\ shift \in Int
    BY <1>1, <1>2
  <2>2. QED
    BY <2>1
<1> HIDE DEF shift
<1>5. Leads(c) /\ Decimal(c, len)
  BY <1>1, <1>4, LeadingDigits
<1> HIDE DEF c
<1>6. c[1] # 0
  BY <1>5 DEF Leads
<1>7. n >= Power(10, len - 1) /\ n < Power(10, len) /\ n \in Nat
  BY <1>5, <1>6, LeadsValue
<1> HIDE DEF n
<1>8. n \in Nat \ {0} /\ n < Power(10, Guess) * Power(10, Guess) /\ Power(10, Guess) \in Nat \ {0}
  <2>1. len - 1 \in Nat /\ len \in Nat /\ Guess \in Nat /\ Guess + Guess \in Nat /\ len <= Guess + Guess
    BY <1>2, <1>4
  <2>2. Power(10, len - 1) \in Nat \ {0} /\ Power(10, Guess) \in Nat \ {0}
        /\ Power(10, len) \in Nat \ {0} /\ Power(10, Guess + Guess) \in Nat \ {0}
    BY <2>1, TenInt, PowerPositive, Zenon
  <2>3. Power(10, len) <= Power(10, Guess + Guess)
    BY <2>1, TenInt, PowerMonotone, Zenon
  <2>4. Power(10, Guess + Guess) = Power(10, Guess) * Power(10, Guess)
    BY <2>1, TenInt, PowerPlus, Zenon
  <2>5. n < Power(10, Guess + Guess) /\ n \in Nat \ {0}
    BY <1>7, <2>2, <2>3
  <2>6. QED
    BY <2>2, <2>4, <2>5
<1>9. \E r \in 1..Power(10, Guess) : r * r <= n /\ (r + 1) * (r + 1) > n
  BY <1>8, RootInBounds DEF IsSquareRoot
<1>10. root \in 1..Power(10, Guess)
  BY <1>9
<1> HIDE DEF root
<1>11. Leads(ToDigits(root, 10))
  <2>1. root \in Nat \ {0}
    BY <1>8, <1>10
  <2>2. QED
    BY <2>1, ToDigitsLeads
<1>12. Normal(Estimate(x)) /\ Estimate(x).s = 1
  <2>1. x.e \div 2 \in Int /\ 1 \in {-1, 1}
    BY <1>1
  <2>2. QED
    BY <1>3, <1>11, <2>1, NormalOfDigits DEF BigNum
<1>13. IsFinite(Estimate(x))
  <2> DEFINE d == ToDigits(root, 10)
  <2>1. d \in Seq(0..9) /\ 1 \in 1..Len(d) /\ d[1] # 0
    BY <1>11 DEF Leads
  <2> HIDE DEF d
  <2>2. Len(DropTrailingZeros(d)) \in 1..Len(d)
    BY <2>1, DropTrailing
  <2>3. DropTrailingZeros(d) # <<>>
    BY <2>1, <2>2
  <2>4. QED
    BY <1>3, <2>3 DEF d, IsFinite, BigNum
<1>14. QED
  BY <1>12, <1>13, FiniteHasDigits

RootValues == {n \in Numbers : Normal(n) /\ IsFinite(n)} \cup {TypeError, BigNumberError}

(* An iteration goes on from a finite number.                              *)
RootStates == {a \in [r : RootValues, ended : BOOLEAN] : Threw(a.r) => a.ended}

LEMMA RootValue ==
    /\ \A r : r \in RootValues /\ ~Threw(r) => Normal(r) /\ IsFinite(r)
    /\ \A r : Normal(r) /\ IsFinite(r) => r \in RootValues /\ ~Threw(r)
    /\ TypeError \in RootValues /\ BigNumberError \in RootValues
  BY NoThrow DEF RootValues, Normal

LEMMA BetterValue ==
    ASSUME NEW g \in Settings, NEW x, NEW approx, Normal(x), Normal(approx)
    PROVE  Better(g, x, approx) \in RootValues
<1> DEFINE sum == Plus(g, approx, Div(g, x, approx))
           half == BigNum(1, -1, <<5>>)
<1>1. Result(sum)
  BY DivNormal, PlusMinusResult
<1>2. Better(g, x, approx) = HalfOf(g, sum)
  BY DEF Better
<1> HIDE DEF sum
<1>3. Normal(half)
  BY DEF Normal, Numbers, BigNum
<1> HIDE DEF half
<1>4. CASE Threw(sum)
  <2>1. sum \in {TypeError, BigNumberError}
    BY <1>1, <1>4, NoThrow DEF Result
  <2>2. QED
    BY <1>2, <1>4, <2>1, RootValue DEF HalfOf
<1>5. CASE ~Threw(sum)
  <2>1. Normal(sum)
    BY <1>1, <1>5, NoThrow DEF Result
  <2>2. Normal(Times(g, half, sum))
    BY <1>3, <2>1, TimesNormal
  <2>3. HalfOf(g, sum) = WithDigits(Times(g, half, sum))
    BY <1>5 DEF HalfOf, Half, half
  <2>4. QED
    BY <1>2, <2>2, <2>3, RootValue DEF WithDigits
<1>6. QED
  BY <1>4, <1>5

LEMMA NewtonStays ==
    ASSUME NEW g \in Settings, NEW x, Normal(x), NEW i, NEW a \in RootStates
    PROVE  Newton(g, x, i, a) \in RootStates
<1>1. a.r \in RootValues /\ (Threw(a.r) => a.ended)
  BY DEF RootStates
<1>2. CASE a.ended
  BY <1>2 DEF Newton
<1>3. CASE ~a.ended
  <2> DEFINE r == Better(g, x, a.r)
             e == Threw(r) \/ (~Threw(r) /\ Slice(a.r.c, i) = Slice(r.c, i))
  <2>1. Newton(g, x, i, a) = [r |-> r, ended |-> e]
    BY <1>3 DEF Newton, NextApprox
  <2>2. r \in RootValues
    BY <1>1, <1>3, RootValue, BetterValue
  <2>3. Threw(r) => e
    OBVIOUS
  <2>4. e \in BOOLEAN
    BY Zenon
  <2> HIDE DEF r, e
  <2>5. [r |-> r, ended |-> e] \in RootStates
    BY <2>2, <2>3, <2>4 DEF RootStates
  <2>6. QED
    BY <2>1, <2>5
<1>4. QED
  BY <1>2, <1>3

LEMMA RootStays ==
    ASSUME NEW g \in Settings, NEW x, Normal(x), NEW estimate, Normal(estimate), IsFinite(estimate)
    PROVE  Root(g, x, estimate) \in RootStates
<1> DEFINE V == RootStates
           n == MaxRounds
           i == estimate.e + g.dp
           v0 == [r |-> estimate, ended |-> FALSE]
           Def(p) == p = [k \in 0..n |-> IF k = 0 THEN v0 ELSE Newton(g, x, i, p[k - 1])]
           rounds == CHOOSE p : Def(p)
           F == [k \in Nat |-> [st \in V |-> Newton(g, x, i, st)]]
<1>1. Root(g, x, estimate) = rounds[n]
  BY DEF Root
<1>2. v0 \in V
  BY RootValue DEF RootStates
<1>3. n \in Nat
  BY BigNumberAssumption
<1> HIDE DEF i
<1>4. F \in [Nat -> [V -> V]]
  <2>1. \A k \in Nat, st \in V : Newton(g, x, i, st) \in V
    BY NewtonStays
  <2> HIDE DEF V
  <2>2. QED
    BY <2>1
<1> HIDE DEF v0, V, n
<1>5. \E p : Def(p)
  <2>1. \E h : Computes(V, v0, F, n, h)
    <3> HIDE DEF F
    <3>1. QED
      BY <1>2, <1>3, <1>4, ComputationExists, Zenon
  <2>2. PICK h : Computes(V, v0, F, n, h)
    BY <2>1
  <2>3. h \in [0..n -> V] /\ h[0] = v0 /\ \A k \in 1..n : h[k] = F[k][h[k - 1]]
    BY <2>2 DEF Computes
  <2>4. ASSUME NEW k \in 0..n
        PROVE  h[k] = IF k = 0 THEN v0 ELSE Newton(g, x, i, h[k - 1])
    <3>1. CASE k = 0
      BY <2>3, <3>1
    <3>2. CASE k # 0
      <4>1. k \in 1..n /\ k \in Nat /\ k - 1 \in 0..n
        BY <1>3, <3>2
      <4>2. h[k - 1] \in V /\ h[k] = F[k][h[k - 1]]
        BY <2>3, <4>1
      <4>3. QED
        BY <3>2, <4>1, <4>2
    <3>3. QED
      BY <3>1, <3>2
  <2>5. Def(h)
    BY <2>3, <2>4
  <2>6. QED
    BY <2>5
<1>6. Def(rounds)
  BY <1>5
<1> HIDE DEF rounds
<1>7. Steps(V, v0, F, n, rounds)
  <2>1. rounds[0] = v0
    BY <1>3, <1>6
  <2>2. ASSUME NEW k \in 1..n, rounds[k - 1] \in V PROVE rounds[k] = F[k][rounds[k - 1]]
    <3>1. k \in 0..n /\ k # 0 /\ k \in Nat
      BY <1>3
    <3>2. rounds[k] = Newton(g, x, i, rounds[k - 1])
      BY <1>6, <3>1
    <3>3. QED
      BY <2>2, <3>1, <3>2
  <2>3. QED
    BY <2>1, <2>2 DEF Steps
<1> HIDE DEF F
<1>8. \A k \in 0..n : rounds[k] \in V
  BY <1>2, <1>3, <1>4, <1>7, StepsStay, Zenon
<1>9. rounds[n] \in RootStates
  BY <1>3, <1>8 DEF V
<1>10. QED
  BY <1>1, <1>9

LEMMA SqrtResult ==
    ASSUME NEW g \in Settings, NEW x, Normal(x), Sqrt(g, x).value # null
    PROVE  /\ Result(Sqrt(g, x).value) /\ Sqrt(g, x).settings \in Settings
           /\ Sqrt(g, x).settings = IF Threw(Sqrt(g, x).value) THEN [g EXCEPT !.dp = @ + ExtraPlaces] ELSE g
<1> DEFINE during == [g EXCEPT !.dp = @ + ExtraPlaces]
           a == Root(during, x, Estimate(x))
<1>1. during \in Settings
  BY BigNumberAssumption DEF Settings
<1>2. CASE x.s # 1 \/ IsSpecial(x)
  <2>1. Sqrt(g, x) = [value |-> RootOfSpecial(x), settings |-> g]
    BY <1>2 DEF Sqrt
  <2>2. Normal(RootOfSpecial(x))
    BY NormalConstants DEF RootOfSpecial
  <2>3. QED
    BY <2>1, <2>2, NoThrow DEF Result
<1>3. CASE ~(x.s # 1 \/ IsSpecial(x))
  <2>1. Sqrt(g, x) = RoundedRoot(g, during, a)
    BY <1>3 DEF Sqrt
  <2>2. Normal(Estimate(x)) /\ IsFinite(Estimate(x))
    BY <1>3, EstimateNormal DEF IsSpecial
  <2> HIDE DEF during
  <2>3. a \in RootStates
    BY <1>1, <2>2, RootStays
  <2> HIDE DEF a
  <2>4. a.r \in RootValues
    BY <2>3 DEF RootStates
  <2>5. a.ended
    <3>1. ASSUME ~a.ended PROVE FALSE
      <4>1. RoundedRoot(g, during, a) = [value |-> null, settings |-> during]
        BY <3>1 DEF RoundedRoot
      <4>2. Sqrt(g, x).value = null
        BY <2>1, <4>1
      <4>3. QED
        BY <4>2
    <3>2. QED
      BY <3>1
  <2>6. CASE Threw(a.r)
    <3>1. Sqrt(g, x) = [value |-> a.r, settings |-> during]
      BY <2>1, <2>5, <2>6 DEF RoundedRoot
    <3>2. a.r \in {TypeError, BigNumberError}
      BY <2>4, <2>6, NoThrow DEF RootValues
    <3>3. QED
      BY <1>1, <2>6, <3>1, <3>2 DEF Result, during
  <2>7. CASE ~Threw(a.r)
    <3>1. Sqrt(g, x) = [value |-> Rnd(g, a.r, g.dp, 10, FALSE, FALSE), settings |-> g]
      BY <2>1, <2>5, <2>7 DEF RoundedRoot
    <3>2. HasDigits(a.r)
      BY <2>4, <2>7, RootValue, FiniteHasDigits
    <3>3. FALSE \in BOOLEAN /\ g.dp \in Int
      BY DEF Settings
    <3>4. Normal(Rnd(g, a.r, g.dp, 10, FALSE, FALSE))
      BY <3>2, <3>3, RoundNormal, Zenon
    <3> DEFINE r == Rnd(g, a.r, g.dp, 10, FALSE, FALSE)
    <3>5. Normal(r) /\ Sqrt(g, x) = [value |-> r, settings |-> g]
      BY <3>1, <3>4
    <3> HIDE DEF r
    <3>6. QED
      BY <3>5, NoThrow DEF Result
  <2>8. QED
    BY <2>6, <2>7
<1>4. QED
  BY <1>2, <1>3

IsText(t) ==
    /\ t.neg \in BOOLEAN /\ t.int \in Seq(0..9) /\ t.frac \in Seq(0..9)
    /\ t.exp \in Int \cup {null}

LEMMA FromDigitsOfNormal ==
    ASSUME NEW g, NEW s \in {-1, 1}, NEW e \in Int, NEW n \in Seq(0..9)
    PROVE  Normal(FromDigitsOf(g, s, e, n, LeadingZeros(n)))
<1> DEFINE z == LeadingZeros(n)
<1>1. Normal(Infinity(s)) /\ Normal(Zero(s))
  BY NormalConstants
<1>2. CASE e > g.maxE \/ z = Len(n) \/ e < g.minE
  BY <1>1, <1>2 DEF FromDigitsOf
<1>3. CASE ~(e > g.maxE \/ z = Len(n) \/ e < g.minE)
  <2> DEFINE c == SubSeq(n, z + 1, Len(n))
  <2>1. FromDigitsOf(g, s, e, n, z) = BigNum(s, e, DropTrailingZeros(c))
    BY <1>3 DEF FromDigitsOf
  <2>2. z \in 0..(Len(n) - 1) /\ n[z + 1] # 0
    BY <1>3, Leading
  <2> HIDE DEF z
  <2>3. Leads(c)
    <3>1. z + 1 \in 1..Len(n) /\ Len(n) \in Nat
      BY <2>2
    <3>2. c \in Seq(0..9) /\ Len(c) = Len(n) - (z + 1) + 1 /\ c[1] = n[z + 1]
      BY <2>2, <3>1
    <3> HIDE DEF c
    <3>3. Len(c) > 0
      BY <3>1, <3>2
    <3>4. QED
      BY <2>2, <3>2, <3>3 DEF Leads
  <2> HIDE DEF c
  <2>4. Normal(BigNum(s, e, DropTrailingZeros(c)))
    BY <2>3, NormalOfDigits
  <2>5. QED
    BY <2>1, <2>4 DEF z
<1>4. QED
  BY <1>2, <1>3

LEMMA FromNumeralNormal ==
    ASSUME NEW g, NEW t, IsText(t)
    PROVE  Normal(FromNumeral(g, t))
<1> DEFINE n == t.int \o t.frac
           s == IF t.neg THEN -1 ELSE 1
           e == Len(t.int) + ExponentOrZero(t) - (LeadingZeros(n) + 1)
<1>1. t.int \in Seq(0..9) /\ t.frac \in Seq(0..9) /\ t.exp \in Int \cup {null}
  BY DEF IsText
<1>2. n \in Seq(0..9) /\ s \in {-1, 1}
  BY <1>1
<1>3. ExponentOrZero(t) \in Int /\ Len(t.int) \in Nat
  BY <1>1 DEF ExponentOrZero
<1>4. FromNumeral(g, t) = FromDigitsOf(g, s, e, n, LeadingZeros(n))
  BY DEF FromNumeral
<1> HIDE DEF n, s
<1>5. LeadingZeros(n) \in Int
  <2>1. CASE LeadingZeros(n) = Len(n)
    BY <1>2, <2>1
  <2>2. CASE LeadingZeros(n) # Len(n)
    BY <1>2, <2>2, Leading
  <2>3. QED
    BY <2>1, <2>2
<1>6. e \in Int
  BY <1>3, <1>5
<1> HIDE DEF e
<1>7. QED
  BY <1>2, <1>4, <1>6, FromDigitsOfNormal

LEMMA FromWordNormal == \A t : Normal(FromWord(t))
  BY NormalConstants DEF FromWord

LEMMA NewResult ==
    ASSUME NEW g, NEW t, IsText(t), NEW isNum \in BOOLEAN
    PROVE  Result(New(g, t, isNum)) /\ (~isNum => Normal(New(g, t, isNum)))
  BY FromNumeralNormal, FromWordNormal DEF New, Result

----------------------------------------------------------------------------
(* Conversion of a base.                                                   *)

LEMMA ValueNat ==
    ASSUME NEW b \in Nat, NEW c \in Seq(0..9)
    PROVE  FromDigits(c, b) \in Nat
<1> DEFINE S == {k \in Nat : Prefix(c, b, k) \in Nat}
<1>1. Decimal(c, Len(c)) /\ Len(c) \in Nat
  BY DEF Decimal
<1>2. IntDigits(c) /\ BaseDigits(10, c)
  BY <1>1, TenDigits
<1>3. 0 \in S
  <2>1. Prefix(c, b, 0) = 0
    BY <1>2, PrefixZero
  <2>2. QED
    BY <2>1
<1>4. ASSUME NEW k \in Nat, k \in S PROVE k + 1 \in S
  <2>1. Prefix(c, b, k + 1) = Prefix(c, b, k) * b + Digit(c, k + 1)
    BY <1>2, PrefixNext
  <2>2. Digit(c, k + 1) \in Nat
    <3>1. k + 1 \in Nat
      OBVIOUS
    <3>2. Digit(c, k + 1) \in 0..(10 - 1)
      BY <1>2, <3>1 DEF BaseDigits
    <3>3. QED
      BY <3>2
  <2>3. Prefix(c, b, k) \in Nat /\ Prefix(c, b, k) * b \in Nat
    BY <1>4
  <2>4. QED
    BY <2>1, <2>2, <2>3
<1> HIDE DEF S
<1>5. Len(c) \in S
  BY <1>1, <1>3, <1>4, NatSetInduction
<1>6. QED
  BY <1>5 DEF S, FromDigits

LEMMA ToTen ==
    ASSUME NEW n \in Nat
    PROVE  ToDigits(n, 10) \in Seq(0..9)
<1>1. ToDigits(n, 10) \in Seq(0..(10 - 1))
  BY TenInt, ToDigitsLength
<1>2. 0..(10 - 1) = 0..9
  OBVIOUS
<1>3. QED
  BY <1>1, <1>2

LEMMA ZerosSeq == ASSUME NEW n \in Int PROVE Zeros(n) \in Seq(0..9)
<1>1. CASE n \in Nat
  BY <1>1 DEF Zeros
<1>2. CASE n \notin Nat
  <2>1. 1..n = 1..0
    BY <1>2
  <2>2. Zeros(n) = Zeros(0)
    BY <2>1 DEF Zeros
  <2>3. Zeros(0) \in Seq(0..9)
    BY DEF Zeros
  <2>4. QED
    BY <2>2, <2>3
<1>3. QED
  BY <1>1, <1>2

(* A quotient of any digits, which need not be in normal form.             *)
IsQuotient(f) == f.e \in Int /\ f.c \in Seq(0..9)

LEMMA DivideSomeDigits ==
    ASSUME NEW dvd \in Seq(0..9), NEW b \in Nat, NEW D \in Nat \ {0}, NEW n \in Nat \ {0},
           Prefix(dvd, 10, b) \in 0..(10 * D - 1)
    PROVE  LET st == DivideDigits(dvd, b, D, 10, n)
           IN  st.qc \in Seq(0..9) /\ Len(st.qc) > 0 /\ st.left \in BOOLEAN
<1>1. BaseDigits(10, dvd) /\ n \in Nat
  <2>1. Decimal(dvd, Len(dvd))
    BY DEF Decimal
  <2>2. QED
    BY <2>1, TenDigits
<1>2. PICK f : /\ Divides(dvd, b, D, n, f) /\ \A k \in 0..n : f[k] \in DivStates(D)
               /\ DivideDigits(dvd, b, D, 10, n) = f[n]
  BY <1>1, DivideHasSteps, ZenonT(60)
<1>3. \A k \in 0..n : f[k].qc \in Seq(0..9) /\ f[k].left \in BOOLEAN
  BY <1>2 DEF DivStates
<1> DEFINE S == {k \in 0..n : k = 0 \/ Len(f[k].qc) > 0}
<1>4. 0 \in S
  OBVIOUS
<1>5. ASSUME NEW k \in 0..(n - 1), k \in S PROVE k + 1 \in S
  <2>1. k + 1 \in 1..n /\ (k + 1) - 1 = k /\ k + 1 \in 0..n /\ k \in 0..n
    OBVIOUS
  <2>2. f[k + 1] = DivideStep(dvd, b, D, 10, k + 1, f[k])
    BY <1>2, <2>1 DEF Divides
  <2>3. CASE ~f[k].left
    <3>1. f[0].left
      BY <1>2 DEF Divides
    <3>2. k # 0 /\ f[k + 1] = f[k]
      BY <2>2, <2>3, <3>1 DEF DivideStep
    <3>3. QED
      BY <1>5, <2>1, <3>2
  <2>4. CASE f[k].left
    <3>1. f[k + 1].qc = Append(f[k].qc, f[k].rem \div D)
      BY <2>2, <2>4 DEF DivideStep
    <3>2. Len(f[k + 1].qc) = Len(f[k].qc) + 1 /\ Len(f[k].qc) \in Nat
      BY <1>3, <2>1, <3>1
    <3>3. QED
      BY <2>1, <3>2, SMTT(30)
  <2>5. QED
    BY <2>3, <2>4
<1> HIDE DEF S
<1>6. \A k \in 0..n : k \in S
  BY <1>1, <1>4, <1>5, IntervalInduction
<1>7. n \in S /\ n \in 0..n
  BY <1>6
<1>8. QED
  BY <1>2, <1>3, <1>7 DEF S

LEMMA FractionDigits ==
    ASSUME NEW g \in Settings, NEW dvd \in Seq(0..9), NEW m \in Nat \ {0}, NEW s \in {-1, 1},
           NEW isOdd \in BOOLEAN
    PROVE  IsQuotient(FractionIn(g, dvd, ToDigits(m, 10), 10, s, isOdd))
<1> DEFINE dvs == ToDigits(m, 10)
           e == Len(dvd) - Len(dvs)
           b == Len(dvs)
           D == FromDigits(dvs, 10)
           n == Limit(g, e)
           st == DivideDigits(dvd, b, D, 10, n)
           q == QuotientOf(g, s, e, 10, isOdd, st)
<1>1. Leads(dvs)
  BY ToDigitsLeads
<1> HIDE DEF dvs
<1>2. b \in Nat \ {0} /\ Decimal(dvs, b) /\ dvs[1] # 0 /\ e \in Int
  BY <1>1 DEF Leads, Decimal
<1>3. g.dp \in Nat
  BY DEF Settings
<1>4. FractionIn(g, dvd, dvs, 10, s, isOdd) = InRange(g, q)
  BY DEF FractionIn, Divide, Limit
<1>5. n \in Nat \ {0}
  BY <1>2, <1>3 DEF Limit
<1> HIDE DEF e, b
<1>6. D >= Power(10, b - 1) /\ D < Power(10, b) /\ D \in Nat
  BY <1>2, LeadsValue
<1> HIDE DEF D, n
<1>7. Prefix(dvd, 10, b) \in 0..(10 * D - 1) /\ D \in Nat \ {0}
  <2>1. BaseDigits(10, dvd)
    <3>1. Decimal(dvd, Len(dvd))
      BY DEF Decimal
    <3>2. QED
      BY <3>1, TenDigits
  <2>2. b - 1 \in Nat /\ (b - 1) + 1 = b /\ b \in Nat
    BY <1>2
  <2>3. Prefix(dvd, 10, b) \in Nat /\ Prefix(dvd, 10, b) < Power(10, b)
    BY <2>1, <2>2, TenInt, PrefixBounds, Zenon
  <2>4. Power(10, (b - 1) + 1) = Power(10, b - 1) * 10 /\ Power(10, b - 1) \in Nat \ {0}
    BY <2>2, TenInt, PowerNext, PowerPositive, Zenon
  <2>5. QED
    BY <1>6, <2>2, <2>3, <2>4
<1>8. st.qc \in Seq(0..9) /\ Len(st.qc) > 0 /\ st.left \in BOOLEAN
  <2>1. b \in Nat
    BY <1>2
  <2>2. QED
    BY <1>5, <1>7, <2>1, DivideSomeDigits
<1> HIDE DEF st
<1>9. HasDigits(Quotient(s, e, st.qc))
  BY <1>2, <1>8, QuotientDigits
<1>10. IsQuotient(q)
  <2> DEFINE u == Quotient(s, e, st.qc)
  <2>1. CASE b = b /\ Len(st.qc) > g.dp + e + 1
    <3>1. q = Rnd(g, u, g.dp, 10, isOdd, st.left)
      BY <2>1 DEF QuotientOf
    <3> HIDE DEF u, q
    <3>2. g.dp \in Int
      BY <1>3
    <3>3. Normal(Rnd(g, u, g.dp, 10, isOdd, st.left))
      BY <1>8, <1>9, <3>2, RoundNormal, Zenon DEF u
    <3>4. QED
      BY <3>1, <3>3 DEF Normal, Numbers, IsQuotient
  <2>2. CASE ~(Len(st.qc) > g.dp + e + 1)
    <3>1. q = u
      BY <2>2 DEF QuotientOf
    <3>2. QED
      BY <1>9, <3>1 DEF HasDigits, IsQuotient
  <2>3. QED
    BY <2>1, <2>2
<1> HIDE DEF q
<1>11. IsQuotient(InRange(g, q))
  <2>2. \A k : Infinity(k).e = 0 /\ Infinity(k).c = <<>> /\ Zero(k).e = 0 /\ Zero(k).c = <<0>>
    BY DEF Infinity, Zero, BigNum
  <2>3. 0 \in Int /\ <<>> \in Seq(0..9) /\ <<0>> \in Seq(0..9)
    OBVIOUS
  <2>4. \A k : IsQuotient(Infinity(k)) /\ IsQuotient(Zero(k))
    BY <2>2, <2>3 DEF IsQuotient
  <2>5. InRange(g, q) \in {Infinity(q.s), Zero(q.s), q}
    BY DEF InRange
  <2>6. QED
    BY <1>10, <2>4, <2>5
<1>12. QED
  BY <1>4, <1>11 DEF dvs

(* A power of a base is Infinity, or it has digits in front of the point.  *)
Whole(x) == Normal(x) /\ ~IsNaN(x) /\ (IsFinite(x) => x.e >= 0 /\ ~IsZero(x))

LEMMA WholeTimes ==
    ASSUME NEW g \in Settings, NEW x, NEW y, Whole(x), Whole(y)
    PROVE  Whole(Times(g, x, y))
<1> DEFINE s == IF x.s = y.s THEN 1 ELSE -1
<1>1. Normal(x) /\ Normal(y) /\ ~IsNaN(x) /\ ~IsNaN(y)
  BY DEF Whole
<1>2. Normal(Times(g, x, y))
  BY <1>1, TimesNormal
<1>3. Whole(Infinity(1)) /\ Whole(Infinity(-1))
  BY NormalConstants DEF Whole, IsNaN, IsFinite, Infinity, BigNum
<1>4. CASE ~IsFinite(x) \/ ~IsFinite(y)
  <2>1. ~IsZero(x) /\ ~IsZero(y)
    BY DEF Whole, IsZero
  <2>2. Times(g, x, y) = Infinity(s)
    BY <1>1, <1>4, <2>1 DEF Times, IsSpecial
  <2>3. QED
    BY <1>3, <2>2
<1>5. CASE IsFinite(x) /\ IsFinite(y)
  <2>1. x.e \in Nat /\ y.e \in Nat /\ ~IsZero(x) /\ ~IsZero(y)
    BY <1>1, <1>5, NormalFacts DEF Whole
  <2>2. HasDigits(x) /\ HasDigits(y) /\ x.c[1] # 0 /\ y.c[1] # 0
    BY <1>1, <1>5, <2>1, FiniteNeg
  <2>3. PICK a \in Nat \ {0} : a = Len(x.c) /\ Decimal(x.c, a)
    BY <2>2 DEF HasDigits, Decimal
  <2>4. PICK b \in Nat \ {0} : b = Len(y.c) /\ Decimal(y.c, b)
    BY <2>2 DEF HasDigits, Decimal
  <2>5. PICK e \in Nat : e = x.e + y.e
    BY <2>1
  <2>6. PICK m \in Int : m = s * (FromDigits(x.c, 10) * FromDigits(y.c, 10))
    <3>1. FromDigits(x.c, 10) \in Nat /\ FromDigits(y.c, 10) \in Nat
      BY <2>2, ValueInt
    <3>2. QED
      BY <3>1
  <2>7. PICK p \in Int : p = e - (a + b) + 2
    OBVIOUS
  <2>8. PICK q : q = ProductOf(s, e, Product(x.c, y.c))
    OBVIOUS
  <2>9. Times(g, x, y) = InRange(g, q)
    BY <1>1, <1>5, <2>1, <2>5, <2>8 DEF Times, IsSpecial
  <2>10. q.c[1] # 0
    <3>1. PICK xc : xc = x.c /\ Decimal(xc, a) /\ xc[1] # 0
      BY <2>2, <2>3
    <3>2. PICK yc : yc = y.c /\ Decimal(yc, b) /\ yc[1] # 0
      BY <2>2, <2>4
    <3>3. PICK t \in {-1, 1} : t = s
      OBVIOUS
    <3>4. e \in Int /\ m = t * (FromDigits(xc, 10) * FromDigits(yc, 10))
      BY <2>6, <3>1, <3>2, <3>3
    <3>5. ProductOf(t, e, Product(xc, yc)).c[1] # 0
      <4>1. \A gg : Normal(InRange(gg, ProductOf(t, e, Product(xc, yc))))
                    /\ IsResult(gg, InRange(gg, ProductOf(t, e, Product(xc, yc))), m, p)
                    /\ ProductOf(t, e, Product(xc, yc)).c[1] # 0
        BY <2>7, <3>1, <3>2, <3>4, ProductGives, ZenonT(60)
      <4>2. QED
        BY <4>1
    <3>6. QED
      BY <2>8, <3>1, <3>2, <3>3, <3>5
  <2>11. q.s = s /\ q.e \in {e, e + 1}
    BY <2>8 DEF ProductOf, BigNum
  <2>12. ~(q.e < g.minE) /\ q.e >= 0
    BY <2>11 DEF Settings
  <2>13. InRange(g, q) = Infinity(s) \/ InRange(g, q) = q
    BY <2>11, <2>12 DEF InRange
  <2>14. CASE InRange(g, q) = Infinity(s)
    BY <1>3, <2>9, <2>14
  <2>15. CASE InRange(g, q) = q
    <3>1. Normal(q) /\ ~IsZero(q) /\ ~IsNaN(q)
      BY <1>2, <2>9, <2>10, <2>11, <2>15 DEF IsZero, IsNaN
    <3>2. QED
      BY <2>9, <2>12, <2>15, <3>1 DEF Whole
  <2>16. QED
    BY <2>13, <2>14, <2>15
<1>6. QED
  BY <1>4, <1>5

WholeNumbers == {n \in Numbers : Whole(n)}

LEMMA WholeNumber == \A n : n \in WholeNumbers <=> Whole(n)
  BY DEF WholeNumbers, Whole, Normal

WholeStates == [i : Nat, x : WholeNumbers, r : WholeNumbers]

LEMMA SquareStaysWhole ==
    ASSUME NEW g \in Settings, NEW st \in WholeStates
    PROVE  MultiplyAndSquare(g, st) \in WholeStates
<1>1. st.i \in Nat /\ Whole(st.x) /\ Whole(st.r) /\ st.i \div 2 \in Nat
  BY WholeNumber DEF WholeStates
<1>2. Whole(Times(g, st.x, st.x)) /\ Whole(Times(g, st.r, st.x))
  BY <1>1, WholeTimes
<1>3. CASE st.i = 0
  BY <1>3 DEF MultiplyAndSquare
<1>4. CASE st.i # 0
  <2> DEFINE h == st.i \div 2
             xx == IF h = 0 THEN st.x ELSE Times(g, st.x, st.x)
             rr == IF st.i % 2 = 1 THEN Times(g, st.r, st.x) ELSE st.r
  <2>1. MultiplyAndSquare(g, st) = [i |-> h, x |-> xx, r |-> rr]
    BY <1>4 DEF MultiplyAndSquare
  <2>2. h \in Nat /\ xx \in WholeNumbers /\ rr \in WholeNumbers
    BY <1>1, <1>2, WholeNumber
  <2> HIDE DEF h, xx, rr
  <2>3. QED
    BY <2>1, <2>2 DEF WholeStates
<1>5. QED
  BY <1>3, <1>4

LEMMA WholePower ==
    ASSUME NEW g \in Settings, NEW x, Whole(x), NEW n \in Nat
    PROVE  Whole(IntegerPower(g, x, n))
<1> DEFINE V == WholeStates
           v0 == [i |-> n, x |-> x, r |-> ONE]
           F == [k \in Nat |-> [st \in V |-> MultiplyAndSquare(g, st)]]
<1>1. PICK rounds : /\ IntegerPower(g, x, n) = rounds[n].r /\ rounds[0] = v0
                    /\ \A k \in 1..n : rounds[k] = MultiplyAndSquare(g, rounds[k - 1])
  BY PowerRounds DEF Whole
<1>2. v0 \in V
  <2>1. Whole(ONE)
    BY NormalConstants DEF Whole, IsNaN, IsZero, IsFinite, ONE, BigNum
  <2>2. QED
    BY <2>1, WholeNumber DEF WholeStates
<1>3. F \in [Nat -> [V -> V]]
  <2>1. \A k \in Nat, st \in V : MultiplyAndSquare(g, st) \in V
    BY SquareStaysWhole
  <2> HIDE DEF V
  <2>2. QED
    BY <2>1
<1> HIDE DEF v0, V
<1>4. Steps(V, v0, F, n, rounds)
  <2>1. ASSUME NEW k \in 1..n, rounds[k - 1] \in V PROVE rounds[k] = F[k][rounds[k - 1]]
    <3>1. k \in Nat
      OBVIOUS
    <3>2. QED
      BY <1>1, <2>1, <3>1
  <2>2. QED
    BY <1>1, <2>1 DEF Steps
<1> HIDE DEF F
<1>5. \A k \in 0..n : rounds[k] \in V
  BY <1>2, <1>3, <1>4, StepsStay, Zenon
<1>6. rounds[n] \in WholeStates
  BY <1>5 DEF V
<1>7. QED
  BY <1>1, <1>6, WholeNumber DEF WholeStates

(* A number made of the digits of a positive integer.                      *)
LEMMA WholeOfDigits ==
    ASSUME NEW g \in Settings, NEW c, Leads(c)
    PROVE  Whole(OfDigits(g, c))
<1> DEFINE t == Numeral(FALSE, c, <<>>, null)
<1>1. c \in Seq(0..9) /\ Len(c) \in Nat \ {0} /\ c[1] # 0
  BY DEF Leads
<1>2. t.int = c /\ t.frac = <<>> /\ t.neg = FALSE /\ t.exp = null
  BY DEF Numeral
<1>3. c \o <<>> = c
  BY <1>1
<1>4. LeadingZeros(c) = 0
  <2>1. 1 \in Significant(c) /\ Significant(c) # {}
    BY <1>1 DEF Significant
  <2>2. LeadingZeros(c) # Len(c)
    BY <1>1, <2>1, NoLeading
  <2>3. /\ LeadingZeros(c) \in 0..(Len(c) - 1)
        /\ \A i \in 1..LeadingZeros(c) : c[i] = 0
    BY <1>1, <2>2, Leading
  <2>4. ~(1 \in 1..LeadingZeros(c))
    BY <1>1, <2>3
  <2>5. QED
    BY <2>3, <2>4
<1>5. PICK e \in Nat : e = Len(c) - 1
  BY <1>1
<1>6. OfDigits(g, c) = FromDigitsOf(g, 1, e, c, 0)
  <2>1. ExponentOrZero(t) = 0
    BY <1>2 DEF ExponentOrZero
  <2> HIDE DEF t
  <2>2. Len(c) + 0 - (0 + 1) = e
    BY <1>1, <1>5
  <2>3. FromNumeral(g, t) = FromDigitsOf(g, 1, Len(c) + 0 - (0 + 1), c, 0)
    BY <1>2, <1>3, <1>4, <2>1 DEF FromNumeral
  <2>4. QED
    BY <2>2, <2>3 DEF OfDigits, t
<1>7. Normal(OfDigits(g, c))
  <2>1. IsText(t)
    BY <1>1 DEF IsText, Numeral
  <2>2. QED
    BY <2>1, FromNumeralNormal DEF OfDigits
<1>8. ~(e < g.minE) /\ 0 # Len(c)
  BY <1>1, <1>5 DEF Settings
<1>9. CASE e > g.maxE
  <2>1. OfDigits(g, c) = Infinity(1)
    BY <1>6, <1>9 DEF FromDigitsOf
  <2>2. QED
    BY <2>1, NormalConstants DEF Whole, IsNaN, IsFinite, Infinity, BigNum
<1>10. CASE ~(e > g.maxE)
  <2> DEFINE d == DropTrailingZeros(SubSeq(c, 0 + 1, Len(c)))
  <2>1. OfDigits(g, c) = BigNum(1, e, d)
    BY <1>6, <1>8, <1>10 DEF FromDigitsOf
  <2>2. SubSeq(c, 0 + 1, Len(c)) = c
    BY <1>1
  <2>3. d[1] # 0
    <3>1. Decimal(c, Len(c))
      BY <1>1 DEF Decimal
    <3>2. QED
      BY <1>1, <2>2, <3>1, FirstStays
  <2> HIDE DEF d
  <2>4. QED
    BY <1>5, <1>7, <2>1, <2>3 DEF Whole, IsNaN, IsZero, BigNum
<1>11. QED
  BY <1>9, <1>10

(* The digits in front of the point.                                       *)
LEMMA PlainDigits ==
    ASSUME NEW x, Normal(x), IsFinite(x)
    PROVE  Plain(x).int \in Seq(0..9) /\ (Whole(x) => Leads(Plain(x).int))
<1>1. x.e \in Int /\ x.c \in Seq(0..9) /\ Len(x.c) \in Nat \ {0} /\ (Whole(x) => x.c[1] # 0 /\ ~(x.e < 0))
  BY NormalFacts DEF Whole, Leads
<1>2. PICK c \in Seq(0..9) : c = x.c /\ Len(c) \in Nat \ {0}
  BY <1>1
<1>3. PICK e \in Int : e = x.e
  BY <1>1
<1>4. PICK n : n = Plain(x).int
  OBVIOUS
<1>5. CASE e < 0
  <2>1. n = <<0>>
    BY <1>3, <1>4, <1>5 DEF Plain, Numeral
  <2>2. n \in Seq(0..9)
    BY <2>1
  <2>3. QED
    BY <1>1, <1>3, <1>4, <1>5, <2>2
<1>6. CASE ~(e < 0)
  <2>1. n \in Seq(0..9) /\ Len(n) > 0 /\ n[1] = c[1]
    <3>1. CASE e + 1 >= Len(c)
      <4>1. n = c \o Zeros(e + 1 - Len(c))
        BY <1>2, <1>3, <1>4, <1>6, <3>1 DEF Plain, Numeral
      <4>2. PICK z \in Seq(0..9) : z = Zeros(e + 1 - Len(c))
        <5>1. e + 1 - Len(c) \in Int
          BY <1>2
        <5>2. QED
          BY <5>1, ZerosSeq
      <4>3. n = c \o z
        BY <4>1, <4>2
      <4>4. QED
        BY <1>2, <4>3
    <3>2. CASE ~(e + 1 >= Len(c))
      <4>1. n = SubSeq(c, 1, e + 1)
        BY <1>2, <1>3, <1>4, <1>6, <3>2 DEF Plain, Numeral
      <4>2. PICK k \in 1..Len(c) : k = e + 1
        BY <1>2, <1>6, <3>2
      <4>3. n = SubSeq(c, 1, k)
        BY <4>1, <4>2
      <4>4. SubSeq(c, 1, k) \in Seq(0..9) /\ Len(SubSeq(c, 1, k)) = k /\ SubSeq(c, 1, k)[1] = c[1]
        <5>1. k \in Nat /\ k >= 1 /\ k <= Len(c)
          BY <1>2
        <5>2. SubSeq(c, 1, k) \in Seq(0..9)
          BY <5>1
        <5>3. Len(SubSeq(c, 1, k)) = k
          BY <5>1
        <5>4. SubSeq(c, 1, k)[1] = c[1]
          BY <5>1
        <5>5. QED
          BY <5>2, <5>3, <5>4
      <4>5. QED
        BY <4>3, <4>4
    <3>3. QED
      BY <3>1, <3>2
  <2>2. QED
    BY <1>1, <1>2, <1>4, <2>1 DEF Leads
<1>7. QED
  BY <1>5, <1>6

LEMMA LettersValue == FromDigits(LetterDigits, 10) = 14705124
<1> DEFINE c == LetterDigits
           V(k) == Prefix(c, 10, k)
<1>1. IntDigits(c) /\ Len(c) = 8
  BY DEF IntDigits, Digit, LetterDigits
<1>2. /\ Digit(c, 1) = -1 /\ Digit(c, 2) = 23 /\ Digit(c, 3) = 15 /\ Digit(c, 4) = 18
      /\ Digit(c, 5) = 23 /\ Digit(c, 6) = 18 /\ Digit(c, 7) = 29 /\ Digit(c, 8) = 34
  BY DEF Digit, LetterDigits
<1> HIDE DEF c
<1>3. V(0) = 0 /\ \A k \in Nat : V(k + 1) = V(k) * 10 + Digit(c, k + 1)
  BY <1>1, TenInt, PrefixZero, PrefixNext
<1> HIDE DEF V
<1>4. V(1) = -1 /\ V(2) = 13 /\ V(3) = 145 /\ V(4) = 1468
  <2>1. V(0 + 1) = V(0) * 10 + Digit(c, 0 + 1)
    BY <1>3
  <2>2. V(1 + 1) = V(1) * 10 + Digit(c, 1 + 1)
    BY <1>3
  <2>3. V(2 + 1) = V(2) * 10 + Digit(c, 2 + 1)
    BY <1>3
  <2>4. V(3 + 1) = V(3) * 10 + Digit(c, 3 + 1)
    BY <1>3
  <2>5. QED
    BY <1>2, <1>3, <2>1, <2>2, <2>3, <2>4
<1>5. V(5) = 14703 /\ V(6) = 147048 /\ V(7) = 1470509 /\ V(8) = 14705124
  <2>1. V(4 + 1) = V(4) * 10 + Digit(c, 4 + 1)
    BY <1>3
  <2>2. V(5 + 1) = V(5) * 10 + Digit(c, 5 + 1)
    BY <1>3
  <2>3. V(6 + 1) = V(6) * 10 + Digit(c, 6 + 1)
    BY <1>3
  <2>4. V(7 + 1) = V(7) * 10 + Digit(c, 7 + 1)
    BY <1>3
  <2>5. QED
    BY <1>2, <1>4, <2>1, <2>2, <2>3, <2>4
<1>6. QED
  BY <1>1, <1>5 DEF FromDigits, V, c

(* The divisor is never zero.                                              *)
LEMMA DivisorIs ==
    ASSUME NEW power, Whole(power)
    PROVE  \E m \in Nat \ {0} : DivisorDigits(power, 10) = ToDigits(m, 10)
<1>1. CASE IsFinite(power)
  <2> DEFINE c == Plain(power).int
  <2>1. Leads(c)
    BY <1>1, PlainDigits DEF Whole
  <2>2. DivisorDigits(power, 10) = ToDigits(FromDigits(c, 10), 10)
    BY <1>1 DEF DivisorDigits, ConvertDigits
  <2> HIDE DEF c
  <2>3. PICK n \in Nat \ {0} : Decimal(c, n) /\ c[1] # 0
    BY <2>1 DEF Leads, Decimal
  <2>4. FromDigits(c, 10) >= Power(10, n - 1) /\ FromDigits(c, 10) \in Nat
    BY <2>3, LeadsValue
  <2>5. n - 1 \in Nat
    OBVIOUS
  <2>6. Power(10, n - 1) \in Nat \ {0}
    BY <2>5, TenInt, PowerPositive
  <2>7. FromDigits(c, 10) \in Nat \ {0}
    BY <2>4, <2>6
  <2>8. QED
    BY <2>2, <2>7
<1>2. CASE ~IsFinite(power)
  <2>1. DivisorDigits(power, 10) = ToDigits(14705124, 10)
    BY <1>2, LettersValue DEF DivisorDigits, ConvertDigits
  <2>2. QED
    BY <2>1
<1>3. QED
  BY <1>1, <1>2

LEMMA PowerOfBaseIs ==
    ASSUME NEW g \in Settings, NEW base \in Nat \ {0}, NEW n \in Nat
    PROVE  LET power == PowerOfBase(g, base, n) IN power = BigNumberError \/ Whole(power)
<1>1. CASE n > MAX_POWER
  <2>1. PowerOfBase(g, base, n) \in {BigNumberError, Infinity(1)}
    BY <1>1 DEF PowerOfBase, IfExceptionsThrow
  <2>2. Whole(Infinity(1))
    BY NormalConstants DEF Whole, IsNaN, IsFinite, Infinity, BigNum
  <2>3. QED
    BY <2>1, <2>2
<1>2. CASE ~(n > MAX_POWER)
  <2> DEFINE x == OfDigits(g, ToDigits(base, 10))
  <2>1. Whole(x)
    BY ToDigitsLeads, WholeOfDigits
  <2>2. PowerOfBase(g, base, n) = IntegerPower(g, x, n)
    BY <1>2 DEF PowerOfBase
  <2> HIDE DEF x
  <2>3. QED
    BY <2>1, <2>2, WholePower
<1>3. QED
  BY <1>1, <1>2

(* What comes out of a conversion: digits, or the call does not return a   *)
(* number.                                                                 *)
NoNumber == {TypeError, BigNumberError, Endless, Unreadable}

DigitText(out) == ~Threw(out) /\ out.int \in Seq(0..9) /\ out.frac \in Seq(0..9)

LEMMA TextOfDigits ==
    ASSUME NEW n \in Seq(0..9), NEW f \in Seq(0..9)
    PROVE  DigitText([int |-> n, frac |-> f])
  BY DEF DigitText, Threw

LEMMA NoNumberThrew == \A r \in NoNumber : Threw(r)
<1>1. \A name : Threw([thrown |-> name])
  BY DEF Threw
<1>2. \A r \in NoNumber : \E name : r = [thrown |-> name]
  BY Zenon DEF NoNumber, TypeError, BigNumberError, Endless, Unreadable
<1>3. QED
  BY <1>1, <1>2, Zenon

LEMMA CarryDigits ==
    ASSUME NEW g \in Settings, NEW n \in Seq(0..9), Len(n) \in Nat \ {0}
    PROVE  LET out == CarryInto(g, n, 10) IN out \in NoNumber \/ DigitText(out)
<1>1. CASE n[Len(n)] < 10 - 1
  <2> DEFINE m == SubSeq(n, 1, Len(n) - 1) \o <<n[Len(n)] + 1>>
  <2>1. CarryInto(g, n, 10) = [int |-> m, frac |-> <<>>]
    BY <1>1 DEF CarryInto
  <2>2. n[Len(n)] + 1 \in 0..9
    BY <1>1
  <2>3. <<n[Len(n)] + 1>> \in Seq(0..9)
    BY <2>2
  <2>4. SubSeq(n, 1, Len(n) - 1) \in Seq(0..9)
    OBVIOUS
  <2>5. m \in Seq(0..9) /\ <<>> \in Seq(0..9)
    BY <2>3, <2>4
  <2> HIDE DEF m
  <2>6. QED
    BY <2>1, <2>5, TextOfDigits
<1>2. CASE ~(n[Len(n)] < 10 - 1)
  <2> DEFINE sum == Plus(g, OfDigits(g, ConvertDigits(n, 10, 10)), ONE)
  <2>1. Result(sum)
    <3>1. ConvertDigits(n, 10, 10) \in Seq(0..9)
      BY ValueNat, ToTen DEF ConvertDigits
    <3>2. Normal(OfDigits(g, ConvertDigits(n, 10, 10)))
      <4>1. IsText(Numeral(FALSE, ConvertDigits(n, 10, 10), <<>>, null))
        BY <3>1 DEF IsText, Numeral
      <4>2. QED
        BY <4>1, FromNumeralNormal DEF OfDigits
    <3>3. QED
      BY <3>2, NormalConstants, PlusMinusResult
  <2>2. CarryInto(g, n, 10) = Successor(sum, 10)
    BY <1>2 DEF CarryInto
  <2> HIDE DEF sum
  <2>3. CASE Threw(sum)
    <3>1. sum \in NoNumber
      BY <2>1, <2>3, NoThrow DEF Result, NoNumber
    <3>2. QED
      BY <2>2, <2>3, <3>1 DEF Successor
  <2>4. CASE ~Threw(sum) /\ IsFinite(sum)
    <3>1. Normal(sum)
      BY <2>1, <2>4, NoThrow DEF Result
    <3>2. ConvertDigits(Plain(sum).int, 10, 10) \in Seq(0..9)
      <4>1. Plain(sum).int \in Seq(0..9)
        BY <2>4, <3>1, PlainDigits
      <4>2. QED
        BY <4>1, ValueNat, ToTen DEF ConvertDigits
    <3>3. Successor(sum, 10) = [int |-> ConvertDigits(Plain(sum).int, 10, 10), frac |-> <<>>]
      BY <2>4 DEF Successor
    <3>4. <<>> \in Seq(0..9)
      OBVIOUS
    <3>5. QED
      BY <2>2, <3>2, <3>3, <3>4, TextOfDigits
  <2>5. CASE ~Threw(sum) /\ ~IsFinite(sum)
    <3>1. Successor(sum, 10) = Letters
      BY <2>5 DEF Successor
    <3>2. <<>> \in Seq(0..9)
      OBVIOUS
    <3>3. QED
      BY <2>2, <3>1, <3>2, TextOfDigits DEF Letters
  <2>6. QED
    BY <2>3, <2>4, <2>5
<1>3. QED
  BY <1>1, <1>2

LEMMA ConvertDigitsTen ==
    ASSUME NEW g \in Settings, NEW int \in Seq(0..9), NEW frac \in Seq(0..9), NEW base \in Nat \ {0},
           NEW s \in {-1, 1}
    PROVE  LET out == Convert(g, int, frac, 10, base, s) IN out \in NoNumber \/ DigitText(out)
<1> DEFINE n == ConvertDigits(int, 10, base)
           d == ConvertDigits(frac, 10, base)
           power == PowerOfBase(g, base, Len(frac))
           dvs == DivisorDigits(power, 10)
           f == FractionIn(g, d, dvs, 10, s, n[Len(n)] % 2 = 1)
           out == Convert(g, int, frac, 10, base, s)
<1>1. n \in Seq(0..9) /\ d \in Seq(0..9) /\ <<>> \in Seq(0..9)
  <2>1. \A c \in Seq(0..9) : ConvertDigits(c, 10, base) \in Seq(0..9)
    BY ValueNat, ToTen DEF ConvertDigits
  <2>2. <<>> \in Seq(0..9)
    OBVIOUS
  <2>3. QED
    BY <2>1, <2>2
<1>2. Len(n) \in Nat \ {0}
  <2>1. FromDigits(int, base) \in Nat
    BY ValueNat
  <2>2. QED
    BY <2>1, TenInt, ToDigitsLength DEF ConvertDigits
<1>3. power = BigNumberError \/ Whole(power)
  BY PowerOfBaseIs
<1>4. out = IF frac = <<>> THEN [int |-> n, frac |-> <<>>]
            ELSE IF Threw(power) THEN power ELSE WithFraction(g, n, f, 10)
  BY DEF Convert, ConvertWith, DividedBy
<1> HIDE DEF n, d, power
<1>5. CASE frac = <<>>
  <2>1. out = [int |-> n, frac |-> <<>>]
    BY <1>4, <1>5
  <2> HIDE DEF out
  <2>2. QED
    BY <1>1, <2>1, TextOfDigits DEF out
<1>6. CASE frac # <<>> /\ power = BigNumberError
  <2>1. out = BigNumberError
    BY <1>4, <1>6, NoThrow
  <2> HIDE DEF out
  <2>2. QED
    BY <2>1 DEF NoNumber, out
<1>7. CASE frac # <<>> /\ Whole(power)
  <2>1. IsQuotient(f)
    <3>1. PICK m \in Nat \ {0} : dvs = ToDigits(m, 10)
      BY <1>7, DivisorIs
    <3>2. (n[Len(n)] % 2 = 1) \in BOOLEAN
      BY Zenon
    <3> HIDE DEF dvs
    <3>3. QED
      BY <1>1, <3>1, <3>2, FractionDigits, Zenon
  <2>2. out = WithFraction(g, n, f, 10)
    BY <1>4, <1>7, NoThrow DEF Whole
  <2> HIDE DEF f, out
  <2>3. Zeros(-f.e - 1) \o f.c \in Seq(0..9)
    <3>1. -f.e - 1 \in Int /\ f.c \in Seq(0..9)
      BY <2>1 DEF IsQuotient
    <3>2. QED
      BY <3>1, ZerosSeq, SMTT(30)
  <2>4. \/ out = TypeError \/ out = Endless
        \/ out = [int |-> n, frac |-> Zeros(-f.e - 1) \o f.c]
        \/ out = [int |-> n, frac |-> <<>>]
        \/ out = CarryInto(g, n, 10)
    BY <2>2, Zenon DEF WithFraction
  <2>5. DigitText([int |-> n, frac |-> Zeros(-f.e - 1) \o f.c]) /\ DigitText([int |-> n, frac |-> <<>>])
    BY <1>1, <2>3, TextOfDigits
  <2>6. CarryInto(g, n, 10) \in NoNumber \/ DigitText(CarryInto(g, n, 10))
    BY <1>1, <1>2, CarryDigits
  <2>7. TypeError \in NoNumber /\ Endless \in NoNumber
    BY DEF NoNumber
  <2>8. QED
    BY <2>4, <2>5, <2>6, <2>7 DEF out
<1>8. QED
  BY <1>3, <1>5, <1>6, <1>7

ConvertedResult(r) == Normal(r) \/ r \in NoNumber

LEMMA NewBaseResult ==
    ASSUME NEW g \in Settings, NEW t, IsText(t), NEW base \in Int
    PROVE  ConvertedResult(NewBase(g, t, base))
<1> DEFINE int == IF t.int = <<>> THEN <<0>> ELSE t.int
           s == IF t.neg THEN -1 ELSE 1
           out == Convert(g, int, t.frac, 10, base, s)
           u == Numeral(t.neg, out.int, out.frac, null)
<1>1. int \in Seq(0..9) /\ t.frac \in Seq(0..9) /\ s \in {-1, 1} /\ t.neg \in BOOLEAN
  <2>1. t.int \in Seq(0..9) /\ t.frac \in Seq(0..9) /\ t.neg \in BOOLEAN
    BY DEF IsText
  <2>2. <<0>> \in Seq(0..9)
    OBVIOUS
  <2>3. QED
    BY <2>1, <2>2
<1>2. Normal(New(g, t, FALSE))
  <2>1. \A isNum \in BOOLEAN : ~isNum => Normal(New(g, t, isNum))
    BY NewResult
  <2>2. QED
    BY <2>1, Zenon
<1>3. CASE base = 10
  <2>1. NewBase(g, t, base) = SetMode(g, New(g, t, FALSE), g.dp, g.rm).value
    BY <1>3 DEF NewBase
  <2>2. g.dp \in Int
    BY DEF Settings
  <2> DEFINE r == New(g, t, FALSE)
  <2>3. Normal(r) /\ NewBase(g, t, base) = SetMode(g, r, g.dp, g.rm).value
    BY <1>2, <2>1
  <2> HIDE DEF r
  <2>4. Normal(SetMode(g, r, g.dp, g.rm).value)
    BY <2>2, <2>3, SetModeNormal
  <2>5. QED
    BY <2>3, <2>4 DEF ConvertedResult
<1>4. CASE base \notin 2..36
  <2>1. base # 10 /\ base \notin 2..36 \ {10}
    BY <1>4
  <2>2. NewBase(g, t, base) = IfExceptionsThrow(g, New(g, t, FALSE))
    BY <1>4, <2>1, Zenon DEF NewBase
  <2> DEFINE r == New(g, t, FALSE)
  <2> HIDE DEF r
  <2>3. Result(IfExceptionsThrow(g, r))
    BY <1>2 DEF IfExceptionsThrow, Result, r
  <2>4. QED
    BY <2>2, <2>3 DEF r, ConvertedResult, Result, NoNumber
<1>5. CASE base \in 2..36 \ {10}
  <2>1. NewBase(g, t, base) = IF IsWord(t) THEN FromWord(t)
                              ELSE IF ~IsOfBase(t, base) THEN IfExceptionsThrow(g, NaN)
                              ELSE FromConverted(g, out, t.neg)
    BY <1>5 DEF NewBase
  <2>2. base \in Nat \ {0}
    BY <1>5
  <2> HIDE DEF int, s
  <2>3. out \in NoNumber \/ DigitText(out)
    BY <1>1, <2>2, ConvertDigitsTen
  <2> HIDE DEF out
  <2>4. Normal(FromWord(t)) /\ Result(IfExceptionsThrow(g, NaN))
    BY FromWordNormal, NormalConstants DEF IfExceptionsThrow, Result
  <2>5. ConvertedResult(FromConverted(g, out, t.neg))
    <3>1. CASE out \in NoNumber
      BY <3>1, NoNumberThrew DEF FromConverted, ConvertedResult
    <3>2. CASE DigitText(out) /\ out # Letters
      <4>1. IsText(u)
        BY <1>1, <3>2 DEF DigitText, IsText, Numeral
      <4>2. FromConverted(g, out, t.neg) = FromNumeral(g, u)
        BY <3>2 DEF FromConverted, DigitText
      <4>3. QED
        BY <4>1, <4>2, FromNumeralNormal DEF ConvertedResult
    <3>3. CASE DigitText(out) /\ out = Letters
      <4>1. FromConverted(g, out, t.neg) \in {Infinity(1), Infinity(-1), Unreadable}
        BY <3>3 DEF FromConverted, DigitText
      <4>2. QED
        BY <4>1, NormalConstants DEF ConvertedResult, NoNumber
    <3>4. QED
      BY <2>3, <3>1, <3>2, <3>3
  <2>6. QED
    BY <2>1, <2>4, <2>5 DEF ConvertedResult, Result, NoNumber
<1>6. QED
  BY <1>3, <1>4, <1>5

----------------------------------------------------------------------------
(* The value a rounded number has.                                         *)

LEMMA SameTrans ==
    ASSUME NEW m \in Int, NEW p \in Int, NEW n \in Int, NEW q \in Int, NEW k \in Int, NEW r \in Int,
           SameValue(m, p, n, q), SameValue(n, q, k, r)
    PROVE  SameValue(m, p, k, r)
<1> DEFINE l == LowerOf(LowerOf(p, q), r)
<1>1. l \in Int /\ l <= p /\ l <= q /\ l <= r
  BY DEF LowerOf
<1> HIDE DEF l
<1>2. At(m, p, l) = At(n, q, l)
  BY <1>1, SameAt
<1>3. At(n, q, l) = At(k, r, l)
  BY <1>1, SameAt
<1>4. QED
  BY <1>1, <1>2, <1>3, SameAt

LEMMA SameSym ==
    ASSUME NEW m \in Int, NEW p \in Int, NEW n \in Int, NEW q \in Int, SameValue(m, p, n, q)
    PROVE  SameValue(n, q, m, p)
<1>1. LowerOf(p, q) = LowerOf(q, p)
  BY DEF LowerOf
<1>2. QED
  BY <1>1 DEF SameValue

(* The exponent of a value does not depend on how it is written.           *)
LEMMA ExponentAt ==
    ASSUME NEW m \in Int, m # 0, NEW p \in Int, NEW q \in Int, q <= p
    PROVE  ExponentOf(At(m, p, q), q) = ExponentOf(m, p) /\ At(m, p, q) # 0
<1> DEFINE a == AbsInt(m)
<1>1. a \in Nat /\ a > 0
  BY DEF AbsInt
<1>2. PICK k \in Nat \ {0} : HasLength(a, 10, k)
  <2>1. 10 \in Nat /\ 10 > 1
    OBVIOUS
  <2> HIDE DEF a
  <2>2. QED
    BY <1>1, <2>1, ToDigitsLength
<1>3. PICK d \in Nat : d = p - q
  OBVIOUS
<1>4. Power(10, d) \in Nat \ {0} /\ Power(10, k) \in Nat \ {0} /\ Power(10, k - 1) \in Nat \ {0}
  <2>1. k \in Nat /\ k - 1 \in Nat
    BY <1>2
  <2>2. QED
    BY <1>3, <2>1, TenInt, PowerPositive, Zenon
<1>5. Power(10, k + d) = Power(10, k) * Power(10, d) /\ Power(10, (k + d) - 1) = Power(10, k - 1) * Power(10, d)
  <2>1. k \in Nat /\ k - 1 \in Nat /\ (k + d) - 1 = (k - 1) + d
    BY <1>2
  <2>2. QED
    BY <1>3, <2>1, TenInt, PowerPlus
<1>6. a < Power(10, k) /\ a >= Power(10, k - 1)
  <2>1. Power(10, 0) = 1 /\ (k = 1 => k - 1 = 0)
    BY TenInt, PowerZero
  <2>2. a < Power(10, k) /\ (k = 1 \/ a >= Power(10, k - 1))
    BY <1>2 DEF HasLength
  <2> HIDE DEF a
  <2>3. CASE k = 1
    <3>1. Power(10, k - 1) = 1
      BY <2>1, <2>3
    <3>2. QED
      BY <1>1, <2>2, <3>1
  <2>4. QED
    BY <2>2, <2>3
<1>7. At(m, p, q) = m * Power(10, d)
  BY <1>3 DEF At
<1>8. AbsInt(m * Power(10, d)) = a * Power(10, d) /\ m * Power(10, d) \in Int /\ m * Power(10, d) # 0
  <2> DEFINE f == Power(10, d)
  <2>1. f \in Nat \ {0}
    BY <1>4
  <2> HIDE DEF f
  <2>2. CASE m < 0
    <3>1. m * f < 0 /\ (-m) * f = -(m * f) /\ m * f \in Int
      BY <2>1, <2>2
    <3>2. QED
      BY <2>2, <3>1 DEF f, AbsInt
  <2>3. CASE m > 0
    <3>1. m * f > 0 /\ m * f \in Int
      BY <2>1, <2>3
    <3>2. QED
      BY <2>3, <3>1 DEF f, AbsInt
  <2>4. QED
    BY <2>2, <2>3
<1>9. a * Power(10, d) < Power(10, k + d) /\ a * Power(10, d) >= Power(10, (k + d) - 1)
  <2> DEFINE f == Power(10, d)
             u == Power(10, k)
             v == Power(10, k - 1)
  <2>1. f \in Nat \ {0} /\ u \in Nat /\ v \in Nat /\ a \in Nat /\ a < u /\ a >= v
    BY <1>1, <1>4, <1>6
  <2> HIDE DEF f, u, v, a
  <2>2. a * f < u * f
    BY <2>1
  <2>3. a * f >= v * f
    BY <2>1
  <2>4. QED
    BY <1>5, <2>2, <2>3 DEF f, u, v
<1> HIDE DEF a
<1>10. ExponentOf(m, p) = k - 1 + p
  BY <1>6, ExponentIs DEF a
<1>11. ExponentOf(m * Power(10, d), q) = (k + d) - 1 + q
  <2>1. k + d \in Nat \ {0}
    BY <1>2, <1>3
  <2>2. QED
    BY <1>8, <1>9, <2>1, ExponentIs
<1>12. (k + d) - 1 + q = k - 1 + p
  BY <1>2, <1>3
<1>13. QED
  BY <1>7, <1>8, <1>10, <1>11, <1>12

LEMMA ExponentSame ==
    ASSUME NEW m \in Int, NEW p \in Int, NEW n \in Int, NEW q \in Int, SameValue(m, p, n, q), m # 0
    PROVE  ExponentOf(m, p) = ExponentOf(n, q) /\ n # 0
<1> DEFINE l == LowerOf(p, q)
<1>1. l \in Int /\ l <= p /\ l <= q
  BY DEF LowerOf
<1>2. At(m, p, l) = At(n, q, l)
  BY DEF SameValue
<1> HIDE DEF l
<1>3. ExponentOf(At(m, p, l), l) = ExponentOf(m, p) /\ At(m, p, l) # 0
  BY <1>1, ExponentAt
<1>4. n # 0
  BY <1>1, <1>2, <1>3, AtZero
<1>5. ExponentOf(At(n, q, l), l) = ExponentOf(n, q)
  BY <1>1, <1>4, ExponentAt
<1>6. QED
  BY <1>2, <1>3, <1>4, <1>5

(* Digits with only nines behind the first m.                              *)
LEMMA NinesBehind ==
    ASSUME NEW c, BaseDigits(10, c), NEW m \in Nat, NEW n \in Nat, \A i \in 1..n : Digit(c, m + i) = 9
    PROVE  Prefix(c, 10, m + n) + 1 = (Prefix(c, 10, m) + 1) * Power(10, n)
<1> DEFINE K == {k \in Nat : k <= n => Prefix(c, 10, m + k) + 1 = (Prefix(c, 10, m) + 1) * Power(10, k)}
<1>0. IntDigits(c) /\ Prefix(c, 10, m) \in Int
  BY TenInt, BaseDigitsInt, PrefixInt
<1>1. 0 \in K
  <2>1. Power(10, 0) = 1 /\ m + 0 = m
    BY TenInt, PowerZero
  <2>2. QED
    BY <1>0, <2>1
<1>2. ASSUME NEW k \in Nat, k \in K PROVE k + 1 \in K
  <2>1. SUFFICES ASSUME k + 1 <= n PROVE Prefix(c, 10, m + (k + 1)) + 1 = (Prefix(c, 10, m) + 1) * Power(10, k + 1)
    OBVIOUS
  <2>2. m + k \in Nat /\ (m + k) + 1 = m + (k + 1) /\ k + 1 \in 1..n
    BY <2>1
  <2>3. Prefix(c, 10, (m + k) + 1) = Prefix(c, 10, m + k) * 10 + Digit(c, (m + k) + 1) /\ Prefix(c, 10, m + k) \in Int
    BY <1>0, <2>2, TenInt, PrefixNext, PrefixInt, Zenon
  <2>4. Digit(c, (m + k) + 1) = 9
    BY <2>2
  <2>5. Power(10, k + 1) = Power(10, k) * 10 /\ Power(10, k) \in Int
    BY TenInt, PowerNext, PowerInt
  <2>6. Prefix(c, 10, m + k) + 1 = (Prefix(c, 10, m) + 1) * Power(10, k)
    BY <1>2, <2>1
  <2> DEFINE A == Prefix(c, 10, m + k)
             B == Prefix(c, 10, m) + 1
             W == Power(10, k)
  <2>7. A \in Int /\ B \in Int /\ W \in Int /\ A + 1 = B * W
    BY <1>0, <2>3, <2>5, <2>6
  <2> HIDE DEF A, B, W
  <2>8. A * 10 + 9 + 1 = B * (W * 10)
    <3>1. PICK z \in Int : z = B * W
      BY <2>7
    <3>2. B * (W * 10) = z * 10
      BY <2>7, <3>1
    <3>3. QED
      BY <2>7, <3>1, <3>2
  <2>9. QED
    BY <2>2, <2>3, <2>4, <2>5, <2>7, <2>8 DEF A, B, W
<1> HIDE DEF K
<1>3. n \in K
  BY <1>1, <1>2, NatSetInduction
<1>4. QED
  BY <1>3 DEF K

(* One unit more in the last of k digits.                                  *)
LEMMA IncrementValue ==
    ASSUME NEW k \in Nat \ {0}, NEW c, Decimal(c, k), NEW e \in Int, NEW s \in {-1, 1}
    PROVE  \E n \in Nat \ {0} :
               LET r == Increment(e, c, 10)
               IN  /\ Decimal(r.c, n) /\ r.e \in Int
                   /\ s * FromDigits(r.c, 10) \in Int
                   /\ SameValue(s * FromDigits(r.c, 10), r.e - n + 1, s * (FromDigits(c, 10) + 1), e - k + 1)
<1>1. /\ BaseDigits(10, c) /\ IntDigits(c) /\ Len(c) = k /\ DOMAIN c = 1..k
      /\ \A i \in 1..k : Digit(c, i) = c[i] /\ c[i] \in 0..9
  <2>1. Len(c) = k /\ DOMAIN c = 1..k
    BY DEF Decimal
  <2>2. BaseDigits(10, c) /\ IntDigits(c) /\ \A i \in 1..k : Digit(c, i) = c[i] /\ c[i] \in 0..9
    BY TenDigits
  <2>3. QED
    BY <2>1, <2>2
<1>2. FromDigits(c, 10) = Prefix(c, 10, k) /\ k \in Nat
  BY <1>1 DEF FromDigits
<1>3. Prefix(c, 10, k) \in Nat
  BY <1>1, <1>2, TenInt, PrefixBounds, Zenon
<1>4. LowDigits(c, 10) = {i \in 1..k : c[i] < 9}
  BY <1>1 DEF LowDigits
<1>5. CASE LowDigits(c, 10) = {}
  <2>1. Increment(e, c, 10) = [e |-> e + 1, c |-> <<1>>]
    BY <1>5 DEF Increment
  <2>2. \A i \in 1..k : Digit(c, 0 + i) = 9
    BY <1>1, <1>4, <1>5
  <2>3. Prefix(c, 10, 0 + k) + 1 = (Prefix(c, 10, 0) + 1) * Power(10, k)
    <3>1. 0 \in Nat
      OBVIOUS
    <3>2. QED
      BY <1>1, <1>2, <2>2, <3>1, NinesBehind
  <2>4. Prefix(c, 10, 0) = 0 /\ Power(10, k) \in Int
    BY <1>1, <1>2, TenInt, PrefixZero, PowerInt, Zenon
  <2>5. FromDigits(c, 10) + 1 = Power(10, k)
    BY <1>2, <2>3, <2>4
  <2>6. Decimal(<<1>>, 1) /\ FromDigits(<<1>>, 10) = 1
    <3>1. Decimal(<<1>>, 1)
      BY DEF Decimal
    <3>2. IntDigits(<<1>>) /\ Digit(<<1>>, 0 + 1) = 1 /\ Len(<<1>>) = 1 /\ 0 \in Nat /\ 0 + 1 = 1
      BY <3>1, TenDigits
    <3>3. Prefix(<<1>>, 10, 0) = 0
      BY <3>2, TenInt, PrefixZero, Zenon
    <3>4. Prefix(<<1>>, 10, 0 + 1) = Prefix(<<1>>, 10, 0) * 10 + Digit(<<1>>, 0 + 1)
      BY <3>2, TenInt, PrefixNext, Zenon
    <3>5. QED
      BY <3>1, <3>2, <3>3, <3>4 DEF FromDigits
  <2>7. SameValue(s * 1, (e + 1) - 1 + 1, s * Power(10, k), e - k + 1)
    <3>1. s * 1 \in Int /\ (e + 1) - 1 + 1 \in Int /\ s * Power(10, k) \in Int /\ e - k + 1 \in Int
          /\ e - k + 1 <= (e + 1) - 1 + 1 /\ ((e + 1) - 1 + 1) - (e - k + 1) = k
      BY <2>4
    <3>2. s * Power(10, k) = At(s * 1, (e + 1) - 1 + 1, e - k + 1)
      BY <2>4, <3>1 DEF At
    <3>3. QED
      BY <3>1, <3>2, SameItself
  <2>8. s * 1 \in Int /\ e + 1 \in Int /\ 1 \in Nat \ {0}
    OBVIOUS
  <2>9. QED
    BY <2>1, <2>5, <2>6, <2>7, <2>8
<1>6. CASE LowDigits(c, 10) # {}
  <2> DEFINE m == Max(LowDigits(c, 10))
             d == SubSeq(c, 1, m)
             f == [d EXCEPT ![m] = @ + 1]
  <2>1. m \in LowDigits(c, 10) /\ \A j \in LowDigits(c, 10) : j <= m
    <3>1. LowDigits(c, 10) \in SUBSET (1..k)
      BY <1>4
    <3>2. QED
      BY <1>6, <1>2, <3>1, MaxMinOf
  <2>2. Increment(e, c, 10) = [e |-> e, c |-> f]
    BY <1>6 DEF Increment, AddOneAt
  <2> HIDE DEF f
  <2>3. f = [d EXCEPT ![m] = d[m] + 1]
    BY DEF f
  <2> HIDE DEF m
  <2>4. m \in 1..k /\ c[m] \in 0..8
    BY <1>1, <1>4, <2>1
  <2>5. \A i \in 1..k : i > m => c[i] = 9
    BY <1>1, <1>4, <2>1
  <2>6. \A i \in 1..m : c[i] \in 0..9
    BY <1>1, <2>4
  <2>7. d \in Seq(0..9) /\ Len(d) = m /\ \A i \in 1..m : d[i] = c[i]
    BY <1>1, <2>4, <2>6, SubSeqProperties
  <2> HIDE DEF d
  <2>8. m \in 1..Len(d) /\ d[m] + 1 \in 0..9
    BY <2>4, <2>7
  <2>9. f \in Seq(0..9) /\ Len(f) = m /\ \A j \in 1..m : f[j] = IF j = m THEN d[m] + 1 ELSE d[j]
    BY <2>7, <2>8, <2>3, ExceptSeq
  <2>10. Decimal(f, m)
    BY <2>9 DEF Decimal
  <2>11. PICK n \in Nat : n + 1 = m
    <3>1. m - 1 \in Nat /\ (m - 1) + 1 = m
      BY <2>4
    <3>2. QED
      BY <3>1
  <2>12. /\ IntDigits(f) /\ \A i \in 1..n : Digit(f, i) = Digit(c, i)
         /\ Digit(f, n + 1) = Digit(c, n + 1) + 1
    <3>1. \A i \in 1..n : i \in 1..m /\ i # m /\ i \in 1..k
      BY <2>4, <2>11
    <3>2. \A i \in 1..m : Digit(f, i) = f[i]
      BY <2>10, TenDigits
    <3>3. IntDigits(f)
      BY <2>10, TenDigits
    <3>4. \A i \in 1..n : Digit(f, i) = Digit(c, i)
      BY <1>1, <2>7, <2>9, <3>1, <3>2
    <3>5. m \in 1..m /\ m \in 1..k
      BY <2>4
    <3>6. QED
      BY <1>1, <2>7, <2>9, <2>11, <3>2, <3>3, <3>4, <3>5
  <2>13. Prefix(f, 10, n) = Prefix(c, 10, n)
    BY <1>1, <2>12, TenInt, PrefixSame
  <2>14. Prefix(f, 10, n + 1) = Prefix(f, 10, n) * 10 + Digit(f, n + 1)
         /\ Prefix(c, 10, n + 1) = Prefix(c, 10, n) * 10 + Digit(c, n + 1)
    BY <1>1, <2>12, TenInt, PrefixNext, ZenonT(60)
  <2>15. Prefix(c, 10, n) \in Int /\ Digit(c, n + 1) \in Int
    <3>1. n + 1 \in Nat
      OBVIOUS
    <3>2. QED
      BY <1>1, <3>1, TenInt, PrefixInt, Zenon DEF IntDigits
  <2>16. Prefix(f, 10, m) = Prefix(c, 10, m) + 1 /\ Prefix(c, 10, m) \in Int
    BY <2>11, <2>12, <2>13, <2>14, <2>15
  <2>17. PICK l \in Nat : l = k - m /\ m + l = k /\ m \in Nat
    <3>1. k - m \in Nat /\ m + (k - m) = k /\ m \in Nat
      BY <2>4
    <3>2. QED
      BY <3>1
  <2>18. \A i \in 1..l : Digit(c, m + i) = 9
    <3>1. ASSUME NEW i \in 1..l PROVE m + i \in 1..k /\ m + i > m
      BY <2>4, <2>17
    <3>2. QED
      BY <1>1, <2>5, <3>1
  <2>19. Prefix(c, 10, m + l) + 1 = (Prefix(c, 10, m) + 1) * Power(10, l)
    BY <1>1, <2>17, <2>18, NinesBehind, ZenonT(60)
  <2>20. FromDigits(f, 10) = Prefix(c, 10, m) + 1
    BY <2>9, <2>16 DEF FromDigits
  <2>21. SameValue(s * FromDigits(f, 10), e - m + 1, s * (FromDigits(c, 10) + 1), e - k + 1)
    <3> DEFINE u == s * FromDigits(f, 10)
               v == s * (FromDigits(c, 10) + 1)
    <3>1. Power(10, l) \in Int
      BY TenInt, PowerInt
    <3>2. u \in Int /\ v \in Int /\ v = u * Power(10, l)
      <4> DEFINE z == FromDigits(f, 10)
                 w == FromDigits(c, 10) + 1
                 h == Power(10, l)
      <4>1. z \in Int /\ h \in Int /\ w = z * h
        BY <1>2, <2>16, <2>17, <2>19, <2>20, <3>1
      <4>2. u = s * z /\ v = s * w
        OBVIOUS
      <4> HIDE DEF u, v, z, w, h
      <4>3. s * (z * h) = (s * z) * h /\ s * z \in Int /\ z * h \in Int
        BY <4>1
      <4>4. QED
        BY <4>1, <4>2, <4>3 DEF h
    <3> HIDE DEF u, v
    <3>3. (e - m + 1) - (e - k + 1) = l /\ e - m + 1 \in Int /\ e - k + 1 \in Int /\ e - k + 1 <= e - m + 1
      BY <2>4, <2>17
    <3>4. v = At(u, e - m + 1, e - k + 1)
      BY <3>2, <3>3 DEF At
    <3>5. QED
      BY <3>2, <3>3, <3>4, SameItself DEF u, v
  <2>22. s * FromDigits(f, 10) \in Int /\ m \in Nat \ {0}
    BY <2>4, <2>16, <2>20
  <2>23. QED
    BY <2>2, <2>10, <2>21, <2>22
<1>7. QED
  BY <1>5, <1>6

(* The value of the number r, in units of 10^p.                            *)
Is(r, m, p) == HasDigits(r) /\ SameValue(M(r), P(r), m, p)

(* The first i of l digits, with zeros for those that are not there.       *)
IsKept(d, c, l, i, k) ==
    /\ Decimal(d, k) /\ k <= i /\ d[1] # 0
    /\ i <= l => k = i
    /\ FromDigits(d, 10) \in Nat
    /\ Prefix(c, 10, i) = FromDigits(d, 10) * Power(10, i - k)

LEMMA KeptValue ==
    ASSUME NEW l \in Nat \ {0}, NEW c, Decimal(c, l), c[1] # 0, NEW i \in Nat \ {0}
    PROVE  \E k \in Nat \ {0} : IsKept(SubSeq(c, 1, IF i < l THEN i ELSE l), c, l, i, k)
<1> DEFINE k == IF i < l THEN i ELSE l
           d == SubSeq(c, 1, k)
<1>1. k \in Nat \ {0} /\ k <= i /\ k <= l /\ (i <= l => k = i) /\ k \in 1..l
  OBVIOUS
<1> HIDE DEF k
<1>2. IntDigits(c) /\ (\A j \in 1..l : Digit(c, j) = c[j] /\ c[j] \in 0..9) /\ Len(c) = l /\ DOMAIN c = 1..l
  <2>1. Len(c) = l /\ DOMAIN c = 1..l
    BY DEF Decimal
  <2>2. IntDigits(c) /\ \A j \in 1..l : Digit(c, j) = c[j] /\ c[j] \in 0..9
    BY TenDigits
  <2>3. QED
    BY <2>1, <2>2
<1>3. \A j \in 1..k : c[j] \in 0..9 /\ j \in 1..l
  BY <1>1, <1>2
<1>4. d \in Seq(0..9) /\ Len(d) = k /\ \A j \in 1..k : d[j] = c[j]
  BY <1>1, <1>2, <1>3, SubSeqProperties
<1> HIDE DEF d
<1>5. Decimal(d, k) /\ d[1] # 0
  BY <1>1, <1>4 DEF Decimal
<1>6. IntDigits(d) /\ \A j \in 1..k : Digit(d, j) = Digit(c, j)
  <2>1. IntDigits(d) /\ \A j \in 1..k : Digit(d, j) = d[j]
    BY <1>5, TenDigits
  <2>2. QED
    BY <1>2, <1>3, <1>4, <2>1
<1>7. k \in Nat
  BY <1>1
<1>8. Prefix(d, 10, k) = Prefix(c, 10, k)
  BY <1>2, <1>6, <1>7, TenInt, PrefixSame
<1>9. FromDigits(d, 10) = Prefix(c, 10, k) /\ FromDigits(d, 10) \in Nat
  <2>1. FromDigits(d, 10) = Prefix(d, 10, k)
    BY <1>4 DEF FromDigits
  <2>2. BaseDigits(10, d)
    BY <1>5, TenDigits
  <2>3. Prefix(d, 10, k) \in Nat
    BY <1>7, <2>2, TenInt, PrefixBounds, Zenon
  <2>4. QED
    BY <1>8, <2>1, <2>3
<1>10. PICK j \in Nat : j = i - k /\ k + j = i
  <2>1. i - k \in Nat /\ k + (i - k) = i
    BY <1>1
  <2>2. QED
    BY <2>1
<1>11. Prefix(c, 10, k + j) = Prefix(c, 10, k) * Power(10, j)
  <2>1. \A m \in 1..j : Digit(c, k + m) = 0
    <3>1. ASSUME NEW m \in 1..j PROVE k + m \notin 1..l
      BY <1>1, <1>10 DEF k
    <3>2. QED
      BY <1>2, <3>1 DEF Digit
  <2>2. 10 \in Int /\ IntDigits(c)
    BY <1>2
  <2>3. QED
    BY <1>7, <2>1, <2>2, PrefixZerosBehind
<1>12. QED
  <2>1. IsKept(d, c, l, i, k)
    BY <1>1, <1>5, <1>9, <1>10, <1>11 DEF IsKept
  <2>2. QED
    BY <1>1, <2>1 DEF d, k

LEMMA RoundValue ==
    ASSUME NEW g, NEW x, HasDigits(x), NEW dp \in Int, NEW rest \in BOOLEAN,
           NEW i \in Int, i = x.e + dp + 1, i >= 1 => x.c[1] # 0,
           NEW up \in BOOLEAN, up <=> RoundsUp(g.rm, x, i, 10, FALSE, rest),
           (up /\ i >= 1) => i <= Len(x.c),
           NEW U, U = IF i >= 1 THEN Prefix(x.c, 10, i) ELSE 0
    PROVE  Is(Rnd(g, x, dp, 10, FALSE, rest), x.s * (U + IF up THEN 1 ELSE 0), -dp)
<1> DEFINE r == Rnd(g, x, dp, 10, FALSE, rest)
<1>1. x.s \in {-1, 1} /\ x.e \in Int /\ x.c \in Seq(0..9) /\ Len(x.c) \in Nat \ {0}
  BY DEF HasDigits
<1>2. PICK l \in Nat \ {0} : l = Len(x.c)
  BY <1>1
<1>3. Decimal(x.c, l)
  BY <1>1, <1>2 DEF Decimal
<1> DEFINE kept == SubSeq(x.c, 1, IF i < l THEN i ELSE l)
           more == IF up THEN Increment(x.e, kept, 10) ELSE [e |-> x.e, c |-> DropTrailingZeros(kept)]
<1>4. r = IF i >= 1 /\ ~IsZero(x) THEN BigNum(x.s, more.e, more.c)
          ELSE IF up THEN BigNum(x.s, -dp, <<1>>) ELSE Zero(x.s)
  <2> DEFINE w == RoundsUp(g.rm, x, i, 10, dp = 0 /\ FALSE, rest)
             w2 == RoundsUp(g.rm, x, i, 10, FALSE, rest)
  <2>1. (dp = 0 /\ FALSE) = FALSE
    OBVIOUS
  <2>2. w = w2
    BY <2>1
  <2>3. r = IF i >= 1 /\ ~IsZero(x)
            THEN BigNum(x.s, (IF w THEN Increment(x.e, kept, 10) ELSE [e |-> x.e, c |-> DropTrailingZeros(kept)]).e,
                             (IF w THEN Increment(x.e, kept, 10) ELSE [e |-> x.e, c |-> DropTrailingZeros(kept)]).c)
            ELSE IF w THEN BigNum(x.s, -dp, <<1>>) ELSE Zero(x.s)
    BY <1>2 DEF Rnd
  <2>4. up <=> w2
    OBVIOUS
  <2> HIDE DEF w, w2, kept, r
  <2>5. CASE up
    BY <2>2, <2>3, <2>4, <2>5
  <2>6. CASE ~up
    BY <2>2, <2>3, <2>4, <2>6
  <2>7. QED
    BY <2>5, <2>6
<1>5. CASE i >= 1
  <2>1. x.c[1] # 0 /\ i \in Nat \ {0} /\ ~IsZero(x)
    BY <1>5 DEF IsZero
  <2>2. PICK k \in Nat \ {0} : /\ Decimal(kept, k) /\ k <= i /\ kept[1] # 0
                               /\ (i <= l => k = i) /\ FromDigits(kept, 10) \in Nat
                               /\ Prefix(x.c, 10, i) = FromDigits(kept, 10) * Power(10, i - k)
    <3>1. \E k \in Nat \ {0} : IsKept(kept, x.c, l, i, k)
      BY <1>3, <2>1, KeptValue
    <3>2. QED
      BY <3>1 DEF IsKept
  <2>3. r = BigNum(x.s, more.e, more.c)
    BY <1>4, <1>5, <2>1
  <2>4. CASE up
    <3>1. i <= l
      BY <1>2, <1>5, <2>4
    <3> DEFINE v == Increment(x.e, kept, 10)
    <3>2. PICK n \in Nat \ {0} : /\ Decimal(v.c, n) /\ v.e \in Int /\ x.s * FromDigits(v.c, 10) \in Int
              /\ SameValue(x.s * FromDigits(v.c, 10), v.e - n + 1, x.s * (FromDigits(kept, 10) + 1), x.e - k + 1)
      <4> HIDE DEF kept
      <4>1. QED
        BY <1>1, <2>2, IncrementValue
    <3>3. r = BigNum(x.s, v.e, v.c)
      BY <2>3, <2>4
    <3> HIDE DEF v, r, more, kept
    <3>4. r.s = x.s /\ r.e = v.e /\ r.c = v.c
      BY <3>3 DEF BigNum
    <3>5. HasDigits(r) /\ M(r) = x.s * FromDigits(v.c, 10) /\ P(r) = v.e - n + 1
      <4>1. r.c \in Seq(0..9) /\ Len(r.c) = n
        BY <3>2, <3>4 DEF Decimal
      <4>2. HasDigits(r)
        BY <1>1, <3>2, <3>4, <4>1 DEF HasDigits
      <4>3. M(r) = x.s * FromDigits(v.c, 10)
        BY <3>4 DEF M
      <4>4. P(r) = v.e - n + 1
        BY <3>4, <4>1 DEF P
      <4>5. QED
        BY <4>2, <4>3, <4>4
    <3>6. k = i /\ x.e - k + 1 = -dp
      <4>1. k = i
        BY <2>2, <3>1
      <4> DEFINE e == x.e
      <4>2. e \in Int /\ i = e + dp + 1
        BY <1>1
      <4> HIDE DEF e
      <4>3. e - i + 1 = -dp
        BY <4>2
      <4>4. QED
        BY <4>1, <4>3 DEF e
    <3>7. U = FromDigits(kept, 10)
      <4>1. Power(10, 0) = 1 /\ i - k = 0
        BY <3>6, TenInt, PowerZero
      <4>2. QED
        BY <1>5, <2>2, <4>1
    <3>8. U + (IF up THEN 1 ELSE 0) = FromDigits(kept, 10) + 1
      BY <2>4, <3>7
    <3>9. QED
      BY <3>2, <3>5, <3>6, <3>8 DEF Is, r
  <2>5. CASE ~up
    <3> DEFINE d == DropTrailingZeros(kept)
    <3>1. r = BigNum(x.s, x.e, d)
      BY <2>3, <2>5
    <3> HIDE DEF kept, more
    <3>2. k \in Nat /\ 1 \in 1..k
      BY <2>2
    <3>3. SameValue(M(BigNum(x.s, x.e, d)), P(BigNum(x.s, x.e, d)), x.s * FromDigits(kept, 10), x.e - k + 1)
      BY <1>1, <2>2, <3>2, TrimmedValue
    <3>4. PICK n \in 1..k : Decimal(d, n)
      BY <2>2, <3>2, TrimValue
    <3> HIDE DEF d
    <3>5. HasDigits(BigNum(x.s, x.e, d))
      BY <1>1, <3>4 DEF HasDigits, BigNum, Decimal
    <3> HIDE DEF r
    <3>6. HasDigits(r) /\ SameValue(M(r), P(r), x.s * FromDigits(kept, 10), x.e - k + 1)
      BY <3>1, <3>3, <3>5
    <3> DEFINE u == x.s * FromDigits(kept, 10)
    <3>7. u \in Int
      BY <1>1, <2>2
    <3>8. PICK j \in Nat : j = i - k
      BY <1>1, <2>2
    <3>9. U + (IF up THEN 1 ELSE 0) = FromDigits(kept, 10) * Power(10, j)
      <4>1. Power(10, j) \in Int
        BY TenInt, PowerInt
      <4>2. FromDigits(kept, 10) * Power(10, j) \in Int
        BY <2>2, <4>1
      <4>3. U = FromDigits(kept, 10) * Power(10, j)
        BY <1>5, <2>2, <3>8
      <4>4. QED
        BY <2>5, <4>2, <4>3
    <3>10. x.s * (U + IF up THEN 1 ELSE 0) = u * Power(10, j)
      <4> DEFINE a == FromDigits(kept, 10)
                 f == Power(10, j)
      <4>1. a \in Int /\ f \in Int /\ x.s \in Int
        <5>1. a \in Int
          BY <2>2
        <5>2. f \in Int
          BY TenInt, PowerInt
        <5>3. QED
          BY <1>1, <5>1, <5>2
      <4> HIDE DEF a, f
      <4>2. x.s * (a * f) = (x.s * a) * f
        BY <4>1
      <4>3. QED
        BY <3>9, <4>2 DEF a, f
    <3>11. (x.e - k + 1) - (-dp) = j /\ x.e - k + 1 \in Int /\ -dp \in Int /\ -dp <= x.e - k + 1
      <4>1. x.e \in Int
        BY <1>1
      <4> QED
        BY <3>8, <4>1, SMTT(30)
    <3>12. x.s * (U + IF up THEN 1 ELSE 0) \in Int
      <4>1. Power(10, j) \in Int
        BY TenInt, PowerInt
      <4>2. u * Power(10, j) \in Int
        BY <3>7, <4>1
      <4>3. QED
        BY <3>10, <4>2
    <3> DEFINE z == x.s * (U + IF up THEN 1 ELSE 0)
    <3>13. z = At(u, x.e - k + 1, -dp)
      BY <3>10, <3>11 DEF At
    <3>14. SameValue(u, x.e - k + 1, z, -dp)
      <4>1. z \in Int
        BY <3>12
      <4> HIDE DEF u, z
      <4>2. QED
        BY <3>7, <3>11, <3>13, <4>1, SameItself
    <3>15. M(r) \in Int /\ P(r) \in Int
      BY <3>6, ValueInt
    <3>16. SameValue(M(r), P(r), z, -dp)
      <4>1. z \in Int
        BY <3>12
      <4>2. SameValue(M(r), P(r), u, x.e - k + 1)
        BY <3>6
      <4> HIDE DEF u, z
      <4>3. QED
        BY <3>7, <3>11, <3>14, <3>15, <4>1, <4>2, SameTrans
    <3>17. QED
      BY <3>6, <3>16 DEF Is, r
  <2>6. QED
    BY <2>4, <2>5
<1>6. CASE ~(i >= 1)
  <2>1. U = 0 /\ r = IF up THEN BigNum(x.s, -dp, <<1>>) ELSE Zero(x.s)
    BY <1>4, <1>6
  <2> HIDE DEF r
  <2>2. CASE up
    <3>1. Decimal(<<1>>, 1) /\ FromDigits(<<1>>, 10) = 1
      <4>1. Decimal(<<1>>, 1)
        BY DEF Decimal
      <4>2. IntDigits(<<1>>) /\ Digit(<<1>>, 0 + 1) = 1 /\ Len(<<1>>) = 1 /\ 0 \in Nat /\ 0 + 1 = 1
        BY <4>1, TenDigits
      <4>3. Prefix(<<1>>, 10, 0) = 0
        BY <4>2, TenInt, PrefixZero, Zenon
      <4>4. Prefix(<<1>>, 10, 0 + 1) = Prefix(<<1>>, 10, 0) * 10 + Digit(<<1>>, 0 + 1)
        BY <4>2, TenInt, PrefixNext, ZenonT(60)
      <4>5. QED
        BY <4>1, <4>2, <4>3, <4>4 DEF FromDigits
    <3>2. r.s = x.s /\ r.e = -dp /\ r.c = <<1>>
      BY <2>1, <2>2 DEF BigNum
    <3>3. HasDigits(r) /\ M(r) = x.s * 1 /\ P(r) = -dp
      BY <1>1, <3>1, <3>2 DEF HasDigits, M, P
    <3>4. x.s * (U + IF up THEN 1 ELSE 0) = x.s * 1 /\ x.s * 1 \in Int
      BY <1>1, <2>1, <2>2
    <3>5. SameValue(x.s * 1, -dp, x.s * 1, -dp)
      BY DEF SameValue
    <3>6. QED
      BY <3>3, <3>4, <3>5 DEF Is, r
  <2>3. CASE ~up
    <3>1. r = Zero(x.s)
      BY <2>1, <2>3
    <3>2. SameValue(M(r), P(r), 0, -dp)
      BY <1>1, <3>1, ZeroIs
    <3>3. HasDigits(r)
      BY <1>1, <3>1 DEF HasDigits, Zero, BigNum
    <3>4. x.s * (U + IF up THEN 1 ELSE 0) = 0
      BY <1>1, <2>1, <2>3
    <3>5. QED
      BY <3>2, <3>3, <3>4 DEF Is, r
  <2>4. QED
    BY <2>2, <2>3
<1>7. QED
  BY <1>5, <1>6

(* Two ways to write a value have one sign.                                *)
LEMMA SignSame ==
    ASSUME NEW m \in Int, NEW p \in Int, NEW n \in Int, NEW q \in Int, SameValue(m, p, n, q)
    PROVE  (m < 0 <=> n < 0) /\ (m = 0 <=> n = 0)
<1> DEFINE l == LowerOf(p, q)
<1>1. l \in Int /\ l <= p /\ l <= q /\ p - l \in Nat /\ q - l \in Nat
  BY DEF LowerOf
<1>2. At(m, p, l) = At(n, q, l)
  BY DEF SameValue
<1> HIDE DEF l
<1>3. PICK f \in Nat \ {0} : f = Power(10, p - l)
  BY <1>1, TenInt, PowerPositive, Zenon
<1>4. PICK h \in Nat \ {0} : h = Power(10, q - l)
  BY <1>1, TenInt, PowerPositive, Zenon
<1>5. m * f = n * h
  BY <1>2, <1>3, <1>4 DEF At
<1>6. \A a \in Int, k \in Nat \ {0} : (a < 0 <=> a * k < 0) /\ (a = 0 <=> a * k = 0)
  OBVIOUS
<1>7. QED
  BY <1>5, <1>6

(* What becomes of a number of the right value when it is out of range.    *)
LEMMA RangeResult ==
    ASSUME NEW g \in Settings, NEW r, Normal(r), IsFinite(r), NEW m \in Int, NEW p \in Int,
           SameValue(M(r), P(r), m, p)
    PROVE  IsResult(g, InRange(g, r), m, p)
<1>1. HasDigits(r) /\ r.s \in {-1, 1} /\ r.e \in Int /\ M(r) \in Int /\ P(r) \in Int
  BY FiniteHasDigits, ValueInt DEF HasDigits
<1>2. g.maxE \in Int /\ g.minE \in Int /\ g.maxE > 0 /\ g.minE < 0
  BY BigNumberAssumption DEF Settings
<1>3. CASE IsZero(r)
  <2>1. r.e = 0
    BY <1>3, NormalFacts
  <2>2. InRange(g, r) = r
    BY <1>2, <2>1 DEF InRange
  <2>3. QED
    BY <2>2 DEF IsResult
<1>4. CASE ~IsZero(r)
  <2>1. PICK n \in Nat \ {0} : n = Len(r.c)
    BY NormalFacts
  <2>2. Decimal(r.c, n) /\ r.c[1] # 0
    BY <1>4, <2>1, NormalFacts DEF Leads, Decimal
  <2>3. ExponentOf(M(r), P(r)) = n - 1 + P(r) /\ M(r) # 0
    BY <1>1, <2>2, SignedLength DEF M
  <2>4. n - 1 + P(r) = r.e
    <3>1. P(r) = r.e - n + 1
      BY <2>1 DEF P
    <3>2. QED
      BY <1>1, <3>1
  <2>5. ExponentOf(m, p) = r.e /\ m # 0
    BY <1>1, <2>3, <2>4, ExponentSame
  <2>6. r.s = IF m < 0 THEN -1 ELSE 1
    <3>1. m < 0 <=> M(r) < 0
      BY <1>1, SignSame
    <3>2. FromDigits(r.c, 10) \in Nat
      BY <2>2, LeadsValue
    <3>3. M(r) < 0 <=> r.s = -1
      BY <1>1, <2>3, <3>2 DEF M
    <3>4. QED
      BY <1>1, <3>1, <3>3
  <2>7. CASE r.e > g.maxE
    <3>1. InRange(g, r) = Infinity(IF m < 0 THEN -1 ELSE 1)
      BY <2>6, <2>7 DEF InRange
    <3>2. QED
      BY <2>5, <2>7, <3>1 DEF IsResult
  <2>8. CASE ~(r.e > g.maxE) /\ r.e < g.minE
    <3>1. InRange(g, r) = Zero(r.s)
      BY <2>8 DEF InRange
    <3>2. IsZero(Zero(r.s))
      BY DEF IsZero, IsFinite, Zero, BigNum
    <3>3. QED
      BY <2>5, <2>8, <3>1, <3>2 DEF IsResult
  <2>9. CASE ~(r.e > g.maxE) /\ ~(r.e < g.minE)
    <3>1. InRange(g, r) = r
      BY <2>9 DEF InRange
    <3>2. QED
      BY <3>1 DEF IsResult
  <2>10. QED
    BY <2>7, <2>8, <2>9
<1>5. QED
  BY <1>3, <1>4

----------------------------------------------------------------------------
(* Rounding a quotient of integers, and rounding digits.                   *)

(* In each of the modes, of an odd or even number with something behind it *)
(* that is above, at or below the middle: is it rounded away from zero?    *)
Away(rm, neg, odd, some, middle) ==
    \/ rm = 0 /\ some
    \/ rm = 2 /\ some /\ ~neg
    \/ rm = 3 /\ some /\ neg
    \/ rm \in 4..8 /\ middle = 1
    \/ rm \in 4..8 /\ middle = 0 /\ (rm = 4 \/ (rm = 6 /\ odd) \/ (rm = 7 /\ ~neg) \/ (rm = 8 /\ neg))

(* The quotient q of a and b, its remainder r and what they tell.          *)
IsFraction(a, b, rm, neg, q, r, odd, some, middle, up) ==
    /\ rm \in 0..8 /\ neg \in BOOLEAN
    /\ q \in Int /\ q = a \div b
    /\ r \in Int /\ r = (a % b)
    /\ odd \in BOOLEAN /\ (odd <=> ((q % 2) = 1))
    /\ some \in BOOLEAN /\ (some <=> r > 0)
    /\ middle = Sgn(r - (b - r))
    /\ up \in BOOLEAN /\ (up <=> Away(rm, neg, odd, some, middle))

LEMMA RoundedIntIs ==
    ASSUME NEW num \in Int, NEW den \in Int, den # 0,
           NEW rm, NEW neg, neg <=> ((num < 0) # (den < 0)),
           NEW q, NEW r, NEW odd, NEW some, NEW middle, NEW up,
           IsFraction(AbsInt(num), AbsInt(den), rm, neg, q, r, odd, some, middle, up)
    PROVE  RoundedInt(num, den, rm) = (IF neg THEN -1 ELSE 1) * (q + IF up THEN 1 ELSE 0)
<1> USE DEF IsFraction
<1> DEFINE b == AbsInt(den)
           away == CASE rm = 0 -> r > 0
                     [] rm = 1 -> FALSE
                     [] rm = 2 -> r > 0 /\ ~neg
                     [] rm = 3 -> r > 0 /\ neg
                     [] rm \in 4..8 -> \/ r > b - r
                                       \/ /\ r = b - r
                                          /\ CASE rm = 4 -> TRUE
                                               [] rm = 5 -> FALSE
                                               [] rm = 6 -> (q % 2) = 1
                                               [] rm = 7 -> ~neg
                                               [] rm = 8 -> neg
           n == IF away THEN q + 1 ELSE q
<1>1. b \in Nat \ {0}
  BY DEF AbsInt
<1>2. ((num < 0) # (den < 0)) = neg
  OBVIOUS
<1>3. RoundedInt(num, den, rm) = IF neg THEN -n ELSE n
  BY <1>2 DEF RoundedInt
<1> HIDE DEF b
<1>4. (middle = 1 <=> r > b - r) /\ (middle = 0 <=> r = b - r)
  <2>1. r - (b - r) \in Int /\ middle = Sgn(r - (b - r))
    BY <1>1 DEF b
  <2>2. QED
    BY <1>1, <2>1 DEF Sgn
<1>5. away <=> up
  <2>1. CASE rm = 0
    BY <2>1 DEF Away
  <2>2. CASE rm = 1
    BY <2>2 DEF Away
  <2>3. CASE rm = 2
    BY <2>3 DEF Away
  <2>4. CASE rm = 3
    BY <2>4 DEF Away
  <2>5. CASE rm = 4
    BY <1>4, <2>5 DEF Away
  <2>6. CASE rm = 5
    BY <1>4, <2>6 DEF Away
  <2>7. CASE rm = 6
    BY <1>4, <2>7 DEF Away
  <2>8. CASE rm = 7
    BY <1>4, <2>8 DEF Away
  <2>9. CASE rm = 8
    BY <1>4, <2>9 DEF Away
  <2>10. rm = 0 \/ rm = 1 \/ rm = 2 \/ rm = 3 \/ rm = 4 \/ rm = 5 \/ rm = 6 \/ rm = 7 \/ rm = 8
    OBVIOUS
  <2> HIDE DEF away
  <2>11. QED
    BY <2>1, <2>2, <2>3, <2>4, <2>5, <2>6, <2>7, <2>8, <2>9, <2>10, Zenon
<1> HIDE DEF away
<1>6. QED
  BY <1>3, <1>5

(* The digit behind the first i, and whether there is more behind it.      *)
NextDigit(c, i)  == IF i + 1 \in DOMAIN c THEN c[i + 1] ELSE -1
More(c, i, rest) == rest \/ i < 0 \/ i + 2 \in DOMAIN c

(* What the digits behind the first i tell.                                *)
IsBehindPlace(x, i, rest, odd, some, middle, neg) ==
    /\ rest \in BOOLEAN
    /\ odd \in BOOLEAN /\ (odd <=> ((Digit(x.c, i) % 2) = 1))
    /\ some \in BOOLEAN /\ (some <=> (i + 1 \in DOMAIN x.c \/ More(x.c, i, rest)))
    /\ middle = IF 2 * NextDigit(x.c, i) > 10 \/ (2 * NextDigit(x.c, i) = 10 /\ More(x.c, i, rest)) THEN 1
                ELSE IF 2 * NextDigit(x.c, i) = 10 THEN 0 ELSE -1
    /\ neg \in BOOLEAN /\ (neg <=> IsNeg(x))

LEMMA RoundsUpIs ==
    ASSUME NEW rm \in 0..8, NEW x, HasDigits(x), NEW i \in Int,
           NEW rest, NEW odd, NEW some, NEW middle, NEW neg,
           IsBehindPlace(x, i, rest, odd, some, middle, neg)
    PROVE  RoundsUp(rm, x, i, 10, FALSE, rest) <=> Away(rm, neg, odd, some, middle)
<1> USE DEF IsBehindPlace
<1> DEFINE there == i + 1 \in DOMAIN x.c
           next  == IF there THEN x.c[i + 1] ELSE -1
           more  == rest \/ i < 0 \/ i + 2 \in DOMAIN x.c
           up == IF rm < 4
                 THEN /\ there \/ more
                      /\ rm = 0 \/ (rm = 2 /\ ~neg) \/ (rm = 3 /\ neg)
                 ELSE \/ 2 * next > 10
                      \/ /\ 2 * next = 10
                         /\ \/ rm = 4 \/ more
                            \/ rm = 6 /\ odd
                            \/ rm = 7 /\ ~neg
                            \/ rm = 8 /\ neg
<1>1. RoundsUp(rm, x, i, 10, FALSE, rest) <=> up
  BY DEF RoundsUp
<1>2. next = NextDigit(x.c, i) /\ (more <=> More(x.c, i, rest))
  BY DEF NextDigit, More
<1>3. next \in Int
  <2>1. \A j \in DOMAIN x.c : x.c[j] \in 0..9
    BY DEF HasDigits
  <2>2. QED
    BY <2>1
<1>4. some <=> (there \/ more)
  BY <1>2
<1>5. middle = IF 2 * next > 10 \/ (2 * next = 10 /\ more) THEN 1 ELSE IF 2 * next = 10 THEN 0 ELSE -1
  BY <1>2
<1> HIDE DEF there, next, more
<1>6. up <=> Away(rm, neg, odd, some, middle)
  <2>1. CASE rm < 4
    BY <1>4, <2>1 DEF Away
  <2>2. CASE ~(rm < 4)
    <3>1. rm \in 4..8
      BY <2>2
    <3>2. CASE 2 * next > 10
      BY <1>3, <1>5, <2>2, <3>1, <3>2 DEF Away
    <3>3. CASE 2 * next = 10 /\ more
      BY <1>3, <1>5, <2>2, <3>1, <3>3 DEF Away
    <3>4. CASE 2 * next = 10 /\ ~more
      BY <1>3, <1>5, <2>2, <3>1, <3>4 DEF Away
    <3>5. CASE 2 * next < 10
      BY <1>3, <1>5, <2>2, <3>1, <3>5 DEF Away
    <3>6. QED
      BY <1>3, <3>2, <3>3, <3>4, <3>5
  <2>3. QED
    BY <2>1, <2>2
<1>7. QED
  BY <1>1, <1>6

(* A quotient and a remainder are known by their product and sum.          *)
LEMMA DivIs ==
    ASSUME NEW a \in Nat, NEW b \in Nat \ {0}, NEW q \in Nat, NEW r \in 0..(b - 1), a = b * q + r
    PROVE  a \div b = q /\ (a % b) = r
<1>1. (a % b) \in 0..(b - 1) /\ a \div b \in Int /\ a = b * (a \div b) + (a % b)
  OBVIOUS
<1>2. PICK d \in Int : d = a \div b
  BY <1>1
<1>3. PICK m \in 0..(b - 1) : m = (a % b)
  BY <1>1
<1>4. b * d + m = b * q + r
  BY <1>1, <1>2, <1>3
<1>5. d = q
  <2>1. CASE d < q
    <3>1. b * (q - d) >= b * 1
      BY <2>1
    <3>2. b * (q - d) = b * q - b * d
      BY <1>2
    <3>3. b * q \in Int /\ b * d \in Int
      BY <1>2
    <3>4. QED
      BY <1>3, <1>4, <3>1, <3>2, <3>3
  <2>2. CASE d > q
    <3>1. b * (d - q) >= b * 1
      BY <1>2, <2>2
    <3>2. b * (d - q) = b * d - b * q
      BY <1>2
    <3>3. b * q \in Int /\ b * d \in Int
      BY <1>2
    <3>4. QED
      BY <1>3, <1>4, <3>1, <3>2, <3>3
  <2>3. QED
    BY <1>2, <2>1, <2>2
<1>6. m = r
  <2>1. b * q \in Int
    OBVIOUS
  <2>2. QED
    BY <1>3, <1>4, <1>5, <2>1
<1>7. QED
  BY <1>2, <1>3, <1>5, <1>6

LEMMA LessByFactor ==
    ASSUME NEW c \in Nat \ {0}, NEW a \in Int, NEW b \in Int
    PROVE  (c * a < c * b <=> a < b) /\ (c * a = c * b <=> a = b)
<1>1. a < b => c * a < c * b
  <2>1. a < b => c * (b - a) >= c * 1
    OBVIOUS
  <2>2. c * (b - a) = c * b - c * a /\ c * a \in Int /\ c * b \in Int
    OBVIOUS
  <2>3. QED
    BY <2>1, <2>2
<1>2. b < a => c * b < c * a
  <2>1. b < a => c * (a - b) >= c * 1
    OBVIOUS
  <2>2. c * (a - b) = c * a - c * b /\ c * a \in Int /\ c * b \in Int
    OBVIOUS
  <2>3. QED
    BY <2>1, <2>2
<1>3. c * a \in Int /\ c * b \in Int
  OBVIOUS
<1>4. QED
  BY <1>1, <1>2, <1>3

(* The next digit of a quotient, t, and what is left behind it, w, tell    *)
(* how its remainder is related to the half of the divisor.                *)
MiddleOf(t, more) == IF 2 * t > 10 \/ (2 * t = 10 /\ more) THEN 1 ELSE IF 2 * t = 10 THEN 0 ELSE -1

Tells(A, B, U, t, w) ==
    LET r == (A % B)
    IN  /\ A \div B = U /\ r \in Int
        /\ r > 0 <=> t > 0 \/ w > 0
        /\ Sgn(r - (B - r)) = MiddleOf(t, w > 0)

LEMMA NextDigitTells ==
    ASSUME NEW C \in Nat \ {0}, NEW T \in Nat \ {0}, NEW B \in Nat \ {0}, NEW A \in Nat, NEW U \in Nat,
           NEW w \in Nat, NEW t \in 0..9, w < T, C * A = (10 * U + t) * T + w, C * B = 10 * T
    PROVE  Tells(A, B, U, t, w)
<1>1. PICK v \in Int : v = U * T
  OBVIOUS
<1>2. PICK tt \in Int : tt = t * T
  OBVIOUS
<1>3. tt <= 9 * T /\ tt >= 0 /\ (t > 0 <=> tt > 0)
  <2>1. t = 0 \/ t = 1 \/ t = 2 \/ t = 3 \/ t = 4 \/ t = 5 \/ t = 6 \/ t = 7 \/ t = 8 \/ t = 9
    OBVIOUS
  <2>2. QED
    BY <1>2, <2>1
<1>4. (10 * U + t) * T = 10 * v + tt
  BY <1>1, <1>2
<1>5. PICK b \in Int : b = B * U
  OBVIOUS
<1>6. C * b = 10 * v
  <2>1. C * (B * U) = (C * B) * U
    OBVIOUS
  <2>2. (10 * T) * U = 10 * (U * T)
    OBVIOUS
  <2>3. QED
    BY <1>1, <1>5, <2>1, <2>2
<1> DEFINE s == A - b
<1>7. s \in Int /\ C * s = tt + w
  <2>1. C * (A - b) = C * A - C * b /\ C * A \in Int
    BY <1>5
  <2>2. QED
    BY <1>1, <1>2, <1>4, <1>5, <1>6, <2>1
<1>8. s >= 0
  <2>1. C * s < C * 0 <=> s < 0
    BY <1>7, LessByFactor
  <2>2. QED
    BY <1>2, <1>3, <1>7, <2>1
<1>9. s < B
  <2>1. C * s < C * B <=> s < B
    BY <1>7, LessByFactor
  <2>2. QED
    BY <1>2, <1>3, <1>7, <2>1
<1>10. A \div B = U /\ (A % B) = s
  <2>1. A = B * U + s
    BY <1>5
  <2>2. s \in 0..(B - 1)
    BY <1>7, <1>8, <1>9
  <2> HIDE DEF s
  <2>3. QED
    BY <2>1, <2>2, DivIs
<1> HIDE DEF s
<1>11. s > 0 <=> t > 0 \/ w > 0
  <2>1. C * 0 < C * s <=> 0 < s
    BY <1>7, LessByFactor
  <2>2. QED
    BY <1>2, <1>3, <1>7, <2>1
<1>12. Sgn(s - (B - s)) = MiddleOf(t, w > 0)
  <2> DEFINE d == s - (B - s)
  <2>1. d \in Int /\ C * d = 2 * tt + 2 * w - 10 * T
    <3>1. C * (s - (B - s)) = 2 * (C * s) - C * B /\ C * s \in Int /\ C * B \in Int
      BY <1>7
    <3>2. QED
      BY <1>2, <1>7, <3>1
  <2>2. (C * 0 < C * d <=> 0 < d) /\ (C * d < C * 0 <=> d < 0)
    BY <2>1, LessByFactor
  <2>3. C * 0 = 0
    OBVIOUS
  <2>4. CASE t > 5
    <3>1. tt >= 6 * T
      <4>1. t = 6 \/ t = 7 \/ t = 8 \/ t = 9
        BY <2>4
      <4>2. QED
        BY <1>2, <4>1
    <3>2. d > 0
      BY <1>2, <2>1, <2>2, <2>3, <3>1
    <3>3. QED
      BY <2>1, <2>4, <3>2 DEF Sgn, MiddleOf
  <2>5. CASE t = 5
    <3>1. tt = 5 * T
      BY <1>2, <2>5
    <3>2. (w > 0 => d > 0) /\ (w = 0 => d = 0)
      BY <1>2, <2>1, <2>2, <2>3, <3>1
    <3>3. QED
      BY <2>1, <2>5, <3>2 DEF Sgn, MiddleOf
  <2>6. CASE t < 5
    <3>1. tt <= 4 * T
      <4>1. t = 0 \/ t = 1 \/ t = 2 \/ t = 3 \/ t = 4
        BY <2>6
      <4>2. QED
        BY <1>2, <4>1
    <3>2. d < 0
      BY <1>2, <2>1, <2>2, <2>3, <3>1
    <3>3. QED
      BY <2>1, <2>6, <3>2 DEF Sgn, MiddleOf
  <2>7. QED
    BY <2>4, <2>5, <2>6
<1>13. QED
  BY <1>7, <1>10, <1>11, <1>12 DEF Tells

(* What is behind the first n digits of a number with a digits, the last   *)
(* of which is not 0.                                                      *)
IsBehind(c, a, n, l) ==
    l < Power(10, a - n) /\ FromDigits(c, 10) = Prefix(c, 10, n) * Power(10, a - n) + l

LEMMA DigitsBehind ==
    ASSUME NEW a \in Nat \ {0}, NEW c, Decimal(c, a), c[a] # 0, NEW n \in Nat, n < a
    PROVE  \E l \in Nat \ {0} : IsBehind(c, a, n, l)
<1>1. PICK k \in Nat : k = a - n /\ n + k = a /\ k > 0 /\ k - 1 \in Nat /\ (k - 1) + 1 = k
  <2>1. a - n \in Nat /\ n + (a - n) = a /\ a - n > 0 /\ (a - n) - 1 \in Nat /\ ((a - n) - 1) + 1 = a - n
    OBVIOUS
  <2>2. QED
    BY <2>1
<1>2. c \in Seq(0..9) /\ Len(c) = a /\ FromDigits(c, 10) = Prefix(c, 10, a)
  BY DEF Decimal, FromDigits
<1> DEFINE d == SubSeq(c, n + 1, a)
<1>3. d \in Seq(0..9) /\ Len(d) = k /\ \A i \in 1..k : d[i] = c[n + i]
  <2>1. \A i \in (n + 1)..a : c[i] \in 0..9
    BY <1>2
  <2>0. n + 1 \in Int /\ a \in Int /\ n + 1 <= a
    OBVIOUS
  <2>2. a - (n + 1) + 1 = k /\ \A i \in 1..k : (n + 1) + i - 1 = n + i
    BY <1>1
  <2>3. d \in Seq(0..9) /\ Len(d) = a - (n + 1) + 1
        /\ \A i \in 1..(a - (n + 1) + 1) : d[i] = c[(n + 1) + i - 1]
    BY <2>0, <2>1, SubSeqProperties
  <2> HIDE DEF d
  <2>4. QED
    BY <2>2, <2>3
<1> HIDE DEF d
<1>4. Decimal(d, k)
  BY <1>3 DEF Decimal
<1>5. /\ IntDigits(c) /\ \A i \in 1..a : Digit(c, i) = c[i]
      /\ IntDigits(d) /\ BaseDigits(10, d) /\ \A i \in 1..k : Digit(d, i) = d[i] /\ d[i] \in 0..9
  BY <1>4, TenDigits
<1>6. \A i \in 1..k : Digit(c, n + i) = Digit(d, i)
  <2>1. \A i \in 1..k : n + i \in 1..a
    BY <1>1
  <2>2. QED
    BY <1>3, <1>5, <2>1
<1>7. 10 \in Int /\ IntDigits(c) /\ IntDigits(d)
  BY <1>5
<1>8. Prefix(c, 10, n + k) = Prefix(c, 10, n) * Power(10, k) + Prefix(d, 10, k)
  BY <1>6, <1>7, PrefixSplit
<1>9. Prefix(d, 10, k) \in Nat /\ Prefix(d, 10, k) < Power(10, k)
  BY <1>5, TenInt, PrefixBounds, Zenon
<1>10. Prefix(d, 10, k) # 0
  <2>1. k - 1 \in Nat
    BY <1>1
  <2>2. Prefix(d, 10, (k - 1) + 1) = Prefix(d, 10, k - 1) * 10 + Digit(d, (k - 1) + 1)
    BY <1>7, <2>1, PrefixNext, Zenon
  <2>3. Prefix(d, 10, k - 1) \in Nat
    BY <1>5, <2>1, TenInt, PrefixBounds, Zenon
  <2>4. Digit(d, k) \in 0..9 /\ Digit(d, k) # 0
    <3>1. k \in 1..k /\ n + k = a
      BY <1>1
    <3>2. QED
      BY <1>3, <1>5, <3>1
  <2>5. (k - 1) + 1 = k
    BY <1>1
  <2>6. QED
    BY <2>2, <2>3, <2>4, <2>5
<1>11. QED
  BY <1>1, <1>2, <1>8, <1>9, <1>10 DEF IsBehind

----------------------------------------------------------------------------
(* The fraction that is rounded, of the digits x and d of two numbers.     *)

NumOf(x, k) == IF k >= 0 THEN x * Power(10, k) ELSE x
DenOf(d, k) == IF k >= 0 THEN d ELSE d * Power(10, -k)

LEMMA FractionNat ==
    ASSUME NEW x \in Nat, NEW d \in Nat \ {0}, NEW k \in Int
    PROVE  /\ NumOf(x, k) \in Nat /\ DenOf(d, k) \in Nat \ {0}
           /\ x # 0 => NumOf(x, k) # 0
<1>1. CASE k >= 0
  <2>1. k \in Nat
    BY <1>1
  <2>2. PICK f \in Nat \ {0} : f = Power(10, k)
    BY <2>1, TenInt, PowerPositive, Zenon
  <2>3. x * f \in Nat /\ (x # 0 => x * f # 0)
    OBVIOUS
  <2>4. QED
    BY <1>1, <2>2, <2>3 DEF NumOf, DenOf
<1>2. CASE ~(k >= 0)
  <2>1. -k \in Nat
    BY <1>2
  <2>2. PICK f \in Nat \ {0} : f = Power(10, -k)
    BY <2>1, TenInt, PowerPositive, Zenon
  <2>3. d * f \in Nat \ {0}
    OBVIOUS
  <2>4. QED
    BY <1>2, <2>2, <2>3 DEF NumOf, DenOf
<1>3. QED
  BY <1>1, <1>2

IsRounded(m, n, p, dp, rm, s, q, up) == RoundedTo(m, n, p, dp, rm) = s * (q + IF up THEN 1 ELSE 0)

LEMMA RoundedToIs ==
    ASSUME NEW x \in Nat \ {0}, NEW d \in Nat \ {0}, NEW s \in {-1, 1}, NEW t \in {-1, 1},
           NEW p \in Int, NEW dp \in Int, NEW k \in Int, k = p + dp,
           NEW rm, NEW neg, neg <=> s # t,
           NEW q, NEW r, NEW odd, NEW some, NEW middle, NEW up,
           IsFraction(NumOf(x, k), DenOf(d, k), rm, neg, q, r, odd, some, middle, up)
    PROVE  IsRounded(s * x, t * d, p, dp, rm, IF s = t THEN 1 ELSE -1, q, up)
<1> DEFINE a == NumOf(x, k)
           b == DenOf(d, k)
<1>1. a \in Nat /\ b \in Nat \ {0} /\ a # 0
  BY FractionNat
<1>2. RoundedTo(s * x, t * d, p, dp, rm) = RoundedInt(s * a, t * b, rm)
  <2>1. CASE k >= 0
    <3>1. k \in Nat
      BY <2>1
    <3>2. Power(10, k) \in Int
      BY <3>1, TenInt, PowerInt
    <3>3. (s * x) * Power(10, k) = s * (x * Power(10, k))
      BY <3>2
    <3>4. QED
      BY <2>1, <3>3 DEF RoundedTo, NumOf, DenOf
  <2>2. CASE ~(k >= 0)
    <3>1. -k \in Nat /\ -p - dp = -k
      BY <2>2
    <3>2. Power(10, -k) \in Int
      BY <3>1, TenInt, PowerInt
    <3>3. (t * d) * Power(10, -k) = t * (d * Power(10, -k))
      BY <3>2
    <3>4. QED
      BY <2>2, <3>1, <3>3 DEF RoundedTo, NumOf, DenOf
  <2>3. QED
    BY <2>1, <2>2
<1>3. IsFraction(a, b, rm, neg, q, r, odd, some, middle, up)
  OBVIOUS
<1> HIDE DEF a, b
<1>4. AbsInt(s * a) = a /\ AbsInt(t * b) = b /\ s * a \in Int /\ t * b \in Int /\ t * b # 0
  BY <1>1 DEF AbsInt
<1>5. neg <=> ((s * a < 0) # (t * b < 0))
  <2>1. s * a < 0 <=> s = -1
    BY <1>1
  <2>2. t * b < 0 <=> t = -1
    BY <1>1
  <2>3. QED
    BY <2>1, <2>2
<1> DEFINE num == s * a
           den == t * b
<1>6. num \in Int /\ den \in Int /\ den # 0 /\ (neg <=> ((num < 0) # (den < 0)))
      /\ IsFraction(AbsInt(num), AbsInt(den), rm, neg, q, r, odd, some, middle, up)
  BY <1>3, <1>4, <1>5
<1> HIDE DEF num, den
<1>7. RoundedInt(num, den, rm) = (IF neg THEN -1 ELSE 1) * (q + IF up THEN 1 ELSE 0)
  BY <1>6, RoundedIntIs
<1>8. (IF neg THEN -1 ELSE 1) = (IF s = t THEN 1 ELSE -1)
  OBVIOUS
<1>9. QED
  BY <1>2, <1>7, <1>8 DEF num, den, IsRounded

LEMMA SmallPowers == Power(10, 0) = 1 /\ Power(10, 1) = 10 /\ Power(10, 2) = 100
<1>1. Power(10, 0) = 1
  BY TenInt, PowerZero, Zenon
<1>2. 0 \in Nat /\ 1 \in Nat /\ 0 + 1 = 1 /\ 1 + 1 = 2
  OBVIOUS
<1>3. Power(10, 0 + 1) = Power(10, 0) * 10 /\ Power(10, 1 + 1) = Power(10, 1) * 10
  BY <1>2, TenInt, PowerNext, Zenon
<1>4. QED
  BY <1>1, <1>2, <1>3

(* v, the digits of a quotient with one more than is kept, and whether     *)
(* there is more, determine how the fraction num/den is rounded.           *)
Precedes(num, den, v, more) ==
    \E c \in Nat \ {0}, t \in Nat \ {0}, w \in Nat :
        w < t /\ c * num = v * t + w /\ c * den = 10 * t /\ (more <=> w > 0)

LEMMA PrecedesSame ==
    ASSUME NEW num, NEW den, NEW v, NEW a, NEW b, a <=> b, Precedes(num, den, v, a)
    PROVE  Precedes(num, den, v, b)
  BY DEF Precedes

(* The part of the dividend the division has not reached.                  *)
LEMMA NotReached ==
    ASSUME NEW dvd, NEW a, NEW b, NEW D, Dividend(dvd, a, b, D), NEW k \in Nat \ {0},
           NEW st, Divided(dvd, a, b, D, k, st), Len(st.qc) = k
    PROVE  /\ FromDigits(st.qc, 10) * (10 * D) + st.rem = Prefix(dvd, 10, b + k)
           /\ st.left \in BOOLEAN /\ st.rem \in Nat /\ st.rem < 10 * D /\ FromDigits(st.qc, 10) \in Nat
           /\ b + k >= a => (st.left <=> st.rem > 0)
           /\ b + k < a => st.left
<1>1. /\ st \in DivStates(D)
      /\ IF st.left THEN k = k ELSE k \in 1..k /\ st.qc[k] # 0 /\ k + b > a /\ st.rem = 0
      /\ FromDigits(st.qc, 10) * (10 * D) + st.rem = Prefix(dvd, 10, b + k)
      /\ (st.left /\ st.rem = 0) => b + k + 1 <= a
      /\ (st.left /\ k > 0 /\ b + k > a) => st.rem # 0
  BY DEF Divided
<1>2. D \in Nat \ {0} /\ a \in Nat /\ b \in Nat
  BY DEF Dividend
<1>3. st.left \in BOOLEAN /\ st.rem \in 0..(10 * D - 1) /\ st.qc \in Seq(0..9)
  BY <1>1 DEF DivStates
<1>4. FromDigits(st.qc, 10) \in Nat
  <2>1. BaseDigits(10, st.qc)
    BY <1>3, TenDigits DEF Decimal
  <2>2. Prefix(st.qc, 10, k) \in Nat
    <3>1. k \in Nat
      OBVIOUS
    <3>2. QED
      BY <2>1, <3>1, TenInt, PrefixBounds, Zenon
  <2>3. QED
    BY <2>2 DEF FromDigits
<1>5. b + k >= a => (st.left <=> st.rem > 0)
  <2>1. CASE st.left
    BY <1>1, <1>2, <1>3, <2>1
  <2>2. CASE ~st.left
    BY <1>1, <2>2
  <2>3. QED
    BY <2>1, <2>2
<1>6. b + k < a => st.left
  BY <1>1, <1>2
<1>7. st.rem \in Nat /\ st.rem < 10 * D
  BY <1>2, <1>3
<1>8. QED
  BY <1>1, <1>3, <1>4, <1>5, <1>6, <1>7

LEMMA DividedPrecedes ==
    ASSUME NEW dvd, NEW a, NEW b, NEW D, Dividend(dvd, a, b, D), NEW k \in Nat \ {0},
           NEW st, Divided(dvd, a, b, D, k, st), Len(st.qc) = k,
           NEW u \in Int, u = b + k - a - 2
    PROVE  Precedes(NumOf(FromDigits(dvd, 10), u), DenOf(D, u), FromDigits(st.qc, 10), st.left)
<1> DEFINE X == FromDigits(dvd, 10)
           V == FromDigits(st.qc, 10)
           R == st.rem
           L == st.left
           num == NumOf(X, u)
           den == DenOf(D, u)
<1>1. D \in Nat \ {0} /\ a \in Nat \ {0} /\ b \in Nat /\ Decimal(dvd, a) /\ dvd[a] # 0
  BY DEF Dividend
<1>2. /\ V * (10 * D) + R = Prefix(dvd, 10, b + k)
      /\ L \in BOOLEAN /\ R \in Nat /\ R < 10 * D /\ V \in Nat
      /\ b + k >= a => (L <=> R > 0)
      /\ b + k < a => L
  BY NotReached
<1>3. X \in Nat
  <2>1. BaseDigits(10, dvd) /\ a \in Nat /\ Len(dvd) = a
    BY <1>1, TenDigits DEF Decimal
  <2>2. Prefix(dvd, 10, a) \in Nat
    BY <2>1, TenInt, PrefixBounds, Zenon
  <2>3. QED
    BY <2>1, <2>2 DEF FromDigits
<1>4. PICK n \in Nat : n = b + k
  BY <1>1
<1>5. n < a => \E l \in Nat \ {0} : IsBehind(dvd, a, n, l)
  BY <1>1, DigitsBehind
<1>6. a <= n => Prefix(dvd, 10, n) = X * Power(10, n - a)
  BY <1>1, PrefixBeyond
<1>7. V * (10 * D) + R = Prefix(dvd, 10, n)
  BY <1>2, <1>4
<1> DEFINE Y == Prefix(dvd, 10, n)
<1>8. u = n - a - 2 /\ u \in Int
  BY <1>1, <1>4
<1> HIDE DEF X, V, R, L, Y
<1>9. CASE n < a
  <2>1. PICK l \in Nat \ {0} : l < Power(10, a - n) /\ X = Y * Power(10, a - n) + l
    BY <1>5, <1>9 DEF IsBehind, X, Y
  <2>2. PICK j \in Nat : j = a - n /\ -u = j + 2
    BY <1>1, <1>4, <1>8, <1>9
  <2>3. PICK f \in Nat \ {0} : f = Power(10, j)
    BY TenInt, PowerPositive, Zenon
  <2>4. Power(10, j + 2) = f * 100
    <3>1. 2 \in Nat
      OBVIOUS
    <3>2. Power(10, j + 2) = Power(10, j) * Power(10, 2)
      BY <3>1, TenInt, PowerPlus, Zenon
    <3>3. QED
      BY <2>3, <3>2, SmallPowers, Zenon
  <2>5. ~(u >= 0)
    BY <1>8, <2>2
  <2>6. num = X /\ den = D * (f * 100)
    BY <2>2, <2>4, <2>5 DEF NumOf, DenOf
  <2> HIDE DEF num, den
  <2> DEFINE t == (10 * D) * f
             w == R * f + l
  <2>7. t \in Nat \ {0} /\ w \in Nat /\ w > 0
    <3>1. (10 * D) * f \in Nat \ {0} /\ R * f \in Nat
      BY <1>1, <1>2, <2>3
    <3>2. QED
      BY <2>1, <3>1
  <2>8. w < t
    <3>1. R + 1 <= 10 * D
      BY <1>1, <1>2
    <3>2. (R + 1) * f <= (10 * D) * f
      <4>1. PICK h \in Nat : R + 1 + h = 10 * D
        <5>1. 10 * D - (R + 1) \in Nat /\ R + 1 + (10 * D - (R + 1)) = 10 * D
          BY <1>1, <1>2, <3>1
        <5>2. QED
          BY <5>1
      <4>2. (R + 1 + h) * f = (R + 1) * f + h * f /\ h * f \in Nat /\ (R + 1) * f \in Nat
        <5>1. \A r \in Nat, i \in Nat, g \in Nat : (r + i) * g = r * g + i * g /\ i * g \in Nat /\ r * g \in Nat
          OBVIOUS
        <5>2. R + 1 \in Nat /\ f \in Nat /\ h \in Nat
          BY <1>2, <2>3, <4>1
        <5>3. QED
          BY <5>1, <5>2
      <4>3. QED
        BY <4>1, <4>2
    <3>3. (R + 1) * f = R * f + f /\ R * f \in Nat /\ (10 * D) * f \in Nat
      BY <1>1, <1>2, <2>3, SMTT(30)
    <3>4. l < f
      BY <2>1, <2>2, <2>3
    <3>5. QED
      BY <2>1, <2>3, <3>2, <3>3, <3>4
  <2>9. 1 * num = V * t + w
    <3>1. X = Y * f + l
      BY <2>1, <2>2, <2>3
    <3>2. Y = V * (10 * D) + R
      BY <1>7 DEF Y
    <3>3. PICK z \in Int : z = V * (10 * D)
      BY <1>1, <1>2
    <3>4. (z + R) * f = z * f + R * f
      BY <1>2, <2>3, <3>3
    <3>5. z * f = V * ((10 * D) * f)
      BY <1>1, <1>2, <2>3, <3>3
    <3>6. z * f \in Int /\ R * f \in Int
      BY <1>2, <2>3, <3>3
    <3>7. 1 * X = z * f + (R * f + l)
      <4>1. Y = z + R
        BY <3>2, <3>3
      <4>2. Y * f = z * f + R * f
        BY <3>4, <4>1
      <4>3. QED
        BY <1>3, <2>1, <3>1, <3>6, <4>2
    <3>8. QED
      BY <2>6, <3>5, <3>7
  <2>10. 1 * den = 10 * t
    <3>1. 1 * (D * (f * 100)) = 10 * ((10 * D) * f)
      BY <1>1, <2>3
    <3>2. QED
      BY <2>6, <3>1
  <2>11. L <=> w > 0
    BY <1>2, <1>4, <1>9, <2>7
  <2> HIDE DEF t, w
  <2>12. \E c \in Nat \ {0}, tt \in Nat \ {0}, ww \in Nat :
            ww < tt /\ c * num = V * tt + ww /\ c * den = 10 * tt /\ (L <=> ww > 0)
    <3>1. 1 \in Nat \ {0}
      OBVIOUS
    <3>2. QED
      BY <2>7, <2>8, <2>9, <2>10, <2>11, <3>1, Zenon
  <2>13. QED
    BY <2>12 DEF Precedes, L, V, X, num, den
<1>10. CASE ~(n < a)
  <2>1. Y = X * Power(10, n - a)
    BY <1>1, <1>4, <1>6, <1>10 DEF Y
  <2>2. PICK j \in Nat : j = n - a /\ u = j - 2
    BY <1>1, <1>4, <1>8, <1>10
  <2>3. L <=> R > 0
    BY <1>1, <1>2, <1>4, <1>10
  <2>4. \E c \in Nat \ {0} : c * num = Y /\ c * den = 10 * (10 * D)
    <3>1. CASE j = 0
      <4>1. u = -2 /\ -u = 2 /\ ~(u >= 0)
        BY <2>2, <3>1
      <4>2. num = X /\ den = D * 100
        BY <4>1, SmallPowers DEF NumOf, DenOf
      <4>3. Y = X * 1
        BY <2>1, <2>2, <3>1, SmallPowers
      <4> HIDE DEF num, den
      <4>4. 1 * num = Y /\ 1 * den = 10 * (10 * D)
        BY <1>1, <1>3, <4>2, <4>3
      <4>5. QED
        BY <4>4
    <3>2. CASE j = 1
      <4>1. u = -1 /\ -u = 1 /\ ~(u >= 0)
        BY <2>2, <3>2
      <4>2. num = X /\ den = D * 10
        BY <4>1, SmallPowers DEF NumOf, DenOf
      <4>3. Y = X * 10
        BY <2>1, <2>2, <3>2, SmallPowers
      <4> HIDE DEF num, den
      <4>4. 10 * num = Y /\ 10 * den = 10 * (10 * D)
        BY <1>1, <1>3, <4>2, <4>3
      <4>5. QED
        BY <4>4
    <3>3. CASE j > 1
      <4>1. u \in Nat /\ u >= 0 /\ j = u + 2
        BY <2>2, <3>3
      <4>2. PICK f \in Nat \ {0} : f = Power(10, u)
        BY <4>1, TenInt, PowerPositive, Zenon
      <4>3. Power(10, j) = f * 100
        <5>1. 2 \in Nat
          OBVIOUS
        <5>2. Power(10, u + 2) = Power(10, u) * Power(10, 2)
          BY <4>1, <5>1, TenInt, PowerPlus, SMT
        <5>3. QED
          BY <4>1, <4>2, <5>2, SmallPowers, Zenon
      <4>4. num = X * f /\ den = D
        BY <4>1, <4>2 DEF NumOf, DenOf
      <4>5. Y = X * (f * 100)
        BY <2>1, <2>2, <4>3
      <4> HIDE DEF num, den
      <4>6. 100 * num = Y /\ 100 * den = 10 * (10 * D)
        <5>1. 100 * (X * f) = X * (f * 100)
          BY <1>3, <4>2
        <5>2. QED
          BY <1>1, <4>4, <4>5, <5>1
      <4>7. QED
        BY <4>6
    <3>4. QED
      BY <3>1, <3>2, <3>3
  <2>5. PICK c \in Nat \ {0} : c * num = Y /\ c * den = 10 * (10 * D)
    BY <2>4
  <2> DEFINE t == 10 * D
  <2>6. t \in Nat \ {0} /\ R < t /\ R \in Nat /\ V * t + R = Y
    BY <1>1, <1>2, <1>7 DEF Y
  <2>7. c * num = V * t + R /\ c * den = 10 * t
    BY <2>5, <2>6
  <2> HIDE DEF num, den, t
  <2>8. \E c2 \in Nat \ {0}, tt \in Nat \ {0}, ww \in Nat :
            ww < tt /\ c2 * num = V * tt + ww /\ c2 * den = 10 * tt /\ (L <=> ww > 0)
    BY <2>3, <2>6, <2>7, Zenon
  <2>9. QED
    BY <2>8 DEF Precedes, L, V, X, num, den
<1>11. QED
  BY <1>9, <1>10

Decides(rm, neg, u, t, more, odd, some, up) ==
    /\ u \in Nat /\ t \in 0..9 /\ more \in BOOLEAN
    /\ rm \in 0..8 /\ neg \in BOOLEAN
    /\ odd \in BOOLEAN /\ (odd <=> ((u % 2) = 1))
    /\ some \in BOOLEAN /\ (some <=> (t > 0 \/ more))
    /\ up \in BOOLEAN /\ (up <=> Away(rm, neg, odd, some, MiddleOf(t, more)))

LEMMA FractionRounds ==
    ASSUME NEW num \in Nat, NEW den \in Nat \ {0},
           NEW rm, NEW neg, NEW u, NEW t, NEW more, NEW odd, NEW some, NEW up,
           Decides(rm, neg, u, t, more, odd, some, up),
           Precedes(num, den, 10 * u + t, more)
    PROVE  IsFraction(num, den, rm, neg, u, (num % den), odd, some, MiddleOf(t, more), up)
<1> USE DEF Decides
<1>1. PICK c \in Nat \ {0}, f \in Nat \ {0}, w \in Nat :
          w < f /\ c * num = (10 * u + t) * f + w /\ c * den = 10 * f /\ (more <=> w > 0)
  BY DEF Precedes
<1> DEFINE r == (num % den)
<1>2. /\ num \div den = u /\ r \in Int
      /\ r > 0 <=> t > 0 \/ w > 0
      /\ Sgn(r - (den - r)) = MiddleOf(t, w > 0)
  <2>1. Tells(num, den, u, t, w)
    BY <1>1, NextDigitTells
  <2>2. QED
    BY <2>1 DEF Tells
<1> HIDE DEF r
<1>3. MiddleOf(t, w > 0) = MiddleOf(t, more)
  BY <1>1 DEF MiddleOf
<1>4. some <=> r > 0
  BY <1>1, <1>2
<1>5. IsFraction(num, den, rm, neg, u, r, odd, some, MiddleOf(t, more), up)
  BY <1>2, <1>3, <1>4 DEF IsFraction, r
<1>6. QED
  BY <1>5 DEF r

(* A fraction below a tenth is as good as 0.                               *)
LEMMA SmallFraction ==
    ASSUME NEW num \in Nat \ {0}, NEW den \in Nat \ {0}, 10 * num < den
    PROVE  Precedes(num, den, 10 * 0 + 0, TRUE)
<1>1. /\ 10 * num < den /\ 10 * num = (10 * 0 + 0) * den + 10 * num /\ 10 * den = 10 * den
      /\ 10 * num > 0 /\ 10 * num \in Nat /\ 10 \in Nat \ {0}
  OBVIOUS
<1>2. TRUE <=> 10 * num > 0
  BY <1>1
<1> DEFINE w == 10 * num
<1>3. w < den /\ 10 * num = (10 * 0 + 0) * den + w /\ w \in Nat /\ (TRUE <=> w > 0)
  BY <1>1, <1>2
<1> HIDE DEF w
<1>4. \E c \in Nat \ {0}, t \in Nat \ {0}, v \in Nat :
        v < t /\ c * num = (10 * 0 + 0) * t + v /\ c * den = 10 * t /\ (TRUE <=> v > 0)
  BY <1>1, <1>3, Zenon
<1>5. QED
  BY <1>4 DEF Precedes

LEMMA BeforePlaces ==
    ASSUME NEW x \in Nat \ {0}, NEW d \in Nat \ {0}, NEW a \in Nat \ {0}, NEW b \in Nat \ {0},
           x < Power(10, a), d >= Power(10, b - 1), NEW u \in Int, u < b - a - 1
    PROVE  10 * NumOf(x, u) < DenOf(d, u)
<1>1. a \in Nat /\ b - 1 \in Nat
  OBVIOUS
<1>2. PICK f \in Nat \ {0} : f = Power(10, a)
  BY <1>1, TenInt, PowerPositive, Zenon
<1>3. PICK h \in Nat \ {0} : h = Power(10, b - 1)
  BY <1>1, TenInt, PowerPositive, Zenon
<1>4. CASE u >= 0
  <2>1. u \in Nat /\ a + u \in Nat /\ (a + u) + 1 \in Nat /\ (a + u) + 1 <= b - 1
    BY <1>1, <1>4
  <2>2. PICK k \in Nat \ {0} : k = Power(10, u)
    BY <2>1, TenInt, PowerPositive, Zenon
  <2>3. Power(10, a + u) = Power(10, a) * Power(10, u)
    BY <1>1, <2>1, TenInt, PowerPlus
  <2>4. Power(10, (a + u) + 1) = Power(10, a + u) * 10
    BY <2>1, TenInt, PowerNext, Zenon
  <2>5. Power(10, (a + u) + 1) <= Power(10, b - 1)
    BY <1>1, <2>1, TenInt, PowerMonotone, Zenon
  <2>6. (f * k) * 10 <= h
    BY <1>2, <1>3, <2>2, <2>3, <2>4, <2>5
  <2>7. x * k < f * k
    BY <1>2, <2>2, LessByFactor
  <2>8. x * k \in Nat /\ f * k \in Nat
    BY <1>2, <2>2
  <2>9. 10 * (x * k) < d
    BY <1>2, <1>3, <2>6, <2>7, <2>8
  <2>10. QED
    BY <1>4, <2>2, <2>9 DEF NumOf, DenOf
<1>5. CASE ~(u >= 0)
  <2>1. PICK j \in Nat : j = -u
    BY <1>5
  <2>2. j + (b - 1) \in Nat /\ a + 1 \in Nat /\ a + 1 <= j + (b - 1)
    BY <1>1, <2>1
  <2>3. PICK k \in Nat \ {0} : k = Power(10, j)
    BY TenInt, PowerPositive, Zenon
  <2>4. Power(10, a + 1) = Power(10, a) * 10
    BY <1>1, TenInt, PowerNext, Zenon
  <2>5. Power(10, a + 1) <= Power(10, j + (b - 1))
    BY <2>2, TenInt, PowerMonotone, Zenon
  <2>6. Power(10, j + (b - 1)) = Power(10, j) * Power(10, b - 1)
    BY <1>1, TenInt, PowerPlus
  <2>7. f * 10 <= k * h
    BY <1>2, <1>3, <2>3, <2>4, <2>5, <2>6
  <2>8. k * h <= d * k
    <3>1. k * d < k * h <=> d < h
      BY <1>3, <2>3, LessByFactor
    <3>2. k * d = d * k /\ k * d \in Int /\ k * h \in Int
      BY <1>3, <2>3
    <3>3. QED
      BY <1>3, <3>1, <3>2
  <2>9. k * h \in Nat /\ d * k \in Nat
    BY <1>3, <2>3
  <2>10. 10 * x < d * k
    BY <1>2, <2>7, <2>8, <2>9
  <2>11. QED
    BY <1>5, <2>1, <2>3, <2>10 DEF NumOf, DenOf
<1>6. QED
  BY <1>4, <1>5

(* The digits that are kept and the one that is not.                       *)
KeptDigits(x, i) == IF i >= 1 THEN Prefix(x.c, 10, i) ELSE 0

LEMMA LastDigit ==
    ASSUME NEW x, HasDigits(x), NEW i \in Nat, i + 1 <= Len(x.c)
    PROVE  /\ Prefix(x.c, 10, i + 1) = 10 * KeptDigits(x, i) + NextDigit(x.c, i)
           /\ NextDigit(x.c, i) \in 0..9 /\ KeptDigits(x, i) \in Nat /\ i + 1 \in DOMAIN x.c
<1>0. PICK l \in Nat : l = Len(x.c) /\ i + 1 <= l
  BY DEF HasDigits
<1>1. Decimal(x.c, l) /\ DOMAIN x.c = 1..l
  BY <1>0 DEF HasDigits, Decimal
<1>2. BaseDigits(10, x.c) /\ IntDigits(x.c) /\ \A j \in 1..l : Digit(x.c, j) = x.c[j] /\ x.c[j] \in 0..9
  BY <1>1, TenDigits
<1>3. i + 1 \in 1..l
  BY <1>0
<1>4. NextDigit(x.c, i) = Digit(x.c, i + 1) /\ NextDigit(x.c, i) \in 0..9
  BY <1>1, <1>2, <1>3 DEF NextDigit
<1>5. KeptDigits(x, i) = Prefix(x.c, 10, i)
  <2>1. CASE i >= 1
    BY <2>1 DEF KeptDigits
  <2>2. CASE ~(i >= 1)
    <3>1. i = 0
      BY <2>2
    <3>2. Prefix(x.c, 10, 0) = 0
      BY <1>2, TenInt, PrefixZero, Zenon
    <3>3. QED
      BY <2>2, <3>1, <3>2 DEF KeptDigits
  <2>3. QED
    BY <2>1, <2>2
<1>6. Prefix(x.c, 10, i + 1) = Prefix(x.c, 10, i) * 10 + Digit(x.c, i + 1)
  BY <1>2, TenInt, PrefixNext, Zenon
<1>7. Prefix(x.c, 10, i) \in Nat
  BY <1>2, TenInt, PrefixBounds, Zenon
<1> DEFINE K == KeptDigits(x, i)
           N == NextDigit(x.c, i)
           Q == Prefix(x.c, 10, i)
           R == Prefix(x.c, 10, i + 1)
<1>8. K = Q /\ Q \in Nat /\ N \in 0..9 /\ R = Q * 10 + N
  BY <1>4, <1>5, <1>6, <1>7
<1> HIDE DEF K, N, Q, R
<1>9. R = 10 * K + N /\ K \in Nat /\ N \in 0..9
  BY <1>8
<1>10. QED
  BY <1>1, <1>3, <1>9 DEF K, N, R

(* There is nothing behind the last digit but the rest.                    *)
LEMMA BehindLast ==
    ASSUME NEW x, HasDigits(x), NEW i \in Nat, Len(x.c) = i + 1
    PROVE  /\ Prefix(x.c, 10, i + 1) = FromDigits(x.c, 10)
           /\ \A rest \in BOOLEAN : More(x.c, i, rest) <=> rest
<1>1. DOMAIN x.c = 1..(i + 1) /\ i + 2 \notin 1..(i + 1)
  BY DEF HasDigits
<1>2. QED
  BY <1>1 DEF FromDigits, More

LEMMA LastIsOdd ==
    ASSUME NEW x, HasDigits(x), NEW i \in Int
    PROVE  ((KeptDigits(x, i) % 2) = 1) <=> ((Digit(x.c, i) % 2) = 1)
<1>1. PICK n \in Nat \ {0} : n = Len(x.c)
  BY DEF HasDigits
<1>2. Decimal(x.c, n)
  BY <1>1 DEF HasDigits, Decimal
<1>3. BaseDigits(10, x.c) /\ IntDigits(x.c)
  BY <1>2, TenDigits
<1>4. CASE i >= 1
  <2>1. PICK j \in Nat : j = i - 1 /\ j + 1 = i
    BY <1>4
  <2>2. Prefix(x.c, 10, j + 1) = Prefix(x.c, 10, j) * 10 + Digit(x.c, j + 1)
    BY <1>3, TenInt, PrefixNext, Zenon
  <2>3. Prefix(x.c, 10, j) \in Nat
    BY <1>3, TenInt, PrefixBounds, Zenon
  <2>4. Digit(x.c, i) \in Int
    BY <1>3, <1>4 DEF IntDigits
  <2>5. \A p \in Nat, d \in Int : (((p * 10 + d) % 2) = 1) <=> ((d % 2) = 1)
    OBVIOUS
  <2>6. KeptDigits(x, i) = Prefix(x.c, 10, j) * 10 + Digit(x.c, i)
    BY <1>4, <2>1, <2>2 DEF KeptDigits
  <2>7. QED
    BY <2>3, <2>4, <2>5, <2>6
<1>5. CASE ~(i >= 1)
  <2>1. KeptDigits(x, i) = 0
    BY <1>5 DEF KeptDigits
  <2>2. Digit(x.c, i) = 0
    <3>1. DOMAIN x.c = 1..n
      BY <1>2 DEF Decimal
    <3>2. i \notin 1..n
      BY <1>5
    <3>3. QED
      BY <3>1, <3>2 DEF Digit
  <2>3. QED
    BY <2>1, <2>2
<1>6. QED
  BY <1>4, <1>5

(* The digits qc of a quotient and the number they become: it loses a zero *)
(* in front.                                                               *)
IsQuotientNumber(x, s, e, qc) ==
    /\ HasDigits(x) /\ x.s = s
    /\ FromDigits(x.c, 10) = FromDigits(qc, 10)
    /\ x.e - Len(x.c) = e - Len(qc)
    /\ Len(x.c) > 1 => x.c[1] # 0
    /\ x.c[Len(x.c)] = qc[Len(qc)]
    /\ Len(qc) = 1 => x.e = e

LEMMA QuotientValue ==
    ASSUME NEW s \in {-1, 1}, NEW e \in Int, NEW m \in Nat \ {0}, NEW qc, Decimal(qc, m),
           (m > 1 /\ qc[1] = 0) => qc[2] # 0
    PROVE  IsQuotientNumber(Quotient(s, e, qc), s, e, qc)
<1>0. qc \in Seq(0..9) /\ Len(qc) = m /\ qc # <<>>
  BY DEF Decimal
<1>1. CASE qc[1] = 0 /\ m > 1
  <2>1. Quotient(s, e, qc) = BigNum(s, e - 1, Tail(qc))
    BY <1>0, <1>1 DEF Quotient
  <2>2. PICK k \in Nat : k = m - 1 /\ 1 + k = m /\ k >= 1
    BY <1>1
  <2> DEFINE t == Tail(qc)
  <2>3. t \in Seq(0..9) /\ Len(t) = k /\ \A i \in 1..k : t[i] = qc[1 + i]
    <3>1. t \in Seq(0..9) /\ Len(t) = m - 1
      BY <1>0
    <3>2. \A i \in 1..(m - 1) : t[i] = qc[i + 1]
      BY <1>0
    <3>3. \A i \in 1..k : i + 1 = 1 + i
      OBVIOUS
    <3> HIDE DEF t
    <3>4. QED
      BY <2>2, <3>1, <3>2, <3>3
  <2> HIDE DEF t
  <2>4. Decimal(t, k)
    BY <2>3 DEF Decimal
  <2>5. /\ IntDigits(qc) /\ \A i \in 1..m : Digit(qc, i) = qc[i]
        /\ IntDigits(t) /\ \A i \in 1..k : Digit(t, i) = t[i]
    BY <2>4, TenDigits
  <2>6. ZerosUntil(qc, 1) /\ GoesOn(qc, 1, t, k)
    <3>1. 1 \in 1..m /\ \A i \in 1..k : 1 + i \in 1..m
      BY <2>2
    <3>2. \A i \in 1..1 : Digit(qc, i) = 0
      BY <1>1, <2>5, <3>1
    <3>3. \A i \in 1..k : Digit(qc, 1 + i) = Digit(t, i)
      BY <2>3, <2>5, <3>1
    <3>4. QED
      BY <3>2, <3>3 DEF ZerosUntil, GoesOn
  <2>7. Prefix(qc, 10, 1 + k) = Prefix(t, 10, k)
    BY <2>5, <2>6, ZerosBefore
  <2>8. FromDigits(t, 10) = FromDigits(qc, 10)
    BY <1>0, <2>2, <2>3, <2>7 DEF FromDigits
  <2>9. 1 \in 1..k /\ k \in 1..k /\ 1 + 1 = 2
    BY <2>2
  <2>10. t[1] # 0 /\ t[k] = qc[m]
    <3>1. t[1] = qc[2] /\ t[k] = qc[m]
      BY <2>2, <2>3, <2>9
    <3>2. QED
      BY <1>1, <3>1
  <2>11. (e - 1) - k = e - m /\ e - 1 \in Int /\ k > 0 /\ m # 1
    BY <1>1, <2>2
  <2> DEFINE x == BigNum(s, e - 1, t)
  <2>12. x.s = s /\ x.e = e - 1 /\ x.c = t
    BY DEF BigNum
  <2> HIDE DEF x
  <2>13. HasDigits(x)
    BY <2>3, <2>11, <2>12 DEF HasDigits
  <2>14. IsQuotientNumber(x, s, e, qc)
    BY <1>0, <2>3, <2>8, <2>10, <2>11, <2>12, <2>13 DEF IsQuotientNumber
  <2>15. QED
    BY <2>1, <2>14 DEF x, t
<1>2. CASE ~(qc[1] = 0 /\ m > 1)
  <2>1. Quotient(s, e, qc) = BigNum(s, e, qc)
    BY <1>0, <1>2 DEF Quotient
  <2> DEFINE x == BigNum(s, e, qc)
  <2>2. x.s = s /\ x.e = e /\ x.c = qc
    BY DEF BigNum
  <2> HIDE DEF x
  <2>3. HasDigits(x)
    BY <1>0, <2>2 DEF HasDigits
  <2>4. IsQuotientNumber(x, s, e, qc)
    BY <1>0, <1>2, <2>2, <2>3 DEF IsQuotientNumber
  <2>5. QED
    BY <2>1, <2>4 DEF x
<1>3. QED
  BY <1>1, <1>2

(* The rounding of digits that precede those of a fraction rounds the      *)
(* fraction.                                                               *)
Foreruns(x, i, num, den, rest) ==
    \/ /\ i >= 0 /\ i + 1 <= Len(x.c) /\ (i >= 1 => x.c[1] # 0)
       /\ Precedes(num, den, Prefix(x.c, 10, i + 1), More(x.c, i, rest))
       /\ More(x.c, i, rest) \/ x.c[i + 1] # 0
    \/ i < 0 /\ 10 * num < den

Follows(rm, x, i, rest, up, neg) ==
    /\ rest \in BOOLEAN
    /\ up \in BOOLEAN /\ (up <=> RoundsUp(rm, x, i, 10, FALSE, rest))
    /\ neg \in BOOLEAN /\ (neg <=> IsNeg(x))

LEMMA FractionOfDigits ==
    ASSUME NEW rm \in 0..8, NEW x, HasDigits(x), NEW i \in Int,
           NEW rest, NEW up, NEW neg, Follows(rm, x, i, rest, up, neg),
           NEW num \in Nat \ {0}, NEW den \in Nat \ {0}, Foreruns(x, i, num, den, rest)
    PROVE  /\ KeptDigits(x, i) \in Nat
           /\ \E r, odd, some, middle : IsFraction(num, den, rm, neg, KeptDigits(x, i), r, odd, some, middle, up)
<1> USE DEF Follows
<1> DEFINE U == KeptDigits(x, i)
<1>1. PICK odd \in BOOLEAN : odd <=> ((Digit(x.c, i) % 2) = 1)
  <2>1. CASE (Digit(x.c, i) % 2) = 1
    BY <2>1
  <2>2. CASE (Digit(x.c, i) % 2) # 1
    BY <2>2
  <2>3. QED
    BY <2>1, <2>2
<1>2. odd <=> ((U % 2) = 1)
  BY <1>1, LastIsOdd
<1>3. CASE i >= 0
  <2>0. PICK more \in BOOLEAN : more <=> More(x.c, i, rest)
    BY DEF More
  <2>1. /\ i + 1 <= Len(x.c) /\ i \in Nat
        /\ Precedes(num, den, Prefix(x.c, 10, i + 1), more)
        /\ more \/ x.c[i + 1] # 0
    BY <1>3, <2>0 DEF Foreruns, Precedes
  <2> DEFINE t == NextDigit(x.c, i)
  <2>2. /\ Prefix(x.c, 10, i + 1) = 10 * U + t
        /\ t \in 0..9 /\ U \in Nat /\ i + 1 \in DOMAIN x.c
    BY <2>1, LastDigit
  <2>3. more \/ t > 0
    <3>1. t = x.c[i + 1]
      BY <2>2 DEF NextDigit
    <3>2. t \in 0..9
      BY <2>2
    <3> HIDE DEF t
    <3>3. more \/ t # 0
      BY <2>1, <3>1, Zenon
    <3>4. QED
      BY <3>2, <3>3
  <2>4. MiddleOf(t, more) = IF 2 * t > 10 \/ (2 * t = 10 /\ More(x.c, i, rest)) THEN 1
                            ELSE IF 2 * t = 10 THEN 0 ELSE -1
    BY <2>0 DEF MiddleOf
  <2>5. up <=> Away(rm, neg, odd, TRUE, MiddleOf(t, more))
    <3>1. TRUE \in BOOLEAN /\ (TRUE <=> (i + 1 \in DOMAIN x.c \/ More(x.c, i, rest)))
      BY <2>2
    <3> DEFINE some == TRUE
               middle == MiddleOf(t, more)
    <3>2. some \in BOOLEAN /\ (some <=> (i + 1 \in DOMAIN x.c \/ More(x.c, i, rest)))
          /\ middle = IF 2 * NextDigit(x.c, i) > 10 \/ (2 * NextDigit(x.c, i) = 10 /\ More(x.c, i, rest)) THEN 1
                      ELSE IF 2 * NextDigit(x.c, i) = 10 THEN 0 ELSE -1
      BY <2>4, <3>1
    <3> HIDE DEF some, middle
    <3>3. RoundsUp(rm, x, i, 10, FALSE, rest) <=> Away(rm, neg, odd, some, middle)
      <4>1. IsBehindPlace(x, i, rest, odd, some, middle, neg)
        BY <1>1, <3>2 DEF IsBehindPlace
      <4>2. QED
        BY <4>1, RoundsUpIs
    <3>4. QED
      BY <3>3 DEF some, middle
  <2> HIDE DEF t, U
  <2> DEFINE some == TRUE
  <2>6. some \in BOOLEAN /\ (some <=> (t > 0 \/ more)) /\ (up <=> Away(rm, neg, odd, some, MiddleOf(t, more)))
    BY <2>3, <2>5
  <2> HIDE DEF some
  <2>7. Precedes(num, den, 10 * U + t, more)
    BY <2>1, <2>2
  <2>8. IsFraction(num, den, rm, neg, U, (num % den), odd, some, MiddleOf(t, more), up)
    <3>1. Decides(rm, neg, U, t, more, odd, some, up)
      BY <1>1, <1>2, <2>2, <2>6 DEF Decides, U
    <3>2. QED
      BY <2>7, <3>1, FractionRounds
  <2>9. QED
    BY <2>2, <2>8 DEF U
<1>4. CASE ~(i >= 0)
  <2>1. i < 0 /\ 10 * num < den
    BY <1>4 DEF Foreruns
  <2>2. U = 0
    BY <2>1 DEF KeptDigits
  <2>3. NextDigit(x.c, i) = -1 /\ More(x.c, i, rest)
    <3>1. DOMAIN x.c = 1..Len(x.c)
      BY DEF HasDigits
    <3>2. i + 1 \notin 1..Len(x.c)
      BY <2>1
    <3>3. QED
      BY <2>1, <3>1, <3>2 DEF NextDigit, More
  <2>4. up <=> Away(rm, neg, odd, TRUE, -1)
    <3> DEFINE some == TRUE
               middle == -1
    <3>1. some \in BOOLEAN /\ (some <=> (i + 1 \in DOMAIN x.c \/ More(x.c, i, rest)))
          /\ middle = IF 2 * NextDigit(x.c, i) > 10 \/ (2 * NextDigit(x.c, i) = 10 /\ More(x.c, i, rest)) THEN 1
                      ELSE IF 2 * NextDigit(x.c, i) = 10 THEN 0 ELSE -1
      BY <2>3
    <3> HIDE DEF some, middle
    <3>2. RoundsUp(rm, x, i, 10, FALSE, rest) <=> Away(rm, neg, odd, some, middle)
      <4>1. IsBehindPlace(x, i, rest, odd, some, middle, neg)
        BY <1>1, <3>1 DEF IsBehindPlace
      <4>2. QED
        BY <4>1, RoundsUpIs
    <3>3. QED
      BY <3>2 DEF some, middle
  <2> DEFINE t == 0
             u == 0
             more == TRUE
             some == TRUE
  <2>5. MiddleOf(t, more) = -1
    BY DEF MiddleOf
  <2>6. Precedes(num, den, 10 * u + t, more)
    BY <2>1, SmallFraction
  <2>7. u \in Nat /\ t \in 0..9 /\ more \in BOOLEAN /\ some \in BOOLEAN /\ (some <=> (t > 0 \/ more)) /\ U = u
    BY <2>2
  <2>8. up <=> Away(rm, neg, odd, some, MiddleOf(t, more))
    BY <2>4, <2>5
  <2> HIDE DEF U, u, t, more, some
  <2>9. IsFraction(num, den, rm, neg, u, (num % den), odd, some, MiddleOf(t, more), up)
    <3>1. odd <=> ((u % 2) = 1)
      BY <1>2, <2>7
    <3>2. Decides(rm, neg, u, t, more, odd, some, up)
      BY <1>1, <2>7, <2>8, <3>1 DEF Decides
    <3>3. QED
      BY <2>6, <3>2, FractionRounds
  <2>10. QED
    BY <2>7, <2>9 DEF U
<1>5. QED
  BY <1>3, <1>4

(* A quotient x with a digit more than is kept, of X and D with the signs  *)
(* s and t, in units of 10^p.                                              *)
IsToRound(g, x, i, rest, X, D, s, t, p, k, dp) ==
    /\ g.rm \in 0..8 /\ dp \in Int
    /\ HasDigits(x) /\ i \in Int /\ i = x.e + dp + 1 /\ rest \in BOOLEAN
    /\ X \in Nat \ {0} /\ D \in Nat \ {0} /\ s \in {-1, 1} /\ t \in {-1, 1}
    /\ x.s = (IF s = t THEN 1 ELSE -1) /\ p \in Int /\ k \in Int /\ k = p + dp
    /\ Foreruns(x, i, NumOf(X, k), DenOf(D, k), rest)

LEMMA RoundedQuotientIs ==
    ASSUME NEW g, NEW x, NEW i, NEW rest, NEW X, NEW D, NEW s, NEW t, NEW p, NEW k, NEW dp,
           IsToRound(g, x, i, rest, X, D, s, t, p, k, dp)
    PROVE  Is(Rnd(g, x, dp, 10, FALSE, rest), RoundedTo(s * X, t * D, p, dp, g.rm), -dp)
<1> USE DEF IsToRound
<1>1. dp \in Int /\ g.rm \in 0..8
  OBVIOUS
<1>2. NumOf(X, k) \in Nat \ {0} /\ DenOf(D, k) \in Nat \ {0}
  <2>1. X \in Nat /\ X # 0
    OBVIOUS
  <2>2. QED
    BY <2>1, FractionNat
<1> DEFINE rounds == RoundsUp(g.rm, x, i, 10, FALSE, rest)
           U == KeptDigits(x, i)
<1>3. PICK up \in BOOLEAN : up <=> rounds
  <2>1. CASE rounds
    <3> HIDE DEF rounds
    <3>1. QED
      BY <2>1
  <2>2. CASE ~rounds
    <3> HIDE DEF rounds
    <3>1. QED
      BY <2>2
  <2>3. QED
    BY <2>1, <2>2
<1>4. PICK neg \in BOOLEAN : (neg <=> IsNeg(x)) /\ (neg <=> s # t)
  <2>1. IsNeg(x) <=> s # t
    BY DEF IsNeg
  <2>2. CASE s = t
    BY <2>1, <2>2
  <2>3. CASE s # t
    BY <2>1, <2>3
  <2>4. QED
    BY <2>2, <2>3
<1>5. /\ U \in Nat
      /\ \E r, odd, some, middle : IsFraction(NumOf(X, k), DenOf(D, k), g.rm, neg, U, r, odd, some, middle, up)
  <2>1. up <=> RoundsUp(g.rm, x, i, 10, FALSE, rest)
    BY <1>3
  <2>2. QED
    <3> DEFINE rm == g.rm
    <3>1. Follows(rm, x, i, rest, up, neg) /\ rm \in 0..8
      BY <1>1, <1>4, <2>1 DEF Follows
    <3> HIDE DEF rounds, rm
    <3>2. /\ KeptDigits(x, i) \in Nat
          /\ \E r, odd, some, middle : IsFraction(NumOf(X, k), DenOf(D, k), rm, neg, KeptDigits(x, i), r, odd, some, middle, up)
      BY <1>2, <3>1, FractionOfDigits
    <3>3. QED
      BY <3>2 DEF rm
<1>6. RoundedTo(s * X, t * D, p, dp, g.rm) = (IF s = t THEN 1 ELSE -1) * (U + IF up THEN 1 ELSE 0)
  <2> HIDE DEF rounds, U
  <2>1. PICK r, odd, some, middle : IsFraction(NumOf(X, k), DenOf(D, k), g.rm, neg, U, r, odd, some, middle, up)
    BY <1>5
  <2> DEFINE rm == g.rm
  <2>2. dp \in Int /\ k = p + dp /\ IsFraction(NumOf(X, k), DenOf(D, k), rm, neg, U, r, odd, some, middle, up)
    BY <1>1, <2>1
  <2> HIDE DEF rm
  <2>3. IsRounded(s * X, t * D, p, dp, rm, IF s = t THEN 1 ELSE -1, U, up)
    BY <1>4, <2>2, RoundedToIs, ZenonT(60)
  <2>4. QED
    BY <2>3 DEF rm, IsRounded
<1>7. /\ i >= 1 => x.c[1] # 0 /\ i <= Len(x.c)
      /\ (up /\ i >= 1) => i <= Len(x.c)
      /\ U = IF i >= 1 THEN Prefix(x.c, 10, i) ELSE 0
  <2>1. Len(x.c) \in Nat
    BY DEF HasDigits
  <2>2. i >= 1 => x.c[1] # 0 /\ i + 1 <= Len(x.c)
    BY DEF Foreruns
  <2>3. i >= 1 => i <= Len(x.c)
    BY <2>1, <2>2
  <2>4. U = IF i >= 1 THEN Prefix(x.c, 10, i) ELSE 0
    BY DEF KeptDigits
  <2> HIDE DEF U, rounds
  <2>5. QED
    BY <2>2, <2>3, <2>4, Zenon
<1> DEFINE v == Rnd(g, x, dp, 10, FALSE, rest)
<1>8. Is(v, x.s * (U + IF up THEN 1 ELSE 0), -dp)
  <2>1. up <=> RoundsUp(g.rm, x, i, 10, FALSE, rest)
    BY <1>3
  <2>2. dp \in Int /\ i = x.e + dp + 1
    BY <1>1
  <2> HIDE DEF U, rounds
  <2>3. Is(Rnd(g, x, dp, 10, FALSE, rest), x.s * (U + IF up THEN 1 ELSE 0), -dp)
    BY <1>7, <2>1, <2>2, RoundValue
  <2>4. QED
    BY <2>3
<1>9. QED
  <2> HIDE DEF v, U
  <2>1. x.s * (U + IF up THEN 1 ELSE 0) = RoundedTo(s * X, t * D, p, dp, g.rm)
    BY <1>6
  <2>2. QED
    BY <1>8, <2>1 DEF v

(* A quotient that is not rounded is exact.                                *)
LEMMA ExactQuotientIs ==
    ASSUME NEW dvd, NEW a, NEW b, NEW D, Dividend(dvd, a, b, D), NEW n \in Nat, NEW st, Divided(dvd, a, b, D, n, st),
           ~st.left, NEW e \in Int, NEW dp \in Nat, NEW j \in Nat \ {0}, Decimal(st.qc, j), j <= dp + e + 1,
           NEW s \in {-1, 1}, NEW t \in {-1, 1}, NEW rm \in 0..8, NEW p \in Int, p = e - a + b
    PROVE  Is(Quotient(IF s = t THEN 1 ELSE -1, e, st.qc),
              RoundedTo(s * FromDigits(dvd, 10), t * D, p, dp, rm), -dp)
<1> DEFINE X == FromDigits(dvd, 10)
           V == FromDigits(st.qc, 10)
           sign == IF s = t THEN 1 ELSE -1
           x == Quotient(sign, e, st.qc)
<1>1. D \in Nat \ {0} /\ a \in Nat \ {0} /\ b \in Nat /\ Decimal(dvd, a) /\ dvd[1] # 0
  BY DEF Dividend
<1>2. /\ j + b > a /\ st.rem = 0
      /\ V * (10 * D) + st.rem = Prefix(dvd, 10, b + j)
      /\ (j > 1 /\ st.qc[1] = 0) => st.qc[2] # 0
  BY DEF Divided, DivStates, Decimal
<1>3. Decimal(st.qc, j) /\ j = Len(st.qc)
  BY DEF Decimal
<1>4. X \in Nat \ {0}
  <2>1. X >= Power(10, a - 1) /\ X \in Nat
    BY <1>1, LeadsValue
  <2>2. a - 1 \in Nat
    BY <1>1
  <2>3. Power(10, a - 1) \in Nat \ {0}
    BY <2>2, TenInt, PowerPositive, Zenon
  <2> HIDE DEF X
  <2>4. QED
    BY <2>1, <2>3
<1>5. V \in Nat
  <2>1. BaseDigits(10, st.qc) /\ j \in Nat
    BY <1>3, TenDigits
  <2>2. Prefix(st.qc, 10, j) \in Nat
    BY <2>1, TenInt, PrefixBounds, Zenon
  <2>3. QED
    BY <1>3, <2>2 DEF FromDigits
<1>6. PICK l \in Nat : l + 1 = b + j - a
  <2>1. (b + j - a) - 1 \in Nat /\ ((b + j - a) - 1) + 1 = b + j - a
    BY <1>1, <1>2
  <2>2. QED
    BY <2>1, Zenon
<1>7. X * Power(10, l) = V * D
  <2>1. b + j \in Nat /\ a <= b + j /\ a \in Nat /\ (b + j) - a = l + 1
    BY <1>1, <1>6
  <2>2. Prefix(dvd, 10, b + j) = X * Power(10, (b + j) - a)
    BY <1>1, <2>1, PrefixBeyond
  <2>3. Power(10, l + 1) = Power(10, l) * 10
    BY TenInt, PowerNext, Zenon
  <2>4. PICK f \in Nat \ {0} : f = Power(10, l)
    BY TenInt, PowerPositive, Zenon
  <2>5. V * (10 * D) = X * (f * 10)
    <3>1. V * (10 * D) \in Int
      BY <1>1, <1>5
    <3> HIDE DEF X, V
    <3>2. QED
      BY <1>2, <2>1, <2>2, <2>3, <2>4, <3>1
  <2> HIDE DEF X, V
  <2>6. V * (10 * D) = (V * D) * 10 /\ X * (f * 10) = (X * f) * 10 /\ V * D \in Int /\ X * f \in Int
    BY <1>1, <1>4, <1>5, <2>4
  <2>7. (V * D) * 10 = (X * f) * 10
    BY <2>5, <2>6
  <2>8. QED
    BY <2>4, <2>6, <2>7
<1>8. PICK h \in Nat : h = dp + e + 1 - j /\ (e - j + 1) - (-dp) = h
  BY <1>1
<1> DEFINE k == p + dp
<1>9. k \in Int /\ k >= 0 /\ k = l + h
  BY <1>1, <1>6, <1>8
<1>10. PICK f \in Nat \ {0} : f = Power(10, h)
  BY TenInt, PowerPositive, Zenon
<1>11. NumOf(X, k) = (V * D) * f /\ DenOf(D, k) = D
  <2>1. Power(10, k) = Power(10, l) * f
    BY <1>9, <1>10, TenInt, PowerPlus
  <2>2. PICK c \in Nat \ {0} : c = Power(10, l)
    BY TenInt, PowerPositive, Zenon
  <2> HIDE DEF X, V, k
  <2>3. X * (c * f) = (X * c) * f
    BY <1>4, <1>10, <2>2
  <2>4. QED
    BY <1>7, <1>9, <2>1, <2>2, <2>3 DEF NumOf, DenOf
<1> DEFINE q == V * f
<1>12. q \in Nat /\ (V * D) * f = D * q + 0 /\ (V * D) * f \in Nat
  <2> HIDE DEF V
  <2>1. QED
    BY <1>1, <1>5, <1>10
<1>13. NumOf(X, k) \div DenOf(D, k) = q /\ (NumOf(X, k) % DenOf(D, k)) = 0
  <2> HIDE DEF q, X, V, k
  <2>1. 0 \in 0..(D - 1)
    BY <1>1
  <2>2. ((V * D) * f) \div D = q /\ (((V * D) * f) % D) = 0
    BY <1>1, <1>12, <2>1, DivIs
  <2>3. QED
    BY <1>11, <2>2
<1>14. RoundedTo(s * X, t * D, p, dp, rm) = sign * q
  <2> HIDE DEF q, X, V, k
  <2>1. PICK neg \in BOOLEAN : neg <=> s # t
    <3>1. CASE s = t
      BY <3>1
    <3>2. CASE s # t
      BY <3>2
    <3>3. QED
      BY <3>1, <3>2
  <2>2. PICK odd \in BOOLEAN : odd <=> ((q % 2) = 1)
    <3>1. CASE (q % 2) = 1
      BY <3>1
    <3>2. CASE (q % 2) # 1
      BY <3>2
    <3>3. QED
      BY <3>1, <3>2
  <2> DEFINE some == FALSE
             up == FALSE
             middle == -1
  <2>3. middle = Sgn(0 - (DenOf(D, k) - 0))
    BY <1>1, <1>11 DEF Sgn
  <2>4. ~Away(rm, neg, odd, some, middle)
    BY DEF Away
  <2>5. some \in BOOLEAN /\ (some <=> 0 > 0) /\ up \in BOOLEAN /\ (up <=> Away(rm, neg, odd, some, middle)) /\ ~up
    <3>1. some \in BOOLEAN /\ ~some /\ up \in BOOLEAN /\ ~up
      OBVIOUS
    <3>2. ~(0 > 0)
      OBVIOUS
    <3> HIDE DEF some, up, middle
    <3>3. QED
      BY <2>4, <3>1, <3>2, Zenon
  <2> HIDE DEF some, up, middle
  <2>6. IsFraction(NumOf(X, k), DenOf(D, k), rm, neg, q, 0, odd, some, middle, up)
    BY <1>12, <1>13, <2>1, <2>2, <2>3, <2>5 DEF IsFraction
  <2>7. k \in Int /\ k = p + dp /\ dp \in Int
    BY <1>9 DEF k
  <2>8. IsRounded(s * X, t * D, p, dp, rm, IF s = t THEN 1 ELSE -1, q, up)
    BY <1>1, <1>4, <2>1, <2>6, <2>7, RoundedToIs
  <2>9. QED
    BY <1>12, <2>5, <2>8 DEF IsRounded
<1>15. sign \in {-1, 1}
  OBVIOUS
<1>16. IsQuotientNumber(x, sign, e, st.qc)
  <2> HIDE DEF sign
  <2>1. QED
    BY <1>2, <1>3, <1>15, QuotientValue
<1> HIDE DEF x, sign
<1>17. HasDigits(x) /\ M(x) = sign * V /\ P(x) = e - j + 1
  <2>1. HasDigits(x) /\ x.s = sign /\ FromDigits(x.c, 10) = V /\ x.e - Len(x.c) = e - j
    BY <1>3, <1>16 DEF IsQuotientNumber
  <2>2. P(x) = e - j + 1
    BY <2>1 DEF P
  <2>3. QED
    BY <2>1, <2>2 DEF M
<1>18. SameValue(sign * V, e - j + 1, sign * q, -dp)
  <2>1. sign * q = (sign * V) * f
    <3> HIDE DEF V
    <3>1. QED
      BY <1>5, <1>10, <1>15
  <2>2. sign * V \in Int /\ sign * q \in Int /\ e - j + 1 \in Int /\ -dp \in Int /\ -dp <= e - j + 1
    <3> HIDE DEF V, q
    <3>1. sign * V \in Int /\ sign * q \in Int
      BY <1>5, <1>12, <1>15
    <3>2. QED
      BY <1>8, <3>1
  <2> HIDE DEF V, q
  <2>3. sign * q = At(sign * V, e - j + 1, -dp)
    BY <1>8, <1>10, <2>1 DEF At
  <2> DEFINE m == sign * V
             w == sign * q
  <2>4. m \in Int /\ w \in Int /\ w = At(m, e - j + 1, -dp)
    BY <2>2, <2>3
  <2> HIDE DEF m, w
  <2>5. SameValue(m, e - j + 1, w, -dp)
    BY <2>2, <2>4, SameItself
  <2>6. QED
    BY <2>5 DEF m, w
<1> HIDE DEF q, X, V, k
<1>19. Is(x, RoundedTo(s * X, t * D, p, dp, rm), -dp)
  BY <1>14, <1>17, <1>18 DEF Is
<1>20. QED
  BY <1>19 DEF x, X, sign

(* The quotient before it is put in range.                                 *)
IsDivision(dvd, a, b, D, g, e, n, st, s, t, p) ==
    /\ Dividend(dvd, a, b, D) /\ g \in Settings /\ e \in Int
    /\ n \in Nat \ {0} /\ n = Limit(g, e) /\ Divided(dvd, a, b, D, n, st)
    /\ s \in {-1, 1} /\ t \in {-1, 1} /\ p \in Int /\ p = e - a + b

LEMMA QuotientIs ==
    ASSUME NEW dvd, NEW a, NEW b, NEW D, NEW g, NEW e, NEW n, NEW st, NEW s, NEW t, NEW p,
           IsDivision(dvd, a, b, D, g, e, n, st, s, t, p)
    PROVE  Is(QuotientOf(g, IF s = t THEN 1 ELSE -1, e, 10, FALSE, st),
              RoundedTo(s * FromDigits(dvd, 10), t * D, p, g.dp, g.rm), -g.dp)
<1> USE DEF IsDivision
<1> DEFINE X == FromDigits(dvd, 10)
           sign == IF s = t THEN 1 ELSE -1
           x == Quotient(sign, e, st.qc)
<1>1. g.dp \in Nat /\ g.rm \in 0..8 /\ sign \in {-1, 1}
  BY DEF Settings
<1>2. D \in Nat \ {0} /\ a \in Nat \ {0} /\ b \in Nat \ {0} /\ Decimal(dvd, a) /\ dvd[1] # 0 /\ D >= Power(10, b - 1)
  BY DEF Dividend
<1>3. X \in Nat \ {0} /\ X < Power(10, a)
  <2>1. X >= Power(10, a - 1) /\ X \in Nat /\ X < Power(10, a)
    BY <1>2, LeadsValue
  <2>2. a - 1 \in Nat
    BY <1>2
  <2>3. Power(10, a - 1) \in Nat \ {0}
    BY <2>2, TenInt, PowerPositive, Zenon
  <2> HIDE DEF X
  <2>4. QED
    BY <2>1, <2>3
<1>4. PICK j \in 1..n : Decimal(st.qc, j)
  <2>1. st.qc \in Seq(0..9) /\ Len(st.qc) \in 1..n
    BY DEF Divided, DivStates
  <2>2. Decimal(st.qc, Len(st.qc))
    BY <2>1 DEF Decimal
  <2>3. QED
    BY <2>1, <2>2
<1>11. /\ st.left => j = n
       /\ ~st.left => st.qc[j] # 0
       /\ (j > 1 /\ st.qc[1] = 0) => st.qc[2] # 0
  BY <1>4 DEF Divided, Decimal
<1> DEFINE dig == g.dp + e + 1
           k == p + g.dp
<1>5. dig \in Int /\ k \in Int /\ n = (IF dig < 0 THEN 0 ELSE dig) + 1 /\ k = dig - 1 - a + b
  <2>1. n = (IF dig < 0 THEN 0 ELSE dig) + 1
    BY DEF Limit
  <2>2. dig \in Int /\ k \in Int /\ k = dig - 1 - a + b
    BY <1>1, <1>2
  <2>3. QED
    BY <2>1, <2>2
<1>6. j \in Nat \ {0}
  BY <1>4
<1>7. IsQuotientNumber(x, sign, e, st.qc)
  <2> HIDE DEF sign
  <2>1. QED
    BY <1>1, <1>4, <1>6, <1>11, QuotientValue
<1>8. CASE j > dig
  <2>1. QuotientOf(g, sign, e, 10, FALSE, st) = Rnd(g, x, g.dp, 10, FALSE, st.left)
    BY <1>4, <1>8 DEF QuotientOf, Decimal
  <2> DEFINE i == x.e + g.dp + 1
  <2>2. HasDigits(x) /\ x.s = sign /\ x.e \in Int /\ i \in Int /\ i = x.e + g.dp + 1
    BY <1>1, <1>7 DEF IsQuotientNumber, HasDigits
  <2>3. PICK m \in Nat \ {0} : Decimal(x.c, m)
    <3>1. x.c \in Seq(0..9) /\ Len(x.c) \in Nat \ {0}
      BY <2>2 DEF HasDigits
    <3>2. Decimal(x.c, Len(x.c))
      BY <3>1 DEF Decimal
    <3>3. QED
      BY <3>1, <3>2
  <2>10. /\ x.e - m = e - j /\ (m > 1 => x.c[1] # 0)
         /\ x.c[m] = st.qc[j] /\ (j = 1 => x.e = e)
         /\ FromDigits(x.c, 10) = FromDigits(st.qc, 10)
    BY <1>4, <1>7, <2>3 DEF IsQuotientNumber, Decimal
  <2> HIDE DEF x, sign, X, i
  <2>5. st.left \in BOOLEAN
    BY DEF Divided, DivStates
  <2>4. Foreruns(x, i, NumOf(X, k), DenOf(D, k), st.left)
    <3>1. CASE dig < 0
      <4>1. n = 1 /\ j = 1
        BY <1>4, <1>5, <3>1
      <4>2. i < 0
        BY <1>1, <2>2, <2>10, <3>1, <4>1
      <4>3. k < b - a - 1
        BY <1>2, <1>5, <3>1
      <4> HIDE DEF k
      <4>4. 10 * NumOf(X, k) < DenOf(D, k)
        BY <1>2, <1>3, <1>5, <4>3, BeforePlaces
      <4>5. QED
        BY <4>2, <4>4 DEF Foreruns
    <3>2. CASE ~(dig < 0)
      <4>1. n = dig + 1 /\ j = n
        BY <1>4, <1>5, <1>8, <3>2
      <4>2. m = i + 1 /\ i >= 0
        <5>1. x.e - m = e - (dig + 1) /\ i = x.e + g.dp + 1 /\ dig = g.dp + e + 1
          BY <2>2, <2>10, <4>1
        <5>2. QED
          BY <1>1, <2>2, <2>3, <5>1
      <4>3. k = b + n - a - 2
        BY <1>2, <1>5, <4>1
      <4>4. Len(st.qc) = n
        BY <1>4, <4>1 DEF Decimal
      <4> HIDE DEF k
      <4>5. Precedes(NumOf(X, k), DenOf(D, k), FromDigits(st.qc, 10), st.left)
        <5>1. Precedes(NumOf(FromDigits(dvd, 10), k), DenOf(D, k), FromDigits(st.qc, 10), st.left)
          BY <1>5, <4>3, <4>4, DividedPrecedes
        <5>2. QED
          BY <5>1 DEF X
      <4>6. st.left \/ x.c[i + 1] # 0
        BY <1>11, <2>10, <4>2
      <4>7. i >= 1 => x.c[1] # 0
        <5>1. i >= 1 => m > 1
          BY <2>2, <4>2
        <5>2. QED
          BY <2>10, <5>1
      <4>8. Len(x.c) = i + 1
        BY <2>3, <4>2 DEF Decimal
      <4>9. Prefix(x.c, 10, i + 1) = FromDigits(st.qc, 10) /\ (More(x.c, i, st.left) <=> st.left)
        <5>1. i \in Nat /\ st.left \in BOOLEAN
          BY <2>2, <2>5, <4>2
        <5>2. QED
          BY <2>2, <2>10, <4>8, <5>1, BehindLast
      <4>10. Precedes(NumOf(X, k), DenOf(D, k), Prefix(x.c, 10, i + 1), More(x.c, i, st.left))
        BY <4>5, <4>9, PrecedesSame
      <4>11. i + 1 <= Len(x.c)
        BY <2>2, <4>8
      <4>12. QED
        BY <4>2, <4>6, <4>7, <4>9, <4>10, <4>11 DEF Foreruns
    <3>3. QED
      BY <3>1, <3>2
  <2> DEFINE left == st.left
  <2>6. left \in BOOLEAN /\ Foreruns(x, i, NumOf(X, k), DenOf(D, k), left) /\ k = p + g.dp
    BY <2>4, <2>5
  <2>7. x.s = IF s = t THEN 1 ELSE -1
    BY <2>2 DEF sign
  <2> HIDE DEF left, k
  <2>8. Is(Rnd(g, x, g.dp, 10, FALSE, left), RoundedTo(s * X, t * D, p, g.dp, g.rm), -g.dp)
    <3>1. IsToRound(g, x, i, left, X, D, s, t, p, k, g.dp)
      BY <1>1, <1>2, <1>3, <1>5, <2>2, <2>6, <2>7 DEF IsToRound
    <3>2. QED
      BY <3>1, RoundedQuotientIs
  <2>9. QED
    BY <2>1, <2>8 DEF left, sign, X
<1>9. CASE ~(j > dig)
  <2>1. QuotientOf(g, sign, e, 10, FALSE, st) = x
    BY <1>4, <1>9 DEF QuotientOf, Decimal
  <2>2. ~st.left
    BY <1>4, <1>5, <1>9, <1>11
  <2>3. j <= g.dp + e + 1
    BY <1>4, <1>5, <1>9
  <2> DEFINE dp == g.dp
             rm == g.rm
  <2>4. dp \in Nat /\ rm \in 0..8 /\ j <= dp + e + 1 /\ n \in Nat
    BY <1>1, <2>3
  <2> HIDE DEF dp, rm, x, sign
  <2>5. Is(Quotient(IF s = t THEN 1 ELSE -1, e, st.qc), RoundedTo(s * FromDigits(dvd, 10), t * D, p, dp, rm), -dp)
    BY <1>4, <1>6, <2>2, <2>4, ExactQuotientIs, SMTT(30)
  <2>6. QED
    BY <2>1, <2>5 DEF dp, rm, x, sign
<1>10. QED
  BY <1>5, <1>6, <1>8, <1>9

LEMMA RoundedToInt ==
    ASSUME NEW m \in Int, NEW n \in Int, n # 0, NEW p \in Int, NEW dp \in Int, NEW rm \in 0..8
    PROVE  RoundedTo(m, n, p, dp, rm) \in Int
<1>1. \A a \in Int, b \in Int : b # 0 => RoundedInt(a, b, rm) \in Int
  <2>1. SUFFICES ASSUME NEW a \in Int, NEW b \in Int, b # 0 PROVE RoundedInt(a, b, rm) \in Int
    OBVIOUS
  <2>2. AbsInt(a) \in Nat /\ AbsInt(b) \in Nat \ {0}
    BY <2>1 DEF AbsInt
  <2>3. PICK q \in Int : q = AbsInt(a) \div AbsInt(b)
    BY <2>2
  <2>4. RoundedInt(a, b, rm) \in {q, q + 1, -q, -(q + 1)}
    BY <2>3 DEF RoundedInt
  <2>5. QED
    BY <2>3, <2>4
<1>2. CASE p + dp >= 0
  <2>1. p + dp \in Nat
    BY <1>2
  <2>2. Power(10, p + dp) \in Int
    BY <2>1, TenInt, PowerInt
  <2>3. m * Power(10, p + dp) \in Int
    BY <2>2
  <2>4. QED
    BY <1>1, <1>2, <2>3 DEF RoundedTo
<1>3. CASE ~(p + dp >= 0)
  <2>1. PICK j \in Nat : j = -p - dp
    BY <1>3
  <2>2. PICK f \in Nat \ {0} : f = Power(10, j)
    BY TenInt, PowerPositive, Zenon
  <2>3. n * f \in Int /\ n * f # 0
    OBVIOUS
  <2>4. QED
    BY <1>1, <1>3, <2>1, <2>2, <2>3 DEF RoundedTo
<1>4. QED
  BY <1>2, <1>3

LEMMA ZeroRounded ==
    ASSUME NEW n \in Int, n # 0, NEW p \in Int, NEW dp \in Int, NEW rm \in 0..8
    PROVE  RoundedTo(0, n, p, dp, rm) = 0
<1>1. \A b \in Int : b # 0 => RoundedInt(0, b, rm) = 0
  <2>1. SUFFICES ASSUME NEW b \in Int, b # 0 PROVE RoundedInt(0, b, rm) = 0
    OBVIOUS
  <2>2. AbsInt(0) = 0 /\ AbsInt(b) \in Nat \ {0}
    BY <2>1 DEF AbsInt
  <2>3. 0 \div AbsInt(b) = 0 /\ (0 % AbsInt(b)) = 0
    <3> DEFINE c == AbsInt(b)
    <3> HIDE DEF c
    <3>1. c \in Nat \ {0}
      BY <2>2 DEF c
    <3>2. 0 = c * 0 + 0 /\ 0 \in 0..(c - 1)
      BY <3>1
    <3>3. 0 \div c = 0 /\ (0 % c) = 0
      BY <3>1, <3>2, DivIs
    <3>4. QED
      BY <3>3 DEF c
  <2>4. PICK neg \in BOOLEAN : neg <=> ((0 < 0) # (b < 0))
    <3>1. CASE (0 < 0) # (b < 0)
      BY <3>1
    <3>2. CASE ~((0 < 0) # (b < 0))
      BY <3>2
    <3>3. QED
      BY <3>1, <3>2
  <2> DEFINE odd == FALSE
             some == FALSE
             up == FALSE
             middle == -1
  <2>5. middle = Sgn(0 - (AbsInt(b) - 0))
    BY <2>2 DEF Sgn
  <2>6. ~Away(rm, neg, odd, some, middle)
    BY DEF Away
  <2>7. /\ odd \in BOOLEAN /\ (odd <=> ((0 % 2) = 1))
        /\ some \in BOOLEAN /\ (some <=> 0 > 0) /\ up \in BOOLEAN /\ ~up
    OBVIOUS
  <2> HIDE DEF odd, some, up, middle
  <2>8. up <=> Away(rm, neg, odd, some, middle)
    BY <2>6, <2>7, Zenon
  <2>9. IsFraction(AbsInt(0), AbsInt(b), rm, neg, 0, 0, odd, some, middle, up)
    BY <2>2, <2>3, <2>5, <2>7, <2>8 DEF IsFraction
  <2>10. RoundedInt(0, b, rm) = (IF neg THEN -1 ELSE 1) * (0 + IF up THEN 1 ELSE 0)
    BY <2>1, <2>4, <2>9, RoundedIntIs
  <2>11. QED
    BY <2>7, <2>10
<1>2. CASE p + dp >= 0
  <2>1. p + dp \in Nat
    BY <1>2
  <2>2. Power(10, p + dp) \in Int
    BY <2>1, TenInt, PowerInt
  <2>3. 0 * Power(10, p + dp) = 0
    BY <2>2
  <2>4. QED
    BY <1>1, <1>2, <2>3 DEF RoundedTo
<1>3. CASE ~(p + dp >= 0)
  <2>1. PICK j \in Nat : j = -p - dp
    BY <1>3
  <2>2. PICK f \in Nat \ {0} : f = Power(10, j)
    BY TenInt, PowerPositive, Zenon
  <2>3. n * f \in Int /\ n * f # 0
    OBVIOUS
  <2>4. QED
    BY <1>1, <1>3, <2>1, <2>2, <2>3 DEF RoundedTo
<1>4. QED
  BY <1>2, <1>3

LEMMA FiniteDiv ==
    ASSUME NEW g \in Settings, NEW x, NEW y, Normal(x), Normal(y), IsFinite(x), IsFinite(y), ~IsZero(y)
    PROVE  IsResult(g, Div(g, x, y), RoundedTo(M(x), M(y), P(x) - P(y), g.dp, g.rm), -g.dp)
<1> DEFINE sign == IF x.s = y.s THEN 1 ELSE -1
<1>1. /\ HasDigits(x) /\ HasDigits(y) /\ x.s \in {-1, 1} /\ y.s \in {-1, 1} /\ x.e \in Int /\ y.e \in Int
      /\ M(x) \in Int /\ M(y) \in Int /\ P(x) \in Int /\ P(y) \in Int
  BY FiniteHasDigits, ValueInt DEF HasDigits
<1>2. g.dp \in Nat /\ g.rm \in 0..8 /\ g.dp \in Int /\ -g.dp \in Int /\ P(x) - P(y) \in Int
  BY <1>1 DEF Settings
<1>3. ~IsNaN(x) /\ ~IsNaN(y)
  BY <1>1 DEF IsNaN
<1>4. M(y) # 0
  <2>1. PICK m \in Nat \ {0} : m = Len(y.c)
    BY NormalFacts
  <2>2. Decimal(y.c, m) /\ y.c[1] # 0
    BY <2>1, NormalFacts DEF Leads, Decimal
  <2>3. QED
    BY <1>1, <2>2, SignedLength DEF M
<1>5. CASE IsZero(x)
  <2>1. Div(g, x, y) = Zero(sign)
    BY <1>3, <1>5 DEF Div, IsSpecial
  <2>2. M(x) = 0
    <3>1. x = Zero(x.s)
      BY <1>5, NormalFacts DEF Zero, BigNum
    <3>2. Zero(x.s).c = <<0>> /\ Decimal(<<0>>, 1)
      BY DEF Zero, BigNum, Decimal
    <3>3. LeadingZeros(<<0>>) = 1
      <4>1. Significant(<<0>>) = {} /\ Len(<<0>>) = 1
        BY DEF Significant
      <4>2. QED
        BY <4>1 DEF LeadingZeros
    <3>4. FromDigits(x.c, 10) = 0
      BY <3>1, <3>2, <3>3, AllZeros
    <3>5. QED
      BY <1>1, <3>4 DEF M
  <2>3. RoundedTo(M(x), M(y), P(x) - P(y), g.dp, g.rm) = 0
    <3> DEFINE n == M(y)
               p == P(x) - P(y)
               dp == g.dp
               rm == g.rm
    <3>1. n \in Int /\ n # 0 /\ p \in Int /\ dp \in Int /\ rm \in 0..8
      BY <1>1, <1>2, <1>4
    <3> HIDE DEF n, p, dp, rm
    <3>2. RoundedTo(0, n, p, dp, rm) = 0
      BY <3>1, ZeroRounded
    <3>3. QED
      BY <2>2, <3>2 DEF n, p, dp, rm
  <2>4. SameValue(M(Zero(sign)), P(Zero(sign)), 0, -g.dp) /\ IsFinite(Zero(sign))
    <3>1. sign \in {-1, 1}
      OBVIOUS
    <3> HIDE DEF sign
    <3>2. QED
      BY <1>2, <3>1, ZeroIs
  <2>5. QED
    BY <2>1, <2>3, <2>4 DEF IsResult
<1>6. CASE ~IsZero(x)
  <2> DEFINE a == Len(x.c)
             b == Len(y.c)
             D == FromDigits(y.c, 10)
             e == x.e - y.e
             n == Limit(g, e)
             st == DivideDigits(x.c, b, D, 10, n)
             q == QuotientOf(g, sign, e, 10, FALSE, st)
             p == P(x) - P(y)
             w == RoundedTo(M(x), M(y), p, g.dp, g.rm)
  <2>1. Div(g, x, y) = InRange(g, q)
    <3>1. Div(g, x, y) = Divide(g, x.c, y.c, e, sign, 10, FALSE)
      BY <1>3, <1>6 DEF Div, IsSpecial
    <3>2. Divide(g, x.c, y.c, e, sign, 10, FALSE) = InRange(g, q)
      BY DEF Divide, Limit
    <3>3. QED
      BY <3>1, <3>2
  <2>2. Dividend(x.c, a, b, D)
    BY <1>6, DividendOf
  <2>3. e \in Int /\ n \in Nat \ {0} /\ n \in Nat
    <3>1. e \in Int
      BY <1>1
    <3> HIDE DEF e
    <3>2. n \in Nat \ {0}
      BY <1>2, <3>1 DEF Limit
    <3>3. QED
      BY <3>1, <3>2
  <2>4. p = e - a + b /\ p \in Int
    <3>1. a \in Int /\ b \in Int
      BY <2>2 DEF Dividend
    <3> HIDE DEF a, b
    <3>2. P(x) = x.e - a + 1 /\ P(y) = y.e - b + 1
      BY DEF P, a, b
    <3>3. QED
      BY <1>1, <3>1, <3>2
  <2>5. n = Limit(g, e)
    OBVIOUS
  <2>6. w = RoundedTo(x.s * FromDigits(x.c, 10), y.s * D, p, g.dp, g.rm)
    BY DEF M
  <2> HIDE DEF a, b, D, e, n, p
  <2>7. Divided(x.c, a, b, D, n, st)
    BY <2>2, <2>3, DivideEnds
  <2> HIDE DEF st
  <2>8. Is(q, w, -g.dp)
    <3>1. Is(QuotientOf(g, IF x.s = y.s THEN 1 ELSE -1, e, 10, FALSE, st),
             RoundedTo(x.s * FromDigits(x.c, 10), y.s * D, p, g.dp, g.rm), -g.dp)
      <4>1. IsDivision(x.c, a, b, D, g, e, n, st, x.s, y.s, p)
        BY <1>1, <2>2, <2>3, <2>4, <2>5, <2>7 DEF IsDivision
      <4>2. QED
        BY <4>1, QuotientIs
    <3>2. QED
      BY <2>6, <3>1
  <2>9. Normal(q)
    <3>1. sign \in {-1, 1}
      OBVIOUS
    <3> DEFINE odd == FALSE
    <3>2. odd \in BOOLEAN
      OBVIOUS
    <3> HIDE DEF odd, sign
    <3>3. Normal(QuotientOf(g, sign, e, 10, odd, st))
      BY <2>2, <2>3, <2>5, <2>7, <3>1, <3>2, QuotientNormal
    <3>4. QED
      BY <3>3 DEF odd
  <2>10. w \in Int
    <3> DEFINE m == M(x)
               nn == M(y)
               dp == g.dp
               rm == g.rm
    <3>1. m \in Int /\ nn \in Int /\ nn # 0 /\ p \in Int /\ dp \in Int /\ rm \in 0..8
      BY <1>1, <1>2, <1>4, <2>4
    <3> HIDE DEF m, nn, dp, rm
    <3>2. RoundedTo(m, nn, p, dp, rm) \in Int
      BY <3>1, RoundedToInt
    <3>3. QED
      BY <3>2 DEF m, nn, dp, rm
  <2> HIDE DEF q, w
  <2>11. IsFinite(q) /\ SameValue(M(q), P(q), w, -g.dp)
    <3>1. q.c # <<>>
      BY <2>8 DEF Is, HasDigits
    <3>2. QED
      BY <2>8, <3>1 DEF Is, IsFinite
  <2>12. IsResult(g, InRange(g, q), w, -g.dp)
    BY <1>2, <2>9, <2>10, <2>11, RangeResult
  <2>13. QED
    BY <2>1, <2>12 DEF w, p
<1>7. QED
  BY <1>5, <1>6

----------------------------------------------------------------------------
(* Remainders.                                                             *)

LEMMA AtScaled ==
    ASSUME NEW w \in Int, NEW m \in Int, NEW p \in Int, NEW q \in Int, q <= p
    PROVE  At(w * m, p, q) = w * At(m, p, q)
<1>1. PICK f \in Int : f = Power(10, p - q)
  <2>1. p - q \in Nat
    OBVIOUS
  <2>2. QED
    BY <2>1, TenInt, PowerInt
<1>2. (w * m) * f = w * (m * f)
  OBVIOUS
<1>3. QED
  BY <1>1, <1>2 DEF At

LEMMA AtDifference ==
    ASSUME NEW m \in Int, NEW n \in Int, NEW p \in Int, NEW q \in Int, q <= p
    PROVE  At(m - n, p, q) = At(m, p, q) - At(n, p, q)
<1>1. PICK f \in Int : f = Power(10, p - q)
  <2>1. p - q \in Nat
    OBVIOUS
  <2>2. QED
    BY <2>1, TenInt, PowerInt
<1>2. (m - n) * f = m * f - n * f
  OBVIOUS
<1>3. QED
  BY <1>1, <1>2 DEF At

LEMMA SameProduct ==
    ASSUME NEW m \in Int, NEW p \in Int, NEW n \in Int, NEW q \in Int, NEW k \in Int, NEW r \in Int,
           SameValue(m, p, n, q)
    PROVE  SameValue(m * k, p + r, n * k, q + r)
<1> DEFINE l == LowerOf(p, q)
<1>1. l \in Int /\ l <= p /\ l <= q /\ LowerOf(p + r, q + r) = l + r
  BY DEF LowerOf
<1>2. At(m, p, l) = At(n, q, l)
  BY DEF SameValue
<1> HIDE DEF l
<1>3. (p + r) - (l + r) = p - l /\ (q + r) - (l + r) = q - l
  BY <1>1
<1>4. At(m * k, p + r, l + r) = At(m * k, p, l) /\ At(n * k, q + r, l + r) = At(n * k, q, l)
  BY <1>3 DEF At
<1>5. At(k * m, p, l) = k * At(m, p, l) /\ At(k * n, q, l) = k * At(n, q, l)
  <2>1. At(k * m, p, l) = k * At(m, p, l)
    BY <1>1, AtScaled
  <2>2. At(k * n, q, l) = k * At(n, q, l)
    BY <1>1, AtScaled
  <2>3. QED
    BY <2>1, <2>2
<1>6. m * k = k * m /\ n * k = k * n
  OBVIOUS
<1>7. QED
  BY <1>1, <1>2, <1>4, <1>5, <1>6 DEF SameValue

LEMMA SameDifference ==
    ASSUME NEW m \in Int, NEW k \in Int, NEW p \in Int, NEW n \in Int, NEW l \in Int, NEW q \in Int,
           SameValue(m, p, n, q), SameValue(k, p, l, q)
    PROVE  SameValue(m - k, p, n - l, q)
<1> DEFINE u == LowerOf(p, q)
<1>1. u \in Int /\ u <= p /\ u <= q
  BY DEF LowerOf
<1>2. At(m, p, u) = At(n, q, u) /\ At(k, p, u) = At(l, q, u)
  BY DEF SameValue
<1> HIDE DEF u
<1>3. At(m - k, p, u) = At(n - l, q, u)
  BY <1>1, <1>2, AtDifference
<1>4. QED
  BY <1>1, <1>3, SameAt

(* The exponent grows with the value.                                      *)
LEMMA ExponentGrows ==
    ASSUME NEW m \in Int, NEW n \in Int, NEW p \in Int, m # 0, AbsInt(m) <= AbsInt(n)
    PROVE  ExponentOf(m, p) <= ExponentOf(n, p) /\ ExponentOf(m, p) \in Int /\ ExponentOf(m, p) >= p
<1> DEFINE a == AbsInt(m)
           b == AbsInt(n)
<1>1. a \in Nat /\ a > 0 /\ b \in Nat /\ a <= b
  BY DEF AbsInt
<1> HIDE DEF a, b
<1>2. 10 \in Nat /\ 10 > 1
  OBVIOUS
<1>3. PICK k \in Nat \ {0} : HasLength(a, 10, k)
  BY <1>1, <1>2, ToDigitsLength
<1>4. PICK l \in Nat \ {0} : HasLength(b, 10, l)
  BY <1>1, <1>2, ToDigitsLength
<1>5. a < Power(10, k) /\ a >= Power(10, k - 1)
  <2>1. a < Power(10, k) /\ (k = 1 \/ a >= Power(10, k - 1))
    BY <1>3 DEF HasLength
  <2>2. Power(10, 0) = 1
    BY SmallPowers
  <2>3. k = 1 => k - 1 = 0
    OBVIOUS
  <2>4. QED
    BY <1>1, <2>1, <2>2, <2>3
<1>6. b < Power(10, l) /\ b >= Power(10, l - 1)
  <2>1. b < Power(10, l) /\ (l = 1 \/ b >= Power(10, l - 1))
    BY <1>4 DEF HasLength
  <2>2. Power(10, 0) = 1
    BY SmallPowers
  <2>3. l = 1 => l - 1 = 0
    OBVIOUS
  <2>4. QED
    BY <1>1, <2>1, <2>2, <2>3
<1>7. ExponentOf(m, p) = k - 1 + p /\ ExponentOf(n, p) = l - 1 + p
  BY <1>5, <1>6, ExponentIs DEF a, b
<1>8. k <= l
  <2>1. SUFFICES ASSUME k > l PROVE FALSE
    OBVIOUS
  <2>2. l \in Nat /\ k - 1 \in Nat /\ l <= k - 1
    BY <2>1
  <2>3. Power(10, l) <= Power(10, k - 1)
    BY <2>2, TenInt, PowerMonotone
  <2>4. Power(10, l) \in Nat /\ Power(10, k - 1) \in Nat
    BY <2>2, TenInt, PowerPositive
  <2>5. QED
    BY <1>1, <1>5, <1>6, <2>3, <2>4
<1>9. QED
  BY <1>7, <1>8

(* A result is one of the value, however that is written.                  *)
LEMMA ResultSame ==
    ASSUME NEW g, NEW r, Normal(r), NEW m \in Int, NEW p \in Int, NEW n \in Int, NEW q \in Int,
           SameValue(m, p, n, q), IsResult(g, r, m, p)
    PROVE  IsResult(g, r, n, q)
<1>1. m # 0 => ExponentOf(m, p) = ExponentOf(n, q) /\ n # 0
  BY ExponentSame
<1>2. m < 0 <=> n < 0
  BY SignSame
<1>3. CASE IsFinite(r) /\ SameValue(M(r), P(r), m, p)
  <2>1. M(r) \in Int /\ P(r) \in Int
    BY <1>3, FiniteHasDigits, ValueInt
  <2>2. SameValue(M(r), P(r), n, q)
    BY <1>3, <2>1, SameTrans
  <2>3. QED
    BY <1>3, <2>2 DEF IsResult
<1>4. CASE m # 0 /\ ExponentOf(m, p) > g.maxE /\ r = Infinity(IF m < 0 THEN -1 ELSE 1)
  BY <1>1, <1>2, <1>4 DEF IsResult
<1>5. CASE m # 0 /\ ExponentOf(m, p) < g.minE /\ IsZero(r)
  BY <1>1, <1>5 DEF IsResult
<1>6. QED
  BY <1>3, <1>4, <1>5 DEF IsResult

(* A quotient of integers without its fraction, and what is left.          *)
Signed(neg, n) == IF neg THEN -n ELSE n

LEMMA Truncated ==
    ASSUME NEW A \in Int, NEW B \in Int, B # 0
    PROVE  LET neg == (A < 0) # (B < 0)
               q   == AbsInt(A) \div AbsInt(B)
               r   == AbsInt(A) % AbsInt(B)
           IN  /\ RoundedInt(A, B, 1) = Signed(neg, q)
               /\ A - Signed(neg, q) * B = Signed(A < 0, r)
               /\ AbsInt(Signed(neg, q) * B) = q * AbsInt(B)
               /\ q \in Nat /\ r \in Nat /\ AbsInt(A) = AbsInt(B) * q + r /\ r < AbsInt(B)
<1> DEFINE a == AbsInt(A)
           b == AbsInt(B)
           neg == (A < 0) # (B < 0)
           q == a \div b
           r == a % b
<1>1. a \in Nat /\ b \in Nat \ {0} /\ a = Signed(A < 0, A) /\ b = Signed(B < 0, B)
  BY DEF AbsInt, Signed
<1>2. RoundedInt(A, B, 1) = Signed(neg, q)
  BY DEF RoundedInt, Signed
<1>3. q \in Nat /\ r \in Nat /\ a = b * q + r /\ r < b
  <2> HIDE DEF a, b
  <2>1. q \in Int /\ r \in 0..(b - 1) /\ a = b * q + r
    BY <1>1
  <2> HIDE DEF q, r
  <2>2. q >= 0
    <3>1. SUFFICES ASSUME q <= -1 PROVE FALSE
      BY <2>1
    <3>2. \A k \in Int, n \in Nat : k <= -1 => n * k <= -n
      OBVIOUS
    <3>3. b * q <= -b
      BY <1>1, <2>1, <3>1, <3>2
    <3>4. QED
      BY <1>1, <2>1, <3>3
  <2>3. QED
    BY <1>1, <2>1, <2>2
<1>4. A - Signed(neg, q) * B = Signed(A < 0, r) /\ AbsInt(Signed(neg, q) * B) = q * b
  <2> HIDE DEF q, r
  <2>1. PICK t \in Nat : t = b * q
    <3> HIDE DEF b
    <3>1. \A i \in Nat, j \in Nat : i * j \in Nat
      OBVIOUS
    <3>2. QED
      BY <1>1, <1>3, <3>1
  <2>2. Signed(neg, q) * B = Signed(A < 0, t) /\ q * b = t
    <3>1. CASE A < 0 /\ B < 0
      <4>1. Signed(neg, q) = q /\ B = -b
        BY <1>1, <3>1 DEF Signed
      <4> HIDE DEF b
      <4>2. q * (-b) = -(b * q) /\ q * b = b * q
        BY <1>1, <1>3
      <4>3. QED
        BY <2>1, <3>1, <4>1, <4>2 DEF Signed
    <3>2. CASE A < 0 /\ ~(B < 0)
      <4>1. Signed(neg, q) = -q /\ B = b
        BY <1>1, <3>2 DEF Signed
      <4> HIDE DEF b
      <4>2. (-q) * b = -(b * q) /\ q * b = b * q
        BY <1>1, <1>3
      <4>3. QED
        BY <2>1, <3>2, <4>1, <4>2 DEF Signed
    <3>3. CASE ~(A < 0) /\ B < 0
      <4>1. Signed(neg, q) = -q /\ B = -b
        BY <1>1, <3>3 DEF Signed
      <4> HIDE DEF b
      <4>2. (-q) * (-b) = b * q /\ q * b = b * q
        BY <1>1, <1>3
      <4>3. QED
        BY <2>1, <3>3, <4>1, <4>2 DEF Signed
    <3>4. CASE ~(A < 0) /\ ~(B < 0)
      <4>1. Signed(neg, q) = q /\ B = b
        BY <1>1, <3>4 DEF Signed
      <4> HIDE DEF b
      <4>2. q * b = b * q
        BY <1>1, <1>3
      <4>3. QED
        BY <2>1, <3>4, <4>1, <4>2 DEF Signed
    <3>5. QED
      BY <3>1, <3>2, <3>3, <3>4
  <2>3. AbsInt(Signed(A < 0, t)) = t
    BY DEF AbsInt, Signed
  <2>4. A - Signed(A < 0, t) = Signed(A < 0, r)
    <3>1. A = Signed(A < 0, a) /\ a = t + r
      BY <1>1, <1>3, <2>1 DEF Signed
    <3> HIDE DEF a
    <3>2. QED
      BY <1>1, <1>3, <3>1 DEF Signed
  <2>5. QED
    BY <2>2, <2>3, <2>4
<1>5. QED
  BY <1>2, <1>3, <1>4

(* With no places and towards zero: a quotient of the two in units of the  *)
(* lower one.                                                              *)
LEMMA WholeQuotient ==
    ASSUME NEW m \in Int, NEW p \in Int, NEW n \in Int, NEW q \in Int
    PROVE  RoundedTo(m, n, p - q, 0, 1) = RoundedInt(At(m, p, LowerOf(p, q)), At(n, q, LowerOf(p, q)), 1)
<1>1. CASE p - q >= 0
  <2>1. LowerOf(p, q) = q /\ (p - q) + 0 = p - q
    BY <1>1 DEF LowerOf
  <2>2. At(n, q, q) = n
    BY AtItself
  <2>3. QED
    BY <1>1, <2>1, <2>2 DEF RoundedTo, At
<1>2. CASE ~(p - q >= 0)
  <2>1. LowerOf(p, q) = p /\ ~((p - q) + 0 >= 0) /\ -(p - q) - 0 = q - p
    BY <1>2 DEF LowerOf
  <2>2. At(m, p, p) = m
    BY AtItself
  <2>3. QED
    BY <2>1, <2>2 DEF RoundedTo, At
<1>3. QED
  BY <1>1, <1>2

(* A number in range has an exponent in range, zero aside.                 *)
LEMMA ExponentOfNumber ==
    ASSUME NEW x, Normal(x), IsFinite(x), ~IsZero(x)
    PROVE  ExponentOf(M(x), P(x)) = x.e /\ M(x) # 0
<1>1. HasDigits(x) /\ x.s \in {-1, 1} /\ x.e \in Int
  BY FiniteHasDigits DEF HasDigits
<1>2. PICK n \in Nat \ {0} : n = Len(x.c)
  BY NormalFacts
<1>3. Decimal(x.c, n) /\ x.c[1] # 0
  BY <1>2, NormalFacts DEF Leads, Decimal
<1>4. P(x) = x.e - n + 1 /\ P(x) \in Int
  BY <1>1, <1>2, ValueInt DEF P
<1>5. ExponentOf(M(x), P(x)) = n - 1 + P(x) /\ M(x) # 0
  BY <1>1, <1>3, <1>4, SignedLength DEF M
<1>6. QED
  BY <1>1, <1>4, <1>5

LEMMA InsideExponent ==
    ASSUME NEW g \in Settings, NEW x, Normal(x), IsFinite(x), ~IsZero(x), InRange(g, x) = x
    PROVE  x.e \in Int /\ g.minE <= x.e /\ x.e <= g.maxE /\ g.minE \in Int /\ g.maxE \in Int /\ g.minE < 0
<1>1. x.e \in Int /\ x.s \in {-1, 1} /\ x.c # <<>> /\ g.minE \in Int /\ g.maxE \in Int /\ g.minE < 0
  <2>1. HasDigits(x)
    BY FiniteHasDigits
  <2>2. x.c # <<>>
    BY DEF IsFinite
  <2>3. QED
    BY <2>1, <2>2, BigNumberAssumption DEF HasDigits, Settings
<1>2. ~(x.e > g.maxE)
  <2>1. SUFFICES ASSUME x.e > g.maxE PROVE FALSE
    OBVIOUS
  <2>2. x = Infinity(x.s)
    BY <2>1 DEF InRange
  <2>3. Infinity(x.s).c = <<>>
    BY DEF Infinity, BigNum
  <2>4. QED
    BY <1>1, <2>2, <2>3
<1>3. ~(x.e < g.minE)
  <2>1. SUFFICES ASSUME x.e < g.minE PROVE FALSE
    OBVIOUS
  <2>2. x = Zero(x.s)
    BY <1>2, <2>1 DEF InRange
  <2>3. IsZero(Zero(x.s))
    BY <1>1, ZeroIs
  <2>4. QED
    BY <2>2, <2>3
<1>4. QED
  BY <1>1, <1>2, <1>3

(* What times gives back of a whole quotient: not more than was divided.   *)
LEMMA MultipleInside ==
    ASSUME NEW g \in Settings, NEW x, NEW y, NEW z, Normal(x), Normal(y), Normal(z),
           IsFinite(x), IsFinite(y), IsFinite(z), ~IsZero(x), ~IsZero(y),
           InRange(g, x) = x, InRange(g, y) = y,
           NEW w \in Int, w # 0, SameValue(M(z), P(z), w, 0),
           AbsInt(w * Right(x, y)) <= AbsInt(Left(x, y)), AbsInt(w * Right(x, y)) >= AbsInt(Right(x, y))
    PROVE  /\ Normal(Times(g, z, y)) /\ IsFinite(Times(g, z, y))
           /\ SameValue(M(Times(g, z, y)), P(Times(g, z, y)), w * Right(x, y), Unit(x, y))
<1> DEFINE t == Times(g, z, y)
           p == Unit(x, y)
           A == Left(x, y)
           B == Right(x, y)
<1>1. /\ M(x) \in Int /\ P(x) \in Int /\ M(y) \in Int /\ P(y) \in Int /\ M(z) \in Int /\ P(z) \in Int
      /\ p \in Int /\ p <= P(x) /\ p <= P(y) /\ A \in Int /\ B \in Int
  BY FiniteHasDigits, ValueInt, UnitInt
<1>2. Normal(t) /\ IsResult(g, t, M(z) * M(y), P(z) + P(y))
  BY FiniteTimes
<1>3. SameValue(M(z) * M(y), P(z) + P(y), w * B, p)
  <2>1. SameValue(M(z) * M(y), P(z) + P(y), w * M(y), 0 + P(y))
    <3> DEFINE m == M(z)
               u == P(z)
               k == M(y)
               r == P(y)
               o == 0
    <3>1. m \in Int /\ u \in Int /\ k \in Int /\ r \in Int /\ o \in Int /\ SameValue(m, u, w, o)
      BY <1>1
    <3> HIDE DEF m, u, k, r, o
    <3>2. SameValue(m * k, u + r, w * k, o + r)
      BY <3>1, SameProduct
    <3>3. QED
      BY <3>2 DEF m, u, k, r, o
  <2>2. At(w * M(y), P(y), p) = w * B
    <3> DEFINE k == M(y)
               r == P(y)
    <3>1. k \in Int /\ r \in Int /\ p \in Int /\ p <= r
      BY <1>1
    <3> HIDE DEF p, k, r
    <3>2. At(w * k, r, p) = w * At(k, r, p)
      BY <3>1, AtScaled
    <3>3. QED
      BY <3>2 DEF p, k, r, Right
  <2>3. w * M(y) \in Int /\ w * B \in Int /\ M(z) * M(y) \in Int /\ P(z) + P(y) \in Int /\ 0 + P(y) = P(y)
    BY <1>1
  <2> HIDE DEF p, A, B
  <2>4. SameValue(w * M(y), P(y), w * B, p)
    BY <1>1, <2>2, <2>3, SameItself
  <2>5. QED
    BY <1>1, <2>1, <2>3, <2>4, SameTrans
<1>4. ExponentOf(M(x), P(x)) = x.e /\ ExponentOf(M(y), P(y)) = y.e /\ M(x) # 0 /\ M(y) # 0
  BY ExponentOfNumber
<1>5. ExponentOf(A, p) = x.e /\ ExponentOf(B, p) = y.e /\ B # 0
  <2>1. ExponentOf(At(M(x), P(x), p), p) = ExponentOf(M(x), P(x))
    BY <1>1, <1>4, ExponentAt, ZenonT(60)
  <2>2. ExponentOf(At(M(y), P(y), p), p) = ExponentOf(M(y), P(y)) /\ At(M(y), P(y), p) # 0
    BY <1>1, <1>4, ExponentAt
  <2>3. QED
    BY <1>4, <2>1, <2>2 DEF Left, Right
<1>6. /\ x.e \in Int /\ y.e \in Int /\ x.e <= g.maxE /\ g.minE <= y.e /\ g.minE \in Int /\ g.maxE \in Int
  BY InsideExponent
<1>7. w * B \in Int /\ w * B # 0
  <2>1. \A i \in Int, j \in Int : i # 0 /\ j # 0 => i * j # 0 /\ i * j \in Int
    OBVIOUS
  <2> HIDE DEF B
  <2>2. QED
    BY <1>1, <1>5, <2>1
<1>8. ExponentOf(w * B, p) <= x.e /\ y.e <= ExponentOf(w * B, p) /\ ExponentOf(w * B, p) \in Int
  <2> HIDE DEF p, A, B
  <2>0. AbsInt(w * B) <= AbsInt(A) /\ AbsInt(B) <= AbsInt(w * B)
    <3>1. AbsInt(w * B) <= AbsInt(A) /\ AbsInt(w * B) >= AbsInt(B)
      BY DEF A, B
    <3>2. AbsInt(w * B) \in Int /\ AbsInt(B) \in Int
      BY <1>1, <1>7 DEF AbsInt
    <3>3. QED
      BY <3>1, <3>2
  <2>1. ExponentOf(w * B, p) <= ExponentOf(A, p) /\ ExponentOf(w * B, p) \in Int
    BY <1>1, <1>7, <2>0, ExponentGrows
  <2>2. ExponentOf(B, p) <= ExponentOf(w * B, p)
    BY <1>1, <1>5, <1>7, <2>0, ExponentGrows
  <2>3. QED
    BY <1>5, <2>1, <2>2
<1>9. M(z) * M(y) \in Int /\ P(z) + P(y) \in Int
  BY <1>1
<1> HIDE DEF p, A, B, t
<1>10. IsResult(g, t, w * B, p)
  BY <1>1, <1>2, <1>3, <1>7, <1>9, ResultSame
<1>11. IsFinite(t) /\ SameValue(M(t), P(t), w * B, p)
  BY <1>6, <1>8, <1>10 DEF IsResult
<1>12. QED
  BY <1>2, <1>11 DEF p, A, B, t

LEMMA ZeroExponent ==
    ASSUME NEW p \in Int
    PROVE  ExponentOf(0, p) = p
<1>1. 10 \in Nat /\ 10 > 1 /\ 0 \in Nat /\ AbsInt(0) = 0
  BY DEF AbsInt
<1>2. PICK k \in Nat \ {0} : HasLength(0, 10, k) /\ ToDigits(0, 10) = [i \in 1..k |-> (0 \div Power(10, k - i)) % 10]
  BY <1>1, ToDigitsLength
<1>3. k = 1
  <2>1. SUFFICES ASSUME k # 1 PROVE FALSE
    OBVIOUS
  <2>2. 0 >= Power(10, k - 1) /\ k - 1 \in Nat
    BY <1>2, <2>1 DEF HasLength
  <2>3. Power(10, k - 1) \in Nat \ {0}
    BY <2>2, TenInt, PowerPositive
  <2>4. QED
    BY <2>2, <2>3
<1>4. Len(ToDigits(0, 10)) = 1
  <2> DEFINE f == [i \in 1..k |-> (0 \div Power(10, k - i)) % 10]
  <2>1. DOMAIN f = 1..1
    BY <1>3
  <2>2. f = [i \in 1..1 |-> f[i]]
    BY <1>3
  <2> HIDE DEF f
  <2>3. f \in Seq({f[1]}) /\ Len(f) = 1
    BY <2>1, <2>2
  <2>4. QED
    BY <1>2, <2>3 DEF f
<1>5. ExponentOf(0, p) = Len(ToDigits(0, 10)) - 1 + p
  BY <1>1, Zenon DEF ExponentOf
<1>6. ExponentOf(0, p) = 1 - 1 + p
  BY <1>4, <1>5, Zenon
<1>7. 1 - 1 + p = p
  OBVIOUS
<1>8. QED
  BY <1>6, <1>7, Zenon

(* What minus gives back of a number and a part of it.                     *)
LEMMA RestInside ==
    ASSUME NEW g \in Settings, NEW x, NEW y, NEW t, Normal(x), Normal(y), Normal(t),
           IsFinite(x), IsFinite(y), IsFinite(t), ~IsZero(x), InRange(g, x) = x,
           NEW c \in Int, SameValue(M(t), P(t), c, Unit(x, y)),
           AbsInt(Left(x, y) - c) <= AbsInt(Left(x, y))
    PROVE  IsResult(g, Minus(g, x, t), Left(x, y) - c, Unit(x, y))
<1> DEFINE r == Minus(g, x, t)
           p == Unit(x, y)
           A == Left(x, y)
           u == Unit(x, t)
           E == Left(x, t) - Right(x, t)
           m == M(x)
           k == P(x)
           mt == M(t)
           kt == P(t)
<1>1. /\ m \in Int /\ k \in Int /\ mt \in Int /\ kt \in Int
      /\ p \in Int /\ p <= k /\ A \in Int
      /\ u \in Int /\ u <= k /\ u <= kt /\ Left(x, t) \in Int /\ Right(x, t) \in Int
  BY FiniteHasDigits, ValueInt, UnitInt
<1>2. /\ Result(r)
      /\ IF Threw(r) THEN ExponentOf(E, u) > g.maxE ELSE IsResult(g, r, E, u)
  BY FiniteMinus, GivesResult
<1>3. SameValue(E, u, A - c, p)
  <2> DEFINE L == Left(x, t)
             R == Right(x, t)
  <2>1. L = At(m, k, u) /\ R = At(mt, kt, u) /\ A = At(m, k, p)
    BY DEF Left, Right
  <2>2. SameValue(mt, kt, c, p) /\ L \in Int /\ R \in Int /\ E = L - R
    BY <1>1
  <2> HIDE DEF L, R, m, k, mt, kt, u, p, A, E
  <2>3. SameValue(m, k, L, u)
    BY <1>1, <2>1, <2>2, SameItself
  <2>4. SameValue(m, k, A, p)
    BY <1>1, <2>1, SameItself
  <2>5. SameValue(L, u, m, k)
    BY <1>1, <2>2, <2>3, SameSym
  <2>6. SameValue(L, u, A, p)
    BY <1>1, <2>2, <2>4, <2>5, SameTrans
  <2>7. SameValue(mt, kt, R, u)
    BY <1>1, <2>1, <2>2, SameItself
  <2>8. SameValue(R, u, mt, kt)
    BY <1>1, <2>2, <2>7, SameSym
  <2>9. SameValue(R, u, c, p)
    BY <1>1, <2>2, <2>8, SameTrans
  <2>10. SameValue(L - R, u, A - c, p)
    BY <1>1, <2>2, <2>6, <2>9, SameDifference
  <2>11. QED
    BY <2>2, <2>10
<1>4. x.e \in Int /\ x.e <= g.maxE /\ g.maxE \in Int
  BY InsideExponent
<1>5. k <= x.e
  <2>1. PICK n \in Nat \ {0} : n = Len(x.c)
    BY NormalFacts
  <2>2. k = x.e - n + 1
    BY <2>1 DEF P
  <2>3. QED
    BY <1>4, <2>1, <2>2
<1>6. ExponentOf(A, p) = x.e
  <2>1. ExponentOf(m, k) = x.e /\ m # 0
    BY ExponentOfNumber
  <2>2. A = At(m, k, p)
    BY DEF Left
  <2> HIDE DEF m, k, p, A
  <2>3. QED
    BY <1>1, <2>1, <2>2, ExponentAt
<1>7. E \in Int /\ A - c \in Int
  BY <1>1
<1>8. ~(ExponentOf(E, u) > g.maxE)
  <2> HIDE DEF m, k, mt, kt, u, p, E
  <2>1. CASE E = 0
    BY <1>1, <1>4, <1>5, <2>1, ZeroExponent
  <2>2. CASE E # 0
    <3> DEFINE d == A - c
    <3>1. d \in Int /\ AbsInt(d) <= AbsInt(A) /\ SameValue(E, u, d, p)
      BY <1>3, <1>7
    <3> HIDE DEF d, A
    <3>2. ExponentOf(E, u) = ExponentOf(d, p) /\ d # 0
      BY <1>1, <1>7, <2>2, <3>1, ExponentSame
    <3>3. ExponentOf(d, p) <= ExponentOf(A, p) /\ ExponentOf(d, p) \in Int
      BY <1>1, <3>1, <3>2, ExponentGrows
    <3>4. QED
      BY <1>4, <1>6, <3>2, <3>3
  <2>3. QED
    BY <2>1, <2>2
<1> HIDE DEF r, p, A, u, E
<1>9. Normal(r) /\ IsResult(g, r, E, u)
  <2>1. ~Threw(r) /\ IsResult(g, r, E, u)
    BY <1>2, <1>8
  <2>2. QED
    BY <1>2, <2>1, NoThrow DEF Result
<1>10. IsResult(g, r, A - c, p)
  BY <1>1, <1>3, <1>7, <1>9, ResultSame
<1>11. QED
  BY <1>10 DEF r, A, p

LEMMA AbsValue ==
    ASSUME NEW x, Normal(x), IsFinite(x)
    PROVE  Normal(Abs(x)) /\ IsFinite(Abs(x)) /\ P(Abs(x)) = P(x) /\ M(Abs(x)) = AbsInt(M(x))
<1>1. HasDigits(x) /\ x.s \in {-1, 1} /\ M(x) \in Int /\ P(x) \in Int /\ FromDigits(x.c, 10) \in Nat
  BY FiniteHasDigits, ValueInt DEF HasDigits
<1>2. CASE x.s = -1
  <2>1. Abs(x) = Neg(x)
    BY <1>2 DEF Abs, IsNeg
  <2>2. M(x) <= 0
    BY <1>1, <1>2 DEF M
  <2>3. Normal(Neg(x)) /\ IsFinite(Neg(x)) /\ P(Neg(x)) = P(x) /\ M(Neg(x)) = -M(x)
    BY NegValue
  <2>4. AbsInt(M(x)) = -M(x)
    BY <1>1, <2>2 DEF AbsInt
  <2>5. QED
    BY <2>1, <2>3, <2>4
<1>3. CASE x.s = 1
  <2>1. Abs(x) = x
    BY <1>3 DEF Abs, IsNeg
  <2>2. M(x) >= 0
    BY <1>1, <1>3 DEF M
  <2>3. AbsInt(M(x)) = M(x)
    BY <1>1, <2>2 DEF AbsInt
  <2>4. QED
    BY <2>1, <2>3
<1>4. QED
  BY <1>1, <1>2, <1>3

LEMMA AtAbs ==
    ASSUME NEW m \in Int, NEW p \in Int, NEW q \in Int, q <= p
    PROVE  At(AbsInt(m), p, q) = AbsInt(At(m, p, q))
<1>1. PICK f \in Nat \ {0} : f = Power(10, p - q)
  <2>1. p - q \in Nat
    OBVIOUS
  <2>2. QED
    BY <2>1, TenInt, PowerPositive
<1>2. \A a \in Int, k \in Nat \ {0} : (a < 0 <=> a * k < 0) /\ (-a) * k = -(a * k) /\ a * k \in Int
  OBVIOUS
<1>3. AbsInt(m) * f = AbsInt(m * f)
  BY <1>2 DEF AbsInt
<1>4. QED
  BY <1>1, <1>3 DEF At

(* The comparison mod starts with.                                         *)
LEMMA GreaterDivisor ==
    ASSUME NEW x, NEW y, Normal(x), Normal(y), IsFinite(x), IsFinite(y)
    PROVE  Gt(Abs(y), Abs(x)) <=> AbsInt(Right(x, y)) > AbsInt(Left(x, y))
<1> DEFINE u == Abs(x)
           v == Abs(y)
<1>1. /\ Normal(u) /\ IsFinite(u) /\ P(u) = P(x) /\ M(u) = AbsInt(M(x))
      /\ Normal(v) /\ IsFinite(v) /\ P(v) = P(y) /\ M(v) = AbsInt(M(y))
  BY AbsValue
<1> HIDE DEF u, v
<1>2. /\ M(x) \in Int /\ P(x) \in Int /\ M(y) \in Int /\ P(y) \in Int /\ Unit(x, y) \in Int
      /\ Unit(x, y) <= P(x) /\ Unit(x, y) <= P(y) /\ Left(x, y) \in Int /\ Right(x, y) \in Int
  BY FiniteHasDigits, ValueInt, UnitInt
<1>3. Unit(v, u) = Unit(x, y)
  BY <1>1, <1>2 DEF Unit, LowerOf
<1>4. Left(v, u) = AbsInt(Right(x, y)) /\ Right(v, u) = AbsInt(Left(x, y))
  BY <1>1, <1>2, <1>3, AtAbs DEF Left, Right
<1>5. Cmp(v, u) = Sgn(AbsInt(Right(x, y)) - AbsInt(Left(x, y)))
  BY <1>1, <1>4, FiniteCmp
<1>6. AbsInt(Right(x, y)) \in Int /\ AbsInt(Left(x, y)) \in Int
  BY <1>2 DEF AbsInt
<1>7. QED
  BY <1>5, <1>6 DEF Gt, Sgn, u, v

(* What mod gives back of two finite numbers.                              *)
LEMMA ModIs ==
    ASSUME NEW g \in Settings, NEW x, NEW y, Normal(x), Normal(y), IsFinite(x), IsFinite(y), ~IsZero(y)
    PROVE  \E during \in Settings :
               /\ during.dp = 0 /\ during.rm = 1 /\ during.minE = g.minE /\ during.maxE = g.maxE
               /\ Mod(g, x, y).value = IF IsZero(x) \/ Gt(Abs(y), Abs(x)) THEN x
                                       ELSE Minus(g, x, Times(g, Div(during, x, y), y))
<1> DEFINE during == [g EXCEPT !.dp = 0, !.rm = 1]
           after  == [during EXCEPT !.dp = g.dp, !.rm = g.rm]
           q == Div(during, x, y)
<1>1. during \in Settings /\ after = g
  BY ModSettings
<1>2. during.dp = 0 /\ during.rm = 1 /\ during.minE = g.minE /\ during.maxE = g.maxE
  BY DEF Settings
<1>3. ~IsNaN(x) /\ ~IsNaN(y)
  BY FiniteNeg
<1>4. Mod(g, x, y) = [value |->
           CASE IsNaN(x) \/ IsNaN(y) \/ IsZero(y) -> NaN
             [] ~IsNaN(x) /\ ~IsNaN(y) /\ ~IsZero(y) ->
                   IF IsZero(x) \/ Gt(Abs(y), Abs(x)) THEN x
                   ELSE Minus(after, x, Times(after, q, y)),
         settings |-> after]
  BY DEF Mod
<1> HIDE DEF during, after, q
<1>5. Mod(g, x, y).value = IF IsZero(x) \/ Gt(Abs(y), Abs(x)) THEN x ELSE Minus(g, x, Times(g, q, y))
  BY <1>1, <1>3, <1>4
<1>6. QED
  BY <1>1, <1>2, <1>5 DEF q

LEMMA FiniteMod ==
    ASSUME NEW g \in Settings, NEW x, NEW y, Normal(x), Normal(y), IsFinite(x), IsFinite(y), ~IsZero(y),
           InRange(g, x) = x, InRange(g, y) = y,
           ExponentOf(AbsInt(Left(x, y)) \div AbsInt(Right(x, y)), 0) <= g.maxE
    PROVE  IsResult(g, Mod(g, x, y).value,
                    Signed(Left(x, y) < 0, AbsInt(Left(x, y)) % AbsInt(Right(x, y))), Unit(x, y))
<1> DEFINE p == Unit(x, y)
           A == Left(x, y)
           B == Right(x, y)
           a == AbsInt(A)
           b == AbsInt(B)
           q == a \div b
           rest == a % b
           neg == (A < 0) # (B < 0)
           w == Signed(neg, q)
<1>1. PICK during \in Settings :
         /\ during.dp = 0 /\ during.rm = 1 /\ during.minE = g.minE /\ during.maxE = g.maxE
         /\ Mod(g, x, y).value = IF IsZero(x) \/ Gt(Abs(y), Abs(x)) THEN x
                                 ELSE Minus(g, x, Times(g, Div(during, x, y), y))
  BY ModIs
<1>2. /\ M(x) \in Int /\ P(x) \in Int /\ M(y) \in Int /\ P(y) \in Int
      /\ p \in Int /\ p <= P(x) /\ p <= P(y) /\ A \in Int /\ B \in Int
  BY FiniteHasDigits, ValueInt, UnitInt
<1>3. B # 0
  <2>1. M(y) # 0
    BY ExponentOfNumber
  <2>2. At(M(y), P(y), p) # 0
    BY <1>2, <2>1, ExponentAt
  <2>3. QED
    BY <2>2 DEF Right
<1>4. a \in Nat /\ b \in Nat \ {0}
  BY <1>2, <1>3 DEF AbsInt
<1>5. /\ RoundedInt(A, B, 1) = w /\ A - w * B = Signed(A < 0, rest) /\ AbsInt(w * B) = q * b
      /\ q \in Nat /\ rest \in Nat /\ a = b * q + rest /\ rest < b
  BY <1>2, <1>3, Truncated
<1> HIDE DEF A, B, a, b, q, rest, w, p
<1>6. SameValue(M(x), P(x), A, p)
  BY <1>2, SameItself DEF A, p, Left
<1>7. CASE IsZero(x) \/ Gt(Abs(y), Abs(x))
  <2>1. a < b
    <3>1. CASE IsZero(x)
      <4>1. M(x) = 0
        BY <3>1, ZeroValue
      <4>2. A = 0
        BY <1>2, <1>6, <4>1, SignSame
      <4>3. a = 0
        BY <4>2 DEF a, AbsInt
      <4>4. QED
        BY <1>4, <4>3
    <3>2. CASE Gt(Abs(y), Abs(x))
      <4>1. b > a
        BY <3>2, GreaterDivisor DEF a, b, A, B
      <4>2. QED
        BY <1>4, <4>1
    <3>3. QED
      BY <1>7, <3>1, <3>2
  <2>2. rest = a
    <3>1. q = 0
      <4>1. SUFFICES ASSUME q >= 1 PROVE FALSE
        BY <1>5
      <4>2. \A i \in Nat, j \in Nat : j >= 1 => i * j >= i
        OBVIOUS
      <4>3. b * q >= b
        BY <1>4, <1>5, <4>1, <4>2
      <4>4. PICK t \in Int : t = b * q
        BY <1>4, <1>5
      <4>5. QED
        BY <1>4, <1>5, <2>1, <4>3, <4>4
    <3>2. QED
      BY <1>4, <1>5, <3>1
  <2>3. Signed(A < 0, rest) = A
    BY <1>2, <2>2 DEF Signed, a, AbsInt
  <2>4. Mod(g, x, y).value = x
    BY <1>1, <1>7
  <2>5. IsResult(g, Mod(g, x, y).value, Signed(A < 0, rest), p)
    BY <1>6, <2>3, <2>4 DEF IsResult
  <2>6. QED
    BY <2>5 DEF A, B, a, b, rest, p
<1>8. CASE ~(IsZero(x) \/ Gt(Abs(y), Abs(x)))
  <2> DEFINE z == Div(during, x, y)
             t == Times(g, z, y)
  <2>1. Mod(g, x, y).value = Minus(g, x, t)
    BY <1>1, <1>8
  <2>2. q >= 1
    <3>1. ~(b > a)
      BY <1>8, GreaterDivisor DEF a, b, A, B
    <3>2. SUFFICES ASSUME q = 0 PROVE FALSE
      BY <1>5
    <3>3. QED
      BY <1>4, <1>5, <3>1, <3>2
  <2>3. w \in Int /\ AbsInt(w) = q /\ w # 0
    BY <1>5, <2>2 DEF w, Signed, AbsInt
  <2>4. RoundedTo(M(x), M(y), P(x) - P(y), 0, 1) = w
    <3>1. RoundedTo(M(x), M(y), P(x) - P(y), 0, 1) = RoundedInt(At(M(x), P(x), LowerOf(P(x), P(y))), At(M(y), P(y), LowerOf(P(x), P(y))), 1)
      BY <1>2, WholeQuotient
    <3>2. RoundedTo(M(x), M(y), P(x) - P(y), 0, 1) = RoundedInt(A, B, 1)
      BY <3>1 DEF A, B, Left, Right, Unit
    <3>3. QED
      BY <1>5, <3>2
  <2>5. Normal(z) /\ IsResult(during, z, w, 0)
    <3>1. IsResult(during, z, RoundedTo(M(x), M(y), P(x) - P(y), during.dp, during.rm), -during.dp)
      BY FiniteDiv
    <3>2. during.dp = 0 /\ during.rm = 1 /\ -during.dp = 0
      <4>1. during.dp = 0 /\ during.rm = 1
        BY <1>1
      <4>2. \A d \in Int, e \in Int : d + e = 0 => -d = e
        OBVIOUS
      <4>3. -during.dp = 0
        <5> DEFINE d == during.dp
                   e == 0
        <5>1. d \in Int /\ e \in Int /\ d + e = 0
          BY <4>1
        <5> HIDE DEF d, e
        <5>2. -d = e
          BY <4>2, <5>1
        <5>3. QED
          BY <5>2 DEF d, e
      <4>4. QED
        BY <4>1, <4>3
    <3>3. Normal(z)
      BY DivNormal
    <3>4. IsResult(during, z, w, 0)
      BY <2>4, <3>1, <3>2
    <3>5. QED
      BY <3>3, <3>4
  <2> HIDE DEF z, t
  <2>6. IsFinite(z) /\ SameValue(M(z), P(z), w, 0)
    <3>1. ExponentOf(w, 0) = ExponentOf(q, 0)
      <4>1. AbsInt(q) = q
        BY <1>5 DEF AbsInt
      <4>2. QED
        BY <2>3, <4>1 DEF ExponentOf
    <3>2. ExponentOf(q, 0) <= g.maxE
      BY DEF q, a, b, A, B
    <3>3. q \in Int /\ q # 0 /\ 0 \in Int /\ AbsInt(q) <= AbsInt(q)
      BY <1>5, <2>2 DEF AbsInt
    <3>4. ExponentOf(q, 0) \in Int /\ ExponentOf(q, 0) >= 0
      BY <3>3, ExponentGrows
    <3>5. g.minE \in Int /\ g.minE < 0 /\ g.maxE \in Int
      BY BigNumberAssumption DEF Settings
    <3>6. during.minE = g.minE /\ during.maxE = g.maxE
      BY <1>1
    <3>7. ~(ExponentOf(w, 0) > during.maxE) /\ ~(ExponentOf(w, 0) < during.minE)
      BY <3>1, <3>2, <3>4, <3>5, <3>6
    <3>8. QED
      BY <2>5, <3>7 DEF IsResult
  <2>7. PICK k \in Nat : k = q * b /\ k >= b /\ k <= a /\ k + rest = a
    <3>1. \A i \in Nat, j \in Nat : i * j \in Nat /\ j * i = i * j /\ (j >= 1 => i * j >= i)
      OBVIOUS
    <3>2. b \in Nat /\ q \in Nat
      BY <1>4, <1>5
    <3>3. q * b \in Nat /\ q * b = b * q /\ b * q >= b
      BY <2>2, <3>1, <3>2
    <3>4. PICK j \in Nat : j = q * b
      BY <3>3
    <3>5. j >= b /\ a = j + rest
      BY <1>5, <3>3, <3>4
    <3>6. QED
      BY <1>4, <1>5, <3>4, <3>5
  <2>8. AbsInt(w * B) = k /\ w * B \in Int
    <3>1. AbsInt(w * B) = k
      BY <1>5, <2>7
    <3>2. QED
      BY <1>2, <2>3, <3>1
  <2>9. Normal(t) /\ IsFinite(t) /\ SameValue(M(t), P(t), w * B, p)
    <3>1. AbsInt(w * B) <= AbsInt(A) /\ AbsInt(w * B) >= AbsInt(B)
      BY <2>7, <2>8 DEF a, b
    <3>2. AbsInt(w * Right(x, y)) <= AbsInt(Left(x, y)) /\ AbsInt(w * Right(x, y)) >= AbsInt(Right(x, y))
      BY <3>1 DEF A, B
    <3>3. /\ Normal(Times(g, z, y)) /\ IsFinite(Times(g, z, y))
          /\ SameValue(M(Times(g, z, y)), P(Times(g, z, y)), w * Right(x, y), Unit(x, y))
      BY <1>8, <2>3, <2>5, <2>6, <3>2, MultipleInside
    <3>4. QED
      BY <3>3 DEF t, B, p
  <2>10. AbsInt(A - w * B) <= AbsInt(A)
    <3>1. AbsInt(Signed(A < 0, rest)) = rest
      BY <1>5 DEF AbsInt, Signed
    <3>2. rest <= a
      BY <1>4, <1>5, <2>7
    <3>3. QED
      BY <1>5, <3>1, <3>2 DEF a
  <2>11. IsResult(g, Minus(g, x, t), A - w * B, p)
    <3> DEFINE c == w * B
    <3>1. c \in Int /\ SameValue(M(t), P(t), c, Unit(x, y)) /\ AbsInt(Left(x, y) - c) <= AbsInt(Left(x, y))
      BY <2>8, <2>9, <2>10 DEF A, p
    <3> HIDE DEF c
    <3>2. IsResult(g, Minus(g, x, t), Left(x, y) - c, Unit(x, y))
      BY <1>8, <2>9, <3>1, RestInside
    <3>3. QED
      BY <3>2 DEF c, A, p
  <2>12. IsResult(g, Mod(g, x, y).value, Signed(A < 0, rest), p)
    BY <1>5, <2>1, <2>11
  <2>13. QED
    BY <2>12 DEF A, B, a, b, rest, p
<1>9. QED
  BY <1>7, <1>8

(* An operation gives a number in normal form or an exception, and leaves  *)
(* settings in their ranges behind.                                        *)
LEMMA ReturnsTypeOK ==
    ASSUME TypeOK, NEW r, NEW g \in Settings, Returns(r, g), Result(r)
    PROVE  TypeOK'
<1>1. CASE Threw(r)
  BY <1>1 DEF TypeOK, Returns
<1>2. CASE ~Threw(r)
  BY <1>2, NoThrow DEF TypeOK, Returns, Result
<1>3. QED
  BY <1>1, <1>2

LEMMA ConversionTypeOK ==
    ASSUME TypeOK, NEW r, Returns(r, settings), ConvertedResult(r)
    PROVE  TypeOK'
<1>1. settings \in Settings
  BY DEF TypeOK
<1>2. CASE Threw(r)
  BY <1>1, <1>2 DEF TypeOK, Returns
<1>3. CASE ~Threw(r)
  BY <1>1, <1>3, NoNumberThrew DEF TypeOK, Returns, ConvertedResult
<1>4. QED
  BY <1>2, <1>3

LEMMA PutSettings ==
    ASSUME NEW g \in Settings, NEW name, NEW v, ValidOption(name, v),
           name \in {"dp", "rm", "expAt", "range", "errors"}
    PROVE  Put(g, name, v) \in Settings
<1>1. MAX \in Nat \ {0}
  BY BigNumberAssumption
<1>2. CASE name = "dp"
  <2>1. v \in Nat /\ Put(g, name, v) = [g EXCEPT !.dp = v]
    BY <1>1, <1>2 DEF ValidOption, Put
  <2>2. QED
    BY <2>1 DEF Settings
<1>3. CASE name = "rm"
  <2>1. v \in 0..8 /\ Put(g, name, v) = [g EXCEPT !.rm = v]
    BY <1>3 DEF ValidOption, Put
  <2>2. QED
    BY <2>1 DEF Settings
<1>4. CASE name = "expAt"
  <2>1. v[1] \in -MAX..0 /\ v[2] \in 0..MAX /\ Put(g, name, v) = [g EXCEPT !.expNeg = v[1], !.expPos = v[2]]
    BY <1>4 DEF ValidOption, Put, InBounds
  <2>2. QED
    BY <2>1 DEF Settings
<1>5. CASE name = "range"
  <2>1. v[1] \in -MAX..-1 /\ v[2] \in 1..MAX /\ Put(g, name, v) = [g EXCEPT !.minE = v[1], !.maxE = v[2]]
    BY <1>5 DEF ValidOption, Put, InBounds
  <2>2. QED
    BY <2>1 DEF Settings
<1>6. CASE name = "errors"
  <2>1. Put(g, name, v) = [g EXCEPT !.errors = (v = 1)]
    BY <1>6 DEF Put
  <2>2. (v = 1) \in BOOLEAN
    BY Zenon
  <2>3. QED
    BY <2>1, <2>2 DEF Settings
<1>7. QED
  BY <1>2, <1>3, <1>4, <1>5, <1>6

ConfigStates == [settings : Settings, threw : BOOLEAN]

LEMMA OptionSettings ==
    ASSUME NEW before \in ConfigStates, NEW v,
           NEW name \in {"dp", "rm", "expAt", "range", "errors"}
    PROVE  Option(before, name, v) \in ConfigStates
<1>0. before.settings \in Settings /\ before.settings.errors \in BOOLEAN
  BY DEF ConfigStates, Settings
<1>1. CASE before.threw \/ v = null
  BY <1>1 DEF Option
<1>2. CASE ~(before.threw \/ v = null) /\ ValidOption(name, v)
  <2>1. Put(before.settings, name, v) \in Settings
    BY <1>0, <1>2, PutSettings
  <2>2. Option(before, name, v) = [before EXCEPT !.settings = Put(@, name, v)]
    BY <1>2 DEF Option
  <2>3. QED
    BY <2>1, <2>2 DEF ConfigStates
<1>3. CASE ~(before.threw \/ v = null) /\ ~ValidOption(name, v)
  <2>1. Option(before, name, v) = [before EXCEPT !.threw = before.settings.errors]
    BY <1>3 DEF Option
  <2>2. QED
    BY <1>0, <2>1 DEF ConfigStates
<1>4. QED
  BY <1>1, <1>2, <1>3

LEMMA ConfiguredSettings ==
    ASSUME NEW g \in Settings, NEW o
    PROVE  Configured(g, o).settings \in Settings
<1> DEFINE first == [settings |-> g, threw |-> FALSE]
           dp    == Option(first, "dp", o.dp)
           rm    == Option(dp, "rm", o.rm)
           expAt == Option(rm, "expAt", o.expAt)
           range == Option(expAt, "range", o.range)
           end   == Option(range, "errors", o.errors)
<1>1. Configured(g, o) = end
  BY DEF Configured
<1>2. first \in ConfigStates
  BY DEF ConfigStates
<1> HIDE DEF first
<1>3. dp \in ConfigStates
  BY <1>2, OptionSettings
<1> HIDE DEF dp
<1>4. rm \in ConfigStates
  BY <1>3, OptionSettings
<1> HIDE DEF rm
<1>5. expAt \in ConfigStates
  BY <1>4, OptionSettings
<1> HIDE DEF expAt
<1>6. range \in ConfigStates
  BY <1>5, OptionSettings
<1> HIDE DEF range
<1>7. end \in ConfigStates
  BY <1>6, OptionSettings
<1> HIDE DEF end
<1>8. QED
  BY <1>1, <1>7 DEF ConfigStates

(* toF and toFr set back what they change.                                 *)
LEMMA NotationSetBack ==
    ASSUME NEW g \in Settings, NEW n, NEW dp
    PROVE  ToF(g, n, dp).settings = g
<1>1. [PlainNotation(g) EXCEPT !.expNeg = g.expNeg, !.expPos = g.expPos] = g
  BY DEF PlainNotation, Settings
<1>2. QED
  BY <1>1 DEF ToF

LEMMA FractionSetBack ==
    ASSUME NEW g \in Settings, NEW n, NEW limit
    PROVE  ToFr(g, n, limit).settings = g
<1> DEFINE dp == (Len(n.c) - n.e - 1) * 2
           fine == [g EXCEPT !.maxE = Unbounded, !.dp = dp]
<1>1. [fine EXCEPT !.maxE = g.maxE, !.dp = g.dp] = g
  <2> HIDE DEF dp
  <2>1. fine = [g EXCEPT !.maxE = Unbounded, !.dp = dp]
    OBVIOUS
  <2>2. QED
    BY DEF Settings
<1>2. ToFr(g, n, limit).settings \in {g, [fine EXCEPT !.maxE = g.maxE, !.dp = g.dp]}
  BY DEF ToFr
<1>3. QED
  BY <1>1, <1>2

(* The only exceptions are those of a configuration and of a root that     *)
(* throws.                                                                 *)
SetBack == settings' = settings \/ (SqrtThrows /\ settings' = [settings EXCEPT !.dp = @ + ExtraPlaces])

LEMMA StepTypeOK ==
    ASSUME TypeOK, Next
    PROVE  TypeOK' /\ (Config \/ SetBack)
<1>1. Normal(acc) /\ settings \in Settings
  BY DEF TypeOK
<1>2. /\ \A y \in Operands : Normal(y)
      /\ \A t \in Texts : IsText(t)
      /\ Exponents \subseteq Int /\ Places \subseteq Int \cup {null} /\ Bases \subseteq Int
  BY LibAssumption DEF IsText
<1>3. CASE Config
  <2>1. PICK o \in Options : settings' = Configured(settings, o).settings /\ acc' = acc
    BY <1>3 DEF Config
  <2>2. QED
    BY <1>1, <1>3, <2>1, ConfiguredSettings DEF TypeOK
<1>4. CASE Construct
  <2>1. PICK t \in Texts, isNum \in BOOLEAN : Returns(New(settings, t, isNum), settings)
    BY <1>4 DEF Construct
  <2>2. Result(New(settings, t, isNum))
    BY <1>2, NewResult
  <2>3. QED
    BY <1>1, <2>1, <2>2, ReturnsTypeOK DEF SetBack, Returns
<1>5. CASE Conversion
  <2>1. PICK t \in Texts, b \in Bases : Returns(NewBase(settings, t, b), settings)
    BY <1>5 DEF Conversion
  <2>2. ConvertedResult(NewBase(settings, t, b))
    BY <1>1, <1>2, NewBaseResult
  <2>3. QED
    BY <1>1, <2>1, <2>2, ConversionTypeOK DEF SetBack, Returns
<1>6. CASE PlusCall
  <2>1. PICK y \in Operands : Returns(Plus(settings, acc, y), settings)
    BY <1>6 DEF PlusCall
  <2>2. Result(Plus(settings, acc, y))
    BY <1>1, <1>2, PlusMinusResult
  <2>3. QED
    BY <1>1, <2>1, <2>2, ReturnsTypeOK DEF SetBack, Returns
<1>7. CASE MinusCall
  <2>1. PICK y \in Operands : Returns(Minus(settings, acc, y), settings)
    BY <1>7 DEF MinusCall
  <2>2. Result(Minus(settings, acc, y))
    BY <1>1, <1>2, PlusMinusResult
  <2>3. QED
    BY <1>1, <2>1, <2>2, ReturnsTypeOK DEF SetBack, Returns
<1>8. CASE TimesCall
  <2>1. PICK y \in Operands : Returns(Times(settings, acc, y), settings)
    BY <1>8 DEF TimesCall
  <2>2. Result(Times(settings, acc, y))
    BY <1>1, <1>2, TimesNormal DEF Result
  <2>3. QED
    BY <1>1, <2>1, <2>2, ReturnsTypeOK DEF SetBack, Returns
<1>9. CASE DivCall
  <2>1. PICK y \in Operands : Returns(Div(settings, acc, y), settings)
    BY <1>9 DEF DivCall
  <2>2. Result(Div(settings, acc, y))
    BY <1>1, <1>2, DivNormal DEF Result
  <2>3. QED
    BY <1>1, <2>1, <2>2, ReturnsTypeOK DEF SetBack, Returns
<1>10. CASE ModCall
  <2>1. PICK y \in Operands : Gives(Mod(settings, acc, y))
    BY <1>10 DEF ModCall
  <2>2. Result(Mod(settings, acc, y).value) /\ Mod(settings, acc, y).settings = settings
    BY <1>1, <1>2, ModResult
  <2>3. QED
    BY <1>1, <2>1, <2>2, ReturnsTypeOK DEF SetBack, Returns, Gives
<1>11. CASE NegCall \/ AbsCall
  <2>1. PICK r \in {Neg(acc), Abs(acc)} : Returns(r, settings)
    BY <1>11 DEF NegCall, AbsCall
  <2>2. Result(r)
    BY <1>1, NormalNeg DEF Result
  <2>3. QED
    BY <1>1, <2>1, <2>2, ReturnsTypeOK DEF SetBack, Returns
<1>12. CASE CeilCall \/ FloorCall
  <2>1. PICK r \in {Ceil(settings, acc), Floor(settings, acc)} : Gives(r)
    BY <1>12 DEF CeilCall, FloorCall
  <2>2. Result(r.value) /\ r.settings = settings
    BY <1>1, CeilFloorNormal DEF Result
  <2>3. QED
    BY <1>1, <2>1, <2>2, ReturnsTypeOK DEF SetBack, Returns, Gives
<1>13. CASE SqrtCall
  <2> DEFINE r == Sqrt(settings, acc)
  <2>1. r.value # null /\ Returns(r.value, r.settings)
    BY <1>13 DEF SqrtCall, Gives
  <2>2. /\ Result(r.value) /\ r.settings \in Settings
        /\ r.settings = IF Threw(r.value) THEN [settings EXCEPT !.dp = @ + ExtraPlaces] ELSE settings
    BY <1>1, <2>1, SqrtResult
  <2>3. TypeOK'
    BY <2>1, <2>2, ReturnsTypeOK
  <2>4. settings' = r.settings
    BY <2>1 DEF Returns
  <2>5. SetBack
    BY <1>13, <2>2, <2>4 DEF SetBack, SqrtThrows
  <2>6. QED
    BY <2>3, <2>5
<1>14. CASE PowCall
  <2>1. PICK e \in Exponents : Returns(Pow(settings, acc, e), settings)
    BY <1>14 DEF PowCall
  <2>2. Result(Pow(settings, acc, e))
    BY <1>1, <1>2, PowResult
  <2>3. QED
    BY <1>1, <2>1, <2>2, ReturnsTypeOK DEF SetBack, Returns
<1>15. CASE RoundCall
  <2>1. PICK dp \in Places, rm \in Places : Gives(Round(settings, acc, dp, rm))
    BY <1>15 DEF RoundCall
  <2>2. Result(Round(settings, acc, dp, rm).value) /\ Round(settings, acc, dp, rm).settings = settings
    BY <1>1, <1>2, RoundResult
  <2>3. QED
    BY <1>1, <2>1, <2>2, ReturnsTypeOK DEF SetBack, Returns, Gives
<1>16. CASE ToSCall \/ ToECall \/ ToPCall
  <2>1. settings' = settings /\ acc' = acc
    BY <1>16 DEF ToSCall, ToECall, ToPCall, Prints
  <2>2. QED
    BY <1>1, <2>1 DEF SetBack, TypeOK
<1>17. CASE ToFCall
  <2>1. PICK dp \in Places : settings' = ToF(settings, acc, dp).settings /\ acc' = acc
    BY <1>17 DEF ToFCall, PrintsFixed, Prints
  <2>2. settings' = settings
    BY <1>1, <2>1, NotationSetBack
  <2>3. QED
    BY <1>1, <2>1, <2>2 DEF SetBack, TypeOK
<1>18. CASE ToFrCall
  <2>1. PICK y \in Operands \cup {null} : settings' = ToFr(settings, acc, y).settings /\ acc' = acc
    BY <1>18 DEF ToFrCall, PrintsFraction, Prints
  <2>2. settings' = settings
    BY <1>1, <2>1, FractionSetBack
  <2>3. QED
    BY <1>1, <2>1, <2>2 DEF SetBack, TypeOK
<1>19. QED
  BY <1>3, <1>4, <1>5, <1>6, <1>7, <1>8, <1>9, <1>10, <1>11, <1>12, <1>13, <1>14, <1>15, <1>16,
     <1>17, <1>18 DEF Next

(* Whatever is called in whatever order, a result is in the normal form    *)
(* comparison and equality rely on and the settings are ones config would  *)
(* have let in.  The one number with NaN for digits the code can make, of  *)
(* a text in a base beyond RANGE, is no result here: see Unreadable.       *)
THEOREM NumbersNormal == Spec => []TypeOK
<1>1. Init => TypeOK
  BY NormalConstants, LibAssumption DEF Init, TypeOK
<1>2. TypeOK /\ [Next]_vars => TypeOK'
  <2>1. ASSUME TypeOK, UNCHANGED vars PROVE TypeOK'
    BY <2>1 DEF TypeOK, vars
  <2>2. QED
    BY <2>1, StepTypeOK
<1>3. QED
  BY <1>1, <1>2, PTL DEF Spec

(* No operation leaves other settings behind than it found, but for a      *)
(* square root that throws.                                                *)
THEOREM SettingsKept == Spec => SettingsOnlyByConfig
<1>1. TypeOK /\ [Next]_vars =>
          [settings' # settings =>
              Config \/ (SqrtThrows /\ settings' = [settings EXCEPT !.dp = @ + ExtraPlaces])]_vars
  BY StepTypeOK DEF SetBack
<1>2. QED
  BY <1>1, NumbersNormal, PTL DEF Spec, SettingsOnlyByConfig

(* cmp is the order of the values, for any two numbers.                    *)
THEOREM ComparisonRight == Spec => []ComparisonIsOrder
<1>1. TypeOK => ComparisonIsOrder
  <2>1. SUFFICES ASSUME TypeOK, NEW y \in Operands
                 PROVE  /\ IsNaN(acc) \/ IsNaN(y) <=> Cmp(acc, y) = null
                        /\ (IsFinite(acc) /\ IsFinite(y)) =>
                              LET p == LowerOf(P(acc), P(y))
                              IN  Cmp(acc, y) = Sgn(At(M(acc), P(acc), p) - At(M(y), P(y), p))
                        /\ ~IsNaN(acc) /\ ~IsNaN(y) /\ ~(IsFinite(acc) /\ IsFinite(y)) =>
                              Cmp(acc, y) = Sgn((IF IsFinite(acc) THEN 0 ELSE acc.s) - (IF IsFinite(y) THEN 0 ELSE y.s))
    BY DEF ComparisonIsOrder
  <2>2. Normal(acc) /\ Normal(y)
    BY <2>1, LibAssumption DEF TypeOK
  <2>3. (IsFinite(acc) /\ IsFinite(y)) => Cmp(acc, y) = Sgn(Left(acc, y) - Right(acc, y))
    BY <2>2, FiniteCmp
  <2>4. ~IsNaN(acc) /\ ~IsNaN(y) /\ ~(IsFinite(acc) /\ IsFinite(y)) =>
            Cmp(acc, y) = Sgn((IF IsFinite(acc) THEN 0 ELSE acc.s) - (IF IsFinite(y) THEN 0 ELSE y.s))
    BY <2>2, InfiniteCmp
  <2>5. IsNaN(acc) \/ IsNaN(y) => Cmp(acc, y) = null
    BY DEF Cmp
  <2>6. ~IsNaN(acc) /\ ~IsNaN(y) => Cmp(acc, y) # null
    <3>1. \A k : Sgn(k) \in Int
      BY DEF Sgn
    <3>2. null \notin Int
      BY BigNumberAssumption
    <3>3. CASE IsFinite(acc) /\ IsFinite(y)
      BY <2>3, <3>1, <3>2, <3>3
    <3>4. CASE ~(IsFinite(acc) /\ IsFinite(y))
      BY <2>4, <3>1, <3>2, <3>4
    <3>5. QED
      BY <3>3, <3>4
  <2>7. QED
    BY <2>3, <2>4, <2>5, <2>6 DEF Left, Right, Unit
<1>2. QED
  BY <1>1, NumbersNormal, PTL

(* Sums, differences and products are the exact ones, of any two finite    *)
(* numbers in any settings.                                                *)
THEOREM SumsAndProductsRight == Spec => []SumsAndProductsExact
<1>1. TypeOK => SumsAndProductsExact
  <2> SUFFICES ASSUME TypeOK, IsFinite(acc), NEW y \in FiniteOperands
               PROVE  /\ IF Threw(Plus(settings, acc, y))
                         THEN ExponentOf(Left(acc, y) + Right(acc, y), Unit(acc, y)) > settings.maxE
                         ELSE IsResult(settings, Plus(settings, acc, y), Left(acc, y) + Right(acc, y), Unit(acc, y))
                      /\ IF Threw(Minus(settings, acc, y))
                         THEN ExponentOf(Left(acc, y) - Right(acc, y), Unit(acc, y)) > settings.maxE
                         ELSE IsResult(settings, Minus(settings, acc, y), Left(acc, y) - Right(acc, y), Unit(acc, y))
                      /\ IsResult(settings, Times(settings, acc, y), M(acc) * M(y), P(acc) + P(y))
    BY DEF SumsAndProductsExact, Left, Right, Unit
  <2>1. Normal(acc) /\ Normal(y) /\ IsFinite(y)
    BY LibAssumption DEF TypeOK, FiniteOperands
  <2>2. Yields(settings, Plus(settings, acc, y), Left(acc, y) + Right(acc, y), Unit(acc, y))
    BY <2>1, FinitePlus
  <2>3. Yields(settings, Minus(settings, acc, y), Left(acc, y) - Right(acc, y), Unit(acc, y))
    BY <2>1, FiniteMinus
  <2>4. IsResult(settings, Times(settings, acc, y), M(acc) * M(y), P(acc) + P(y))
    BY <2>1, FiniteTimes
  <2>5. QED
    BY <2>2, <2>3, <2>4, GivesResult
<1>2. QED
  BY <1>1, NumbersNormal, PTL

(* A remainder, of numbers in range with an integer quotient in range,     *)
(* makes up for what that quotient leaves; with the two theorems above,    *)
(* the arithmetic that only adds, compares and multiplies is exact.        *)
THEOREM ArithmeticRight == Spec => []ArithmeticExact
<1>1. TypeOK => RemainderFits
  <2> DEFINE a(y) == At(M(acc), P(acc), LowerOf(P(acc), P(y)))
             b(y) == AbsInt(At(M(y), P(y), LowerOf(P(acc), P(y))))
             rest(y) == AbsInt(a(y)) % b(y)
  <2>1. SUFFICES ASSUME TypeOK, IsFinite(acc), NEW y \in FiniteOperands, ~IsZero(y),
                        acc \in InsideRange, y \in InsideRange,
                        ExponentOf(AbsInt(a(y)) \div b(y), 0) <= settings.maxE
                 PROVE  IsResult(settings, Mod(settings, acc, y).value,
                                 IF a(y) < 0 THEN -rest(y) ELSE rest(y), LowerOf(P(acc), P(y)))
    BY DEF RemainderFits
  <2>2. Normal(acc) /\ Normal(y) /\ IsFinite(y) /\ settings \in Settings
    BY <2>1, LibAssumption DEF TypeOK, FiniteOperands
  <2>3. InRange(settings, acc) = acc /\ InRange(settings, y) = y
    BY <2>1 DEF InsideRange
  <2>4. a(y) = Left(acc, y) /\ b(y) = AbsInt(Right(acc, y)) /\ LowerOf(P(acc), P(y)) = Unit(acc, y)
    BY DEF Left, Right, Unit
  <2>5. Signed(a(y) < 0, rest(y)) = IF a(y) < 0 THEN -rest(y) ELSE rest(y)
    BY DEF Signed
  <2> HIDE DEF a, b
  <2>6. IsResult(settings, Mod(settings, acc, y).value, Signed(a(y) < 0, rest(y)), LowerOf(P(acc), P(y)))
    BY <2>1, <2>2, <2>3, <2>4, FiniteMod
  <2>7. QED
    BY <2>5, <2>6
<1>2. QED
  BY <1>1, NumbersNormal, ComparisonRight, SumsAndProductsRight, PTL DEF ArithmeticExact

(* A quotient is the exact one, rounded once, of any two finite numbers in *)
(* any settings: the digits the long division stops at, and whether        *)
(* anything is left behind them, are enough for all of the modes.          *)
THEOREM QuotientsRight == Spec => []QuotientRounded
<1>1. TypeOK => QuotientRounded
  <2> SUFFICES ASSUME TypeOK, IsFinite(acc), NEW y \in FiniteOperands, ~IsZero(y)
               PROVE  IsResult(settings, Div(settings, acc, y),
                               RoundedTo(M(acc), M(y), P(acc) - P(y), settings.dp, settings.rm),
                               -settings.dp)
    BY DEF QuotientRounded
  <2>1. Normal(acc) /\ Normal(y) /\ IsFinite(y) /\ settings \in Settings
    BY LibAssumption DEF TypeOK, FiniteOperands
  <2>2. QED
    BY <2>1, FiniteDiv
<1>2. QED
  BY <1>1, NumbersNormal, PTL

----------------------------------------------------------------------------
(* A number that is shown.                                                 *)

(* The digits of a number precede those of its multiple by 10^k.           *)
LEMMA DigitsPrecede ==
    ASSUME NEW x, HasDigits(x), NEW l \in Nat \ {0}, l = Len(x.c), x.c[1] # 0, x.c[l] # 0,
           NEW i \in Int, i < l, NEW k \in Int, k = i - l
    PROVE  Foreruns(x, i, NumOf(FromDigits(x.c, 10), k), DenOf(1, k), FALSE)
<1> DEFINE X == FromDigits(x.c, 10)
<1>1. Decimal(x.c, l) /\ DOMAIN x.c = 1..l
  BY DEF HasDigits, Decimal
<1>2. X \in Nat \ {0} /\ X < Power(10, l)
  <2>1. X >= Power(10, l - 1) /\ X \in Nat /\ X < Power(10, l)
    BY <1>1, LeadsValue
  <2>2. l - 1 \in Nat
    OBVIOUS
  <2>3. Power(10, l - 1) \in Nat \ {0}
    BY <2>2, TenInt, PowerPositive, Zenon
  <2> HIDE DEF X
  <2>4. QED
    BY <2>1, <2>3
<1>3. X = Prefix(x.c, 10, l)
  BY DEF FromDigits
<1> HIDE DEF X
<1>4. CASE i < 0
  <2>1. 1 >= Power(10, 1 - 1) /\ k < 1 - l - 1
    <3>1. 1 - 1 = 0 /\ k < 1 - l - 1
      BY <1>4
    <3>2. QED
      BY <3>1, SmallPowers
  <2>2. 1 \in Nat \ {0}
    OBVIOUS
  <2>3. 10 * NumOf(X, k) < DenOf(1, k)
    BY <1>2, <2>1, <2>2, BeforePlaces, Zenon
  <2>4. Foreruns(x, i, NumOf(X, k), DenOf(1, k), FALSE)
    BY <1>4, <2>3, Zenon DEF Foreruns
  <2>5. QED
    BY <2>4 DEF X
<1>5. CASE ~(i < 0)
  <2>1. PICK n \in Nat \ {0} : n = i + 1 /\ n <= l
    BY <1>5
  <2>2. PICK j \in Nat : j = l - n
    <3>1. l - n \in Nat
      BY <2>1
    <3>2. QED
      BY <3>1
  <2>3. PICK t \in Nat \ {0} : t = Power(10, j)
    BY <2>2, TenInt, PowerPositive, Zenon
  <2>4. NumOf(X, k) = X /\ DenOf(1, k) = 10 * t
    <3>1. -k = j + 1 /\ ~(k >= 0)
      BY <2>1, <2>2
    <3>2. Power(10, j + 1) = t * 10
      BY <2>3, TenInt, PowerNext, Zenon
    <3>3. 1 * (t * 10) = 10 * t
      OBVIOUS
    <3>4. QED
      BY <3>1, <3>2, <3>3 DEF NumOf, DenOf
  <2>5. Prefix(x.c, 10, n) \in Nat
    <3>1. BaseDigits(10, x.c) /\ n \in Nat
      BY <1>1, <2>1, TenDigits
    <3>2. QED
      BY <3>1, TenInt, PrefixBounds, Zenon
  <2>6. \E w \in Nat : w < t /\ X = Prefix(x.c, 10, n) * t + w /\ (More(x.c, i, FALSE) <=> w > 0)
    <3>1. CASE n < l
      <4>1. n \in Nat
        BY <2>1
      <4>2. PICK w \in Nat \ {0} : IsBehind(x.c, l, n, w)
        BY <1>1, <3>1, <4>1, DigitsBehind
      <4>3. w < t /\ X = Prefix(x.c, 10, n) * t + w
        <5>1. Power(10, l - n) = t
          BY <2>2, <2>3
        <5>2. w < Power(10, l - n) /\ X = Prefix(x.c, 10, n) * Power(10, l - n) + w
          BY <4>2 DEF IsBehind, X
        <5>3. QED
          BY <5>1, <5>2, Zenon
      <4>4. i + 2 \in DOMAIN x.c
        BY <1>1, <1>5, <2>1, <3>1
      <4>5. QED
        BY <4>2, <4>3, <4>4 DEF More
    <3>2. CASE ~(n < l)
      <4>1. n = l /\ j = 0
        BY <2>1, <2>2, <3>2
      <4>2. t = 1
        BY <2>3, <4>1, SmallPowers
      <4>3. X = Prefix(x.c, 10, n) * 1 + 0
        BY <1>3, <2>5, <4>1
      <4>4. i + 2 \notin DOMAIN x.c
        BY <1>1, <2>1, <4>1
      <4>5. 0 \in Nat /\ 0 < t /\ X = Prefix(x.c, 10, n) * t + 0 /\ (More(x.c, i, FALSE) <=> 0 > 0)
        BY <1>5, <4>2, <4>3, <4>4 DEF More
      <4>6. QED
        BY <4>5
    <3>3. QED
      BY <3>1, <3>2
  <2>7. Precedes(NumOf(X, k), DenOf(1, k), Prefix(x.c, 10, i + 1), More(x.c, i, FALSE))
    <3>1. PICK w \in Nat : w < t /\ X = Prefix(x.c, 10, n) * t + w /\ (More(x.c, i, FALSE) <=> w > 0)
      BY <2>6
    <3> DEFINE v == Prefix(x.c, 10, n)
    <3>2. v \in Nat /\ X \in Nat /\ X = v * t + w
      BY <1>2, <2>5, <3>1
    <3> HIDE DEF v
    <3>3. 1 * X = v * t + w /\ 1 * (10 * t) = 10 * t /\ 1 \in Nat \ {0}
      BY <3>2
    <3>4. Precedes(X, 10 * t, v, More(x.c, i, FALSE))
      BY <3>1, <3>3 DEF Precedes
    <3>5. QED
      BY <2>1, <2>4, <3>4 DEF v
  <2>8. More(x.c, i, FALSE) \/ x.c[i + 1] # 0
    <3>1. CASE n < l
      <4>1. i + 2 \in DOMAIN x.c
        BY <1>1, <1>5, <2>1, <3>1
      <4>2. QED
        BY <4>1 DEF More
    <3>2. CASE ~(n < l)
      <4>1. i + 1 = l
        BY <2>1, <3>2
      <4>2. QED
        BY <4>1
    <3>3. QED
      BY <3>1, <3>2
  <2>9. i >= 0 /\ i + 1 <= Len(x.c) /\ (i >= 1 => x.c[1] # 0)
    BY <1>5, <2>1
  <2>10. QED
    BY <2>7, <2>8, <2>9, Zenon DEF Foreruns, X
<1>6. QED
  BY <1>4, <1>5

(* An integer is not rounded.                                              *)
LEMMA IntegerKept ==
    ASSUME NEW m \in Int, NEW p \in Int, NEW dp \in Int, p + dp >= 0, NEW rm \in 0..8
    PROVE  RoundedTo(m, 1, p, dp, rm) = At(m, p, -dp) /\ At(m, p, -dp) \in Int
<1>1. PICK k \in Nat : k = p + dp
  OBVIOUS
<1>2. PICK f \in Nat \ {0} : f = Power(10, k)
  BY TenInt, PowerPositive, Zenon
<1>3. PICK n \in Int : n = m * f
  OBVIOUS
<1>4. At(m, p, -dp) = n /\ RoundedTo(m, 1, p, dp, rm) = RoundedInt(n, 1, rm)
  <2>1. p - (-dp) = k
    BY <1>1
  <2>2. At(m, p, -dp) = m * Power(10, k)
    BY <2>1 DEF At
  <2>3. RoundedTo(m, 1, p, dp, rm) = RoundedInt(m * Power(10, k), 1, rm)
    BY <1>1 DEF RoundedTo
  <2>4. QED
    BY <1>2, <1>3, <2>2, <2>3, Zenon
<1>5. RoundedInt(n, 1, rm) = n
  <2> DEFINE a == AbsInt(n)
  <2>1. a \in Nat /\ AbsInt(1) = 1 /\ (n < 0 => a = -n) /\ (~(n < 0) => a = n)
    BY DEF AbsInt
  <2> HIDE DEF a
  <2>2. a = 1 * a + 0 /\ 0 \in 0..(1 - 1) /\ 1 \in Nat \ {0}
    BY <2>1
  <2>3. a \div 1 = a /\ (a % 1) = 0
    BY <2>1, <2>2, DivIs
  <2>4. PICK neg \in BOOLEAN : neg <=> ((n < 0) # (1 < 0))
    <3>1. CASE (n < 0) # (1 < 0)
      BY <3>1
    <3>2. CASE ~((n < 0) # (1 < 0))
      BY <3>2
    <3>3. QED
      BY <3>1, <3>2
  <2>5. PICK odd \in BOOLEAN : odd <=> ((a % 2) = 1)
    <3>1. CASE (a % 2) = 1
      BY <3>1
    <3>2. CASE (a % 2) # 1
      BY <3>2
    <3>3. QED
      BY <3>1, <3>2
  <2> DEFINE some == FALSE
             up == FALSE
             middle == -1
  <2>6. middle = Sgn(0 - (1 - 0)) /\ ~Away(rm, neg, odd, some, middle)
    BY DEF Sgn, Away
  <2>7. some \in BOOLEAN /\ (some <=> 0 > 0) /\ up \in BOOLEAN /\ ~up /\ 0 \in Int
    OBVIOUS
  <2> HIDE DEF some, up, middle
  <2>8. up <=> Away(rm, neg, odd, some, middle)
    BY <2>6, <2>7, Zenon
  <2>9. IsFraction(a, 1, rm, neg, a, 0, odd, some, middle, up)
    BY <2>1, <2>3, <2>4, <2>5, <2>6, <2>7, <2>8 DEF IsFraction
  <2>10. 1 \in Int /\ 1 # 0 /\ IsFraction(AbsInt(n), AbsInt(1), rm, neg, a, 0, odd, some, middle, up)
    BY <2>1, <2>9 DEF a
  <2>11. RoundedInt(n, 1, rm) = (IF neg THEN -1 ELSE 1) * (a + IF up THEN 1 ELSE 0)
    BY <2>4, <2>10, RoundedIntIs
  <2>12. neg <=> n < 0
    BY <2>4
  <2>13. QED
    BY <2>1, <2>7, <2>11, <2>12
<1>6. QED
  BY <1>4, <1>5

(* What Format shows: all digits if there are no more than it wants, else  *)
(* the rounded number.                                                     *)
Shown(g, x, dp) == IF Len(x.c) > x.e + dp + 1 THEN Rnd(g, x, dp, 10, FALSE, FALSE) ELSE x

LEMMA ShownValue ==
    ASSUME NEW g, g.rm \in 0..8, NEW x, Normal(x), IsFinite(x), NEW dp \in Int,
           IsZero(x) => dp >= 0
    PROVE  Is(Shown(g, x, dp), RoundedTo(M(x), 1, P(x), dp, g.rm), -dp)
<1>1. HasDigits(x) /\ M(x) \in Int /\ P(x) \in Int
  BY FiniteHasDigits, ValueInt
<1>2. PICK l \in Nat \ {0} : l = Len(x.c)
  BY <1>1 DEF HasDigits
<1> DEFINE i == x.e + dp + 1
           k == P(x) + dp
<1>3. x.e \in Int /\ i \in Int /\ k \in Int /\ k = i - l
  <2>1. x.e \in Int /\ P(x) = x.e - l + 1
    BY <1>1, <1>2 DEF HasDigits, P
  <2>2. QED
    BY <2>1
<1>4. CASE l > i
  <2>1. Shown(g, x, dp) = Rnd(g, x, dp, 10, FALSE, FALSE) /\ ~IsZero(x)
    <3>1. Len(x.c) > x.e + dp + 1
      BY <1>2, <1>4
    <3>2. ASSUME IsZero(x) PROVE FALSE
      <4>1. x.e = 0 /\ Len(x.c) = 1
        <5>1. x.e = 0 /\ x.c = <<0>>
          BY <3>2, NormalFacts, Zenon
        <5>2. QED
          BY <5>1
      <4>2. QED
        BY <1>2, <1>4, <3>2, <4>1
    <3>3. ~IsZero(x)
      BY <3>2
    <3>4. QED
      BY <3>1, <3>3, Zenon DEF Shown
  <2>2. x.c[1] # 0 /\ x.c[l] # 0
    BY <1>2, <2>1, NormalFacts DEF Leads
  <2> DEFINE X == FromDigits(x.c, 10)
             s == x.s
             t == 1
             D == 1
             p == P(x)
             rest == FALSE
  <2>3. s \in {-1, 1} /\ t \in {-1, 1} /\ D \in Nat \ {0} /\ p \in Int /\ rest \in BOOLEAN
        /\ x.s = (IF s = t THEN 1 ELSE -1) /\ M(x) = s * X /\ t * D = 1
    BY <1>1 DEF HasDigits, M
  <2>4. X \in Nat \ {0}
    <3>1. Decimal(x.c, l)
      BY <1>1, <1>2 DEF HasDigits, Decimal
    <3>2. X >= Power(10, l - 1) /\ X \in Nat
      BY <2>2, <3>1, LeadsValue
    <3>3. l - 1 \in Nat
      OBVIOUS
    <3>4. Power(10, l - 1) \in Nat \ {0}
      BY <3>3, TenInt, PowerPositive, Zenon
    <3> HIDE DEF X
    <3>5. QED
      BY <3>2, <3>4
  <2>5. Foreruns(x, i, NumOf(X, k), DenOf(D, k), rest)
    <3> HIDE DEF i, k
    <3>1. i < l
      BY <1>3, <1>4
    <3>2. QED
      BY <1>1, <1>2, <1>3, <2>2, <3>1, DigitsPrecede
  <2> HIDE DEF X, s, t, D, rest
  <2>6. IsToRound(g, x, i, rest, X, D, s, t, p, k, dp)
    BY <1>1, <1>3, <2>3, <2>4, <2>5 DEF IsToRound
  <2>7. Is(Rnd(g, x, dp, 10, FALSE, rest), RoundedTo(s * X, t * D, p, dp, g.rm), -dp)
    BY <2>6, RoundedQuotientIs
  <2>8. QED
    BY <2>1, <2>3, <2>7 DEF rest
<1>5. CASE ~(l > i)
  <2>1. Shown(g, x, dp) = x
    BY <1>2, <1>5 DEF Shown
  <2> DEFINE n == At(M(x), P(x), -dp)
  <2>2. RoundedTo(M(x), 1, P(x), dp, g.rm) = n /\ n \in Int
    <3>1. P(x) + dp >= 0
      BY <1>3, <1>5
    <3>2. QED
      BY <1>1, <3>1, IntegerKept
  <2>3. -dp <= P(x) /\ -dp \in Int
    BY <1>1, <1>3, <1>5
  <2> DEFINE m == M(x)
             p == P(x)
  <2>4. m \in Int /\ p \in Int /\ n \in Int /\ -dp <= p /\ n = At(m, p, -dp)
    BY <1>1, <2>2, <2>3
  <2> HIDE DEF m, p, n
  <2>5. SameValue(m, p, n, -dp)
    BY <2>3, <2>4, SameItself
  <2>6. SameValue(M(x), P(x), n, -dp)
    BY <2>5 DEF m, p
  <2>7. Is(x, n, -dp)
    BY <1>1, <2>6 DEF Is
  <2>8. QED
    BY <2>1, <2>2, <2>7
<1> HIDE DEF i, k
<1>6. QED
  BY <1>4, <1>5

(* The digits of a number that is incremented.                             *)
LEMMA IncrementLength ==
    ASSUME NEW e \in Int, NEW c, Leads(c)
    PROVE  /\ Increment(e, c, 10).e \in {e, e + 1}
           /\ Leads(Increment(e, c, 10).c) /\ Len(Increment(e, c, 10).c) <= Len(c)
<1>1. c \in Seq(0..9) /\ Len(c) \in Nat \ {0} /\ c[1] # 0
  BY DEF Leads
<1>2. CASE LowDigits(c, 10) = {}
  <2>1. Increment(e, c, 10).e = e + 1 /\ Increment(e, c, 10).c = <<1>>
    BY <1>2 DEF Increment
  <2>2. Leads(<<1>>) /\ Len(<<1>>) = 1
    BY DEF Leads
  <2>3. QED
    BY <1>1, <2>1, <2>2
<1>3. CASE LowDigits(c, 10) # {}
  <2>1. LowDigits(c, 10) \in SUBSET (1..Len(c))
    BY <1>1 DEF LowDigits
  <2>2. Max(LowDigits(c, 10)) \in LowDigits(c, 10)
    BY <1>1, <1>3, <2>1, MaxMinOf
  <2> DEFINE m == Max(LowDigits(c, 10))
             d == SubSeq(c, 1, m)
             f == [d EXCEPT ![m] = @ + 1]
  <2>3. Increment(e, c, 10).e = e /\ Increment(e, c, 10).c = f
    BY <1>3 DEF Increment, AddOneAt
  <2> HIDE DEF f
  <2>4. f = [d EXCEPT ![m] = d[m] + 1] /\ m \in LowDigits(c, 10)
    BY <2>2 DEF f
  <2> HIDE DEF m
  <2>5. m \in 1..Len(c) /\ c[m] \in 0..8
    BY <1>1, <2>4 DEF LowDigits
  <2>6. \A j \in 1..m : c[j] \in 0..9
    BY <1>1, <2>5
  <2>7. d \in Seq(0..9) /\ Len(d) = m /\ \A i \in 1..m : d[i] = c[i]
    BY <2>5, <2>6, SubSeqProperties
  <2> HIDE DEF d
  <2>8. m \in 1..Len(d) /\ d[m] + 1 \in 0..9 /\ d[m] + 1 # 0 /\ d[1] # 0
    BY <1>1, <2>5, <2>7
  <2>9. f \in Seq(0..9) /\ Len(f) = m /\ \A j \in 1..m : f[j] = IF j = m THEN d[m] + 1 ELSE d[j]
    BY <2>4, <2>7, <2>8, ExceptSeq
  <2>10. Leads(f) /\ Len(f) <= Len(c)
    BY <1>1, <2>5, <2>8, <2>9 DEF Leads
  <2>11. QED
    BY <2>3, <2>10
<1>4. QED
  BY <1>2, <1>3

(* A rounded number has its sign, no more digits than wanted and an        *)
(* exponent that is one larger at most.                                    *)
Rounded(r, x, dp, i) ==
    /\ r.s = x.s
    /\ \/ i >= 1 /\ Leads(r.c) /\ Len(r.c) <= i /\ r.e \in {x.e, x.e + 1}
       \/ i < 1 /\ r.e = -dp /\ r.c = <<1>>
       \/ i < 1 /\ r.e = 0 /\ r.c = <<0>>

LEMMA RndIsRounded ==
    ASSUME NEW g, NEW x, HasDigits(x), x.c[1] # 0, NEW dp \in Int, NEW i \in Int, i = x.e + dp + 1
    PROVE  Rounded(Rnd(g, x, dp, 10, FALSE, FALSE), x, dp, i)
<1> DEFINE up == RoundsUp(g.rm, x, i, 10, dp = 0 /\ FALSE, FALSE)
           kept == SubSeq(x.c, 1, IF i < Len(x.c) THEN i ELSE Len(x.c))
           more == IF up THEN Increment(x.e, kept, 10) ELSE [e |-> x.e, c |-> DropTrailingZeros(kept)]
           r == Rnd(g, x, dp, 10, FALSE, FALSE)
<1>1. x.s \in {-1, 1} /\ x.e \in Int /\ x.c \in Seq(0..9) /\ Len(x.c) \in Nat \ {0} /\ ~IsZero(x)
  BY DEF HasDigits, IsZero
<1>2. r = IF i >= 1 THEN BigNum(x.s, more.e, more.c)
          ELSE IF up THEN BigNum(x.s, -dp, <<1>>) ELSE Zero(x.s)
  BY <1>1 DEF Rnd
<1> HIDE DEF up, r
<1>3. SUFFICES Rounded(r, x, dp, i)
  BY DEF r
<1>4. CASE i >= 1
  <2>1. Leads(x.c) /\ i \in Nat \ {0}
    BY <1>1, <1>4 DEF Leads
  <2>2. Leads(kept)
    BY <2>1, FirstDigits
  <2>3. Len(kept) <= i
    <3> DEFINE m == IF i < Len(x.c) THEN i ELSE Len(x.c)
    <3>1. m \in 1..Len(x.c) /\ m <= i
      BY <1>1, <2>1
    <3> HIDE DEF m
    <3>2. \A j \in 1..m : x.c[j] \in 0..9
      BY <1>1, <3>1
    <3>3. Len(SubSeq(x.c, 1, m)) = m
      BY <1>1, <3>1, <3>2, SubSeqProperties
    <3>4. Len(SubSeq(x.c, 1, m)) <= i
      BY <3>1, <3>3
    <3>5. QED
      BY <3>4 DEF m
  <2> HIDE DEF kept
  <2>4. kept \in Seq(0..9) /\ Len(kept) \in Nat \ {0} /\ kept[1] # 0
    BY <2>2 DEF Leads
  <2>5. more.e \in {x.e, x.e + 1} /\ Leads(more.c) /\ Len(more.c) <= Len(kept)
    <3>1. CASE up
      BY <1>1, <2>2, <3>1, IncrementLength
    <3>2. CASE ~up
      <4> DEFINE d == DropTrailingZeros(kept)
      <4>1. d \in Seq(0..9) /\ Len(d) \in 1..Len(kept) /\ \A j \in 1..Len(d) : d[j] = kept[j]
        <5>1. 1 \in 1..Len(kept)
          BY <2>4
        <5>2. QED
          BY <2>4, <5>1, DropTrailing
      <4>2. more.e = x.e /\ more.c = d
        BY <3>2
      <4> HIDE DEF d, more
      <4>3. QED
        BY <1>1, <2>4, <4>1, <4>2 DEF Leads
    <3>3. QED
      BY <3>1, <3>2
  <2>6. r.s = x.s /\ r.e = more.e /\ r.c = more.c
    BY <1>2, <1>4 DEF BigNum
  <2> HIDE DEF more
  <2>7. Len(more.c) \in Nat
    BY <2>5 DEF Leads
  <2>8. QED
    BY <1>4, <2>1, <2>3, <2>4, <2>5, <2>6, <2>7 DEF Rounded
<1>5. CASE ~(i >= 1)
  <2> HIDE DEF more
  <2>1. r = BigNum(x.s, -dp, <<1>>) \/ r = Zero(x.s)
    BY <1>2, <1>5
  <2>2. i < 1
    BY <1>5
  <2>3. CASE r = BigNum(x.s, -dp, <<1>>)
    BY <2>2, <2>3 DEF BigNum, Rounded
  <2>4. CASE r = Zero(x.s)
    BY <2>2, <2>4 DEF BigNum, Zero, Rounded
  <2>5. QED
    BY <2>1, <2>3, <2>4
<1>6. QED
  BY <1>4, <1>5

(* The digits c with z zeros before them and w behind.                     *)
Between(n, c, z, w) == Decimal(n, z + Len(c) + w) /\ Shifted(n, c, z, z + Len(c) + w)

LEMMA ZerosAre ==
    ASSUME NEW z \in Nat
    PROVE  Zeros(z) \in Seq(0..9) /\ Len(Zeros(z)) = z /\ \A i \in 1..z : Zeros(z)[i] = 0
  BY DEF Zeros

LEMMA ZerosThen ==
    ASSUME NEW c \in Seq(0..9), NEW z \in Nat
    PROVE  Between(Zeros(z) \o c, c, z, 0)
<1>1. PICK l \in Nat : l = Len(c)
  OBVIOUS
<1> DEFINE y == Zeros(z)
           n == y \o c
<1>2. y \in Seq(0..9) /\ Len(y) = z /\ \A i \in 1..z : y[i] = 0
  BY ZerosAre
<1> HIDE DEF y
<1>3. n \in Seq(0..9) /\ Len(n) = z + l /\ \A i \in 1..(z + l) : n[i] = IF i <= z THEN y[i] ELSE c[i - z]
  BY <1>1, <1>2, ConcatProperties
<1> HIDE DEF n
<1>4. ASSUME NEW i \in 1..(z + l) PROVE n[i] = Digit(c, i - z)
  <2>1. CASE i <= z
    <3>1. i - z \notin 1..l /\ i \in 1..z
      BY <2>1
    <3>2. QED
      BY <1>1, <1>2, <1>3, <2>1, <3>1 DEF Digit
  <2>2. CASE ~(i <= z)
    <3>1. i - z \in 1..l
      BY <2>2
    <3>2. QED
      BY <1>1, <1>3, <2>2, <3>1 DEF Digit
  <2>3. QED
    BY <2>1, <2>2
<1>5. z + Len(c) + 0 = z + l
  BY <1>1
<1>6. Between(n, c, z, 0)
  BY <1>3, <1>4, <1>5 DEF Between, Decimal, Shifted
<1>7. QED
  BY <1>6 DEF n, y

LEMMA ThenZeros ==
    ASSUME NEW c \in Seq(0..9), NEW w \in Nat
    PROVE  Between(c \o Zeros(w), c, 0, w)
<1>1. PICK l \in Nat : l = Len(c)
  OBVIOUS
<1> DEFINE y == Zeros(w)
           n == c \o y
<1>2. y \in Seq(0..9) /\ Len(y) = w /\ \A i \in 1..w : y[i] = 0
  BY ZerosAre
<1> HIDE DEF y
<1>3. n \in Seq(0..9) /\ Len(n) = l + w /\ \A i \in 1..(l + w) : n[i] = IF i <= l THEN c[i] ELSE y[i - l]
  BY <1>1, <1>2, ConcatProperties
<1> HIDE DEF n
<1>4. ASSUME NEW i \in 1..(l + w) PROVE n[i] = Digit(c, i - 0)
  <2>1. CASE i <= l
    <3>1. i - 0 = i /\ i \in 1..l
      BY <2>1
    <3>2. QED
      BY <1>1, <1>3, <2>1, <3>1 DEF Digit
  <2>2. CASE ~(i <= l)
    <3>1. i - 0 = i /\ i \notin 1..l /\ i - l \in 1..w
      BY <2>2
    <3>2. QED
      BY <1>1, <1>2, <1>3, <2>2, <3>1 DEF Digit
  <2>3. QED
    BY <2>1, <2>2
<1>5. 0 + Len(c) + w = l + w
  BY <1>1
<1>6. Between(n, c, 0, w)
  BY <1>3, <1>4, <1>5 DEF Between, Decimal, Shifted
<1>7. QED
  BY <1>6 DEF n, y

(* Zeros around zeros.                                                     *)
LEMMA BetweenTwice ==
    ASSUME NEW c \in Seq(0..9), NEW n, NEW m, NEW z \in Nat, NEW w \in Nat, NEW y \in Nat, NEW v \in Nat,
           Between(n, c, z, w), Between(m, n, y, v)
    PROVE  Between(m, c, y + z, w + v)
<1>1. PICK l \in Nat : l = Len(c)
  OBVIOUS
<1>2. n \in Seq(0..9) /\ Len(n) = z + l + w /\ \A i \in 1..(z + l + w) : n[i] = Digit(c, i - z)
  BY <1>1 DEF Between, Decimal, Shifted
<1>3. PICK k \in Nat : k = z + l + w
  OBVIOUS
<1>4. m \in Seq(0..9) /\ Len(m) = y + k + v /\ \A i \in 1..(y + k + v) : m[i] = Digit(n, i - y)
  BY <1>2, <1>3 DEF Between, Decimal, Shifted
<1>5. ASSUME NEW i \in 1..(y + k + v) PROVE m[i] = Digit(c, i - (y + z))
  <2>1. PICK j \in Int : j = i - y
    OBVIOUS
  <2>2. i - (y + z) = j - z
    BY <2>1
  <2>3. CASE j \in 1..k
    <3>1. Digit(n, j) = n[j]
      BY <1>2, <1>3, <2>3 DEF Digit
    <3>2. n[j] = Digit(c, j - z)
      BY <1>2, <1>3, <2>3
    <3>3. QED
      BY <1>4, <2>1, <2>2, <3>1, <3>2
  <2>4. CASE j \notin 1..k
    <3>1. Digit(n, j) = 0
      BY <1>2, <1>3, <2>4 DEF Digit
    <3>2. j - z \notin 1..l
      BY <1>3, <2>4
    <3>3. Digit(c, j - z) = 0
      BY <1>1, <3>2 DEF Digit
    <3>4. QED
      BY <1>4, <2>1, <2>2, <3>1, <3>3
  <2>5. QED
    BY <2>3, <2>4
<1>6. (y + z) + Len(c) + (w + v) = y + k + v
  BY <1>1, <1>3
<1>7. QED
  BY <1>4, <1>5, <1>6 DEF Between, Decimal, Shifted

LEMMA BetweenValue ==
    ASSUME NEW c \in Seq(0..9), NEW n, NEW z \in Nat, NEW w \in Nat, Between(n, c, z, w)
    PROVE  FromDigits(n, 10) = FromDigits(c, 10) * Power(10, w)
<1>1. PICK l \in Nat : l = Len(c)
  OBVIOUS
<1>2. PICK k \in Nat : k = z + l + w
  OBVIOUS
<1>3. Decimal(n, k) /\ Shifted(n, c, z, k) /\ Decimal(c, l)
  BY <1>1, <1>2 DEF Between, Decimal
<1>4. z + l <= k /\ k - z - l = w
  BY <1>2
<1>5. FromDigits(n, 10) = FromDigits(c, 10) * Power(10, k - z - l)
  BY <1>3, <1>4, AlignValue
<1>6. QED
  BY <1>4, <1>5

(* They are found again when the zeros are dropped.                        *)
LEMMA BetweenRead ==
    ASSUME NEW c, Leads(c), c[Len(c)] # 0, NEW n, NEW z \in Nat, NEW w \in Nat, Between(n, c, z, w)
    PROVE  /\ n \in Seq(0..9) /\ LeadingZeros(n) = z /\ z # Len(n)
           /\ DropTrailingZeros(SubSeq(n, z + 1, Len(n))) = c
<1>1. PICK l \in Nat \ {0} : l = Len(c)
  BY DEF Leads
<1>2. c \in Seq(0..9) /\ c[1] # 0 /\ c[l] # 0
  BY <1>1 DEF Leads
<1>3. PICK k \in Nat : k = z + l + w
  OBVIOUS
<1>4. n \in Seq(0..9) /\ Len(n) = k /\ \A i \in 1..k : n[i] = Digit(c, i - z)
  BY <1>1, <1>3 DEF Between, Decimal, Shifted
<1>5. \A i \in 1..z : n[i] = 0
  <2>1. ASSUME NEW i \in 1..z PROVE i \in 1..k /\ i - z \notin 1..l
    BY <1>3
  <2>2. QED
    BY <1>1, <1>4, <2>1 DEF Digit
<1>6. \A i \in 1..l : n[z + i] = c[i]
  <2>1. ASSUME NEW i \in 1..l PROVE z + i \in 1..k /\ (z + i) - z = i
    BY <1>3
  <2>2. QED
    BY <1>1, <1>4, <2>1 DEF Digit
<1>7. \A i \in 1..w : n[z + l + i] = 0
  <2>1. ASSUME NEW i \in 1..w PROVE z + l + i \in 1..k /\ (z + l + i) - z \notin 1..l
    BY <1>3
  <2>2. QED
    BY <1>1, <1>4, <2>1 DEF Digit
<1>8. LeadingZeros(n) # Len(n)
  <2>1. z + 1 \in 1..k /\ n[z + 1] # 0
    BY <1>2, <1>3, <1>6
  <2>2. QED
    BY <1>4, <2>1, NoLeading
<1> DEFINE y == LeadingZeros(n)
<1>9. y \in 0..(k - 1) /\ n[y + 1] # 0 /\ \A i \in 1..y : n[i] = 0
  BY <1>4, <1>8, Leading
<1> HIDE DEF y
<1>10. y = z
  <2>1. ~(y < z)
    <3>1. y < z => y + 1 \in 1..z
      BY <1>9
    <3>2. QED
      BY <1>5, <1>9, <3>1
  <2>2. ~(z < y)
    <3>1. z < y => z + 1 \in 1..y
      BY <1>9
    <3>2. n[z + 1] # 0
      BY <1>2, <1>6
    <3>3. QED
      BY <1>9, <3>1, <3>2
  <2>3. QED
    BY <1>9, <2>1, <2>2
<1> DEFINE d == SubSeq(n, z + 1, k)
           e == DropTrailingZeros(d)
<1>11. d \in Seq(0..9) /\ Len(d) = l + w /\ \A i \in 1..(l + w) : d[i] = n[z + i]
  <2>1. \A i \in (z + 1)..k : n[i] \in 0..9
    <3>1. ASSUME NEW i \in (z + 1)..k PROVE i \in 1..Len(n)
      BY <1>3, <1>4
    <3>2. QED
      BY <1>4, <3>1
  <2>2. d \in Seq(0..9) /\ Len(d) = k - (z + 1) + 1
        /\ \A i \in 1..(k - (z + 1) + 1) : d[i] = n[(z + 1) + i - 1]
    BY <1>3, <2>1, SubSeqProperties
  <2>3. k - (z + 1) + 1 = l + w /\ \A i \in 1..(l + w) : (z + 1) + i - 1 = z + i
    BY <1>3
  <2> HIDE DEF d
  <2>4. QED
    BY <2>2, <2>3
<1> HIDE DEF d
<1>12. l \in 1..Len(d) /\ d[l] # 0
  <2>1. l \in 1..l /\ l \in 1..(l + w)
    OBVIOUS
  <2>2. d[l] = c[l]
    BY <1>6, <1>11, <2>1
  <2>3. QED
    BY <1>2, <1>11, <2>1, <2>2
<1>13. /\ e \in Seq(0..9) /\ Len(e) \in l..(l + w)
       /\ \A j \in 1..Len(e) : e[j] = d[j]
       /\ d[Len(e)] # 0
  BY <1>11, <1>12, DropTrailing
<1> HIDE DEF e
<1>14. Len(e) = l
  <2>1. ASSUME Len(e) > l PROVE FALSE
    <3>1. PICK i \in 1..w : Len(e) = l + i
      <4>1. PICK f \in 1..(l + w) : f = Len(e) /\ f > l
        BY <1>13, <2>1
      <4>2. f - l \in 1..w /\ f = l + (f - l)
        BY <4>1
      <4>3. QED
        BY <4>1, <4>2
    <3>2. d[l + i] = n[z + (l + i)] /\ z + (l + i) = z + l + i
      BY <1>11
    <3>3. QED
      BY <1>7, <1>13, <3>1, <3>2
  <2>2. QED
    BY <1>13, <2>1
<1>15. e = c
  <2>1. \A j \in 1..l : e[j] = c[j]
    BY <1>6, <1>11, <1>13, <1>14
  <2>2. QED
    BY <1>1, <1>2, <1>13, <1>14, <2>1, SeqEqual
<1>16. QED
  BY <1>3, <1>4, <1>10, <1>15 DEF y, d, e

LEMMA NumeralIs ==
    ASSUME NEW neg, NEW int, NEW frac, NEW exp
    PROVE  /\ ~IsWord(Numeral(neg, int, frac, exp))
           /\ Numeral(neg, int, frac, exp).neg = neg
           /\ Numeral(neg, int, frac, exp).int = int
           /\ Numeral(neg, int, frac, exp).frac = frac
           /\ Numeral(neg, int, frac, exp).exp = exp
<1>1. ~IsWord(Numeral(neg, int, frac, exp))
  BY Zenon DEF IsWord, Numeral
<1>2. Numeral(neg, int, frac, exp).neg = neg /\ Numeral(neg, int, frac, exp).int = int
  BY Zenon DEF Numeral
<1>3. Numeral(neg, int, frac, exp).frac = frac /\ Numeral(neg, int, frac, exp).exp = exp
  BY Zenon DEF Numeral
<1>4. QED
  BY <1>1, <1>2, <1>3

(* The numeral t shows the digits of x, with zeros around them.            *)
Shows(t, x, z, w) ==
    /\ ~IsWord(t) /\ Between(t.int \o t.frac, x.c, z, w)
    /\ t.int \in Seq(0..9) /\ t.frac \in Seq(0..9)
    /\ Len(t.int) + ExponentOrZero(t) = z + x.e + 1

LEMMA ItselfBetween == ASSUME NEW c \in Seq(0..9) PROVE Between(c, c, 0, 0)
<1>1. PICK l \in Nat : l = Len(c)
  OBVIOUS
<1>2. \A i \in 1..l : c[i] = Digit(c, i - 0)
  <2>1. ASSUME NEW i \in 1..l PROVE i - 0 = i
    OBVIOUS
  <2>2. QED
    BY <1>1, <2>1 DEF Digit
<1>3. 0 + Len(c) + 0 = l
  BY <1>1
<1>4. QED
  BY <1>1, <1>2, <1>3 DEF Between, Decimal, Shifted

(* A sequence in two parts.                                                *)
LEMMA TwoParts ==
    ASSUME NEW c \in Seq(0..9), NEW k \in 1..Len(c)
    PROVE  /\ SubSeq(c, 1, k) \in Seq(0..9) /\ Len(SubSeq(c, 1, k)) = k
           /\ SubSeq(c, k + 1, Len(c)) \in Seq(0..9) /\ Len(SubSeq(c, k + 1, Len(c))) = Len(c) - k
           /\ SubSeq(c, 1, k) \o SubSeq(c, k + 1, Len(c)) = c
<1>1. PICK l \in Nat : l = Len(c)
  OBVIOUS
<1>2. \A i \in 1..l : c[i] \in 0..9
  BY <1>1
<1> DEFINE a == SubSeq(c, 1, k)
           b == SubSeq(c, k + 1, l)
<1>3. a \in Seq(0..9) /\ Len(a) = k /\ \A i \in 1..k : a[i] = c[i]
  <2>1. k \in 1..l /\ \A i \in 1..k : c[i] \in 0..9
    BY <1>1, <1>2
  <2>2. QED
    BY <1>1, <2>1, SubSeqProperties
<1>4. b \in Seq(0..9) /\ Len(b) = l - k /\ \A i \in 1..(l - k) : b[i] = c[k + i]
  <2>1. k + 1 \in 1..(l + 1) /\ \A i \in (k + 1)..l : c[i] \in 0..9
    BY <1>1, <1>2
  <2>2. b \in Seq(0..9) /\ Len(b) = l - (k + 1) + 1
        /\ \A i \in 1..(l - (k + 1) + 1) : b[i] = c[(k + 1) + i - 1]
    BY <1>1, <2>1, SubSeqProperties
  <2>3. l - (k + 1) + 1 = l - k /\ \A i \in 1..(l - k) : (k + 1) + i - 1 = k + i
    BY <1>1
  <2> HIDE DEF b
  <2>4. QED
    BY <2>2, <2>3
<1> HIDE DEF a, b
<1>5. k \in Nat /\ k + (l - k) = l
  BY <1>1
<1>6. a \o b \in Seq(0..9) /\ Len(a \o b) = l /\ \A i \in 1..l : (a \o b)[i] = IF i <= k THEN a[i] ELSE b[i - k]
  <2>1. /\ a \o b \in Seq(0..9) /\ Len(a \o b) = Len(a) + Len(b)
        /\ \A i \in 1..(Len(a) + Len(b)) : (a \o b)[i] = IF i <= Len(a) THEN a[i] ELSE b[i - Len(a)]
    BY <1>3, <1>4, ConcatProperties
  <2>2. Len(a) = k /\ Len(b) = l - k /\ Len(a) + Len(b) = l
    BY <1>3, <1>4, <1>5
  <2>3. QED
    BY <2>1, <2>2
<1>7. \A i \in 1..l : (a \o b)[i] = c[i]
  <2>1. ASSUME NEW i \in 1..l PROVE (a \o b)[i] = c[i]
    <3>1. CASE i <= k
      <4>1. i \in 1..k
        BY <3>1
      <4>2. QED
        BY <1>3, <1>6, <3>1, <4>1
    <3>2. CASE ~(i <= k)
      <4>1. i - k \in 1..(l - k) /\ k + (i - k) = i
        BY <3>2, <1>5
      <4>2. QED
        BY <1>4, <1>6, <3>2, <4>1
    <3>3. QED
      BY <3>1, <3>2
  <2>2. QED
    BY <2>1
<1>8. a \o b = c
  BY <1>1, <1>6, <1>7, SeqEqual
<1>9. QED
  BY <1>1, <1>3, <1>4, <1>8 DEF a, b

(* Exponential notation: a digit, those behind the point, the exponent.    *)
LEMMA ExponentialShows ==
    ASSUME NEW x, HasDigits(x)
    PROVE  /\ Shows(Exponential(x), x, 0, 0)
           /\ (Exponential(x).neg <=> IsNeg(x) /\ ~IsZero(x))
<1> DEFINE t == Exponential(x)
           c == x.c
<1>1. c \in Seq(0..9) /\ Len(c) \in Nat \ {0} /\ x.e \in Int
  BY DEF HasDigits
<1>2. ~IsWord(t) /\ t.int = <<Head(x.c)>> /\ t.frac = Tail(x.c) /\ t.exp = x.e
      /\ (t.neg <=> IsNeg(x) /\ ~IsZero(x))
  <2> DEFINE neg == IsNeg(x) /\ ~IsZero(x)
             int == <<Head(x.c)>>
             frac == Tail(x.c)
  <2>1. t = Numeral(neg, int, frac, x.e)
    BY DEF Exponential
  <2> HIDE DEF t, neg, int, frac
  <2>2. ~IsWord(t) /\ t.int = int /\ t.frac = frac /\ t.exp = x.e /\ t.neg = neg
    BY <2>1, NumeralIs
  <2>3. t.neg <=> neg
    BY <2>2, Zenon
  <2>4. QED
    BY <2>2, <2>3 DEF neg, int, frac
<1> HIDE DEF t, c
<1>3. SubSeq(c, 1, 1) = <<Head(c)>> /\ SubSeq(c, 1 + 1, Len(c)) = Tail(c)
  <2>1. <<Head(c)>> \in Seq(0..9) /\ Len(<<Head(c)>>) = 1 /\ <<Head(c)>>[1] = c[1] /\ c # <<>>
    BY <1>1
  <2>2. SubSeq(c, 1, 1) \in Seq(0..9) /\ Len(SubSeq(c, 1, 1)) = 1 /\ SubSeq(c, 1, 1)[1] = c[1]
    <3>1. \A i \in 1..1 : c[i] \in 0..9
      BY <1>1
    <3>2. QED
      BY <3>1, SubSeqProperties
  <2>3. SubSeq(c, 1, 1) = <<Head(c)>>
    <3> DEFINE a == SubSeq(c, 1, 1)
               b == <<Head(c)>>
    <3>1. a \in Seq(0..9) /\ b \in Seq(0..9) /\ Len(a) = Len(b) /\ \A i \in 1..Len(a) : a[i] = b[i]
      BY <2>1, <2>2
    <3> HIDE DEF a, b
    <3>2. a = b
      BY <3>1, SeqEqual
    <3>3. QED
      BY <3>2 DEF a, b
  <2>4. SubSeq(c, 1 + 1, Len(c)) = Tail(c)
    BY <1>1, <2>1, TailIsSubSeq
  <2>5. QED
    BY <2>3, <2>4
<1>4. Between(c, c, 0, 0)
  BY <1>1, ItselfBetween
<1>5. 1 \in 1..Len(c)
  BY <1>1
<1>6. <<Head(c)>> \in Seq(0..9) /\ Len(<<Head(c)>>) = 1 /\ Tail(c) \in Seq(0..9) /\ <<Head(c)>> \o Tail(c) = c
  BY <1>1, <1>3, <1>5, TwoParts
<1>7. ExponentOrZero(t) = x.e
  BY <1>1, <1>2, BigNumberAssumption DEF ExponentOrZero
<1>8. Shows(t, x, 0, 0)
  <2>1. t.int \o t.frac = c /\ t.int \in Seq(0..9) /\ t.frac \in Seq(0..9) /\ Len(t.int) = 1
    BY <1>2, <1>6 DEF c
  <2>2. Between(t.int \o t.frac, x.c, 0, 0)
    BY <1>4, <2>1 DEF c
  <2>3. Len(t.int) + ExponentOrZero(t) = 0 + x.e + 1
    BY <1>1, <1>7, <2>1
  <2>4. QED
    BY <1>2, <2>1, <2>2, <2>3, Zenon DEF Shows
<1>9. QED
  BY <1>2, <1>8 DEF t

(* Plain notation, with the zeros a number needs before or behind the      *)
(* point.                                                                  *)
ShowsPlain(t, x, z, w) ==
    /\ Shows(t, x, z, w) /\ t.exp = null
    /\ Len(t.frac) = IF P(x) < 0 THEN -P(x) ELSE 0
    /\ ~IsNeg(x) => ~t.neg
    /\ x.c[1] # 0 => (t.neg <=> IsNeg(x))
    /\ (x.e = 0 /\ x.c = <<0>>) => ~t.neg

LEMMA PlainShows ==
    ASSUME NEW x, HasDigits(x)
    PROVE  \E z \in Nat, w \in Nat : ShowsPlain(Plain(x), x, z, w)
<1> DEFINE t == Plain(x)
<1>1. x.c \in Seq(0..9) /\ Len(x.c) \in Nat \ {0} /\ x.e \in Int
  BY DEF HasDigits
<1>2. PICK l \in Nat \ {0} : l = Len(x.c)
  BY <1>1
<1>3. PICK c \in Seq(0..9) : c = x.c /\ Len(c) = l
  BY <1>1, <1>2
<1>4. PICK e \in Int : e = x.e /\ P(x) = e - l + 1
  BY <1>1, <1>2 DEF P
<1> DEFINE zero == x.e = 0 /\ x.c = <<0>>
           neg == IsNeg(x)
           plus == IsNeg(x) /\ ~zero
           zeros == Zeros(-x.e - 1) \o x.c
           more == x.c \o Zeros(x.e + 1 - Len(x.c))
           int == SubSeq(x.c, 1, x.e + 1)
           frac == SubSeq(x.c, x.e + 2, Len(x.c))
<1>5. /\ e < 0 => t = Numeral(neg, <<0>>, zeros, null)
      /\ (~(e < 0) /\ e + 1 >= l) => t = Numeral(plus, more, <<>>, null)
      /\ (~(e < 0) /\ ~(e + 1 >= l)) => t = Numeral(neg, int, frac, null)
  <2>1. t = IF x.e < 0 THEN Numeral(neg, <<0>>, zeros, null)
            ELSE IF x.e + 1 >= Len(x.c) THEN Numeral(plus, more, <<>>, null)
            ELSE Numeral(neg, int, frac, null)
    BY DEF Plain
  <2> HIDE DEF t, neg, plus, zeros, more, int, frac
  <2>2. QED
    BY <1>2, <1>4, <2>1
<1> HIDE DEF t
<1>6. zero => ~(x.c[1] # 0)
  BY <1>1
<1>7. ASSUME t.exp = null PROVE ExponentOrZero(t) = 0
  BY <1>7, Zenon DEF ExponentOrZero
<1>8. CASE e < 0
  <2>1. PICK j \in Nat : j = -e - 1 /\ j = -x.e - 1
    <3>1. -e - 1 \in Nat
      BY <1>8
    <3>2. QED
      BY <1>4, <3>1
  <2>2. zeros = Zeros(j) \o c
    BY <1>3, <2>1
  <2>3. Between(zeros, c, j, 0) /\ zeros \in Seq(0..9) /\ Len(zeros) = j + l
    <3>1. Between(zeros, c, j, 0)
      BY <2>2, ZerosThen
    <3> HIDE DEF zeros
    <3>2. QED
      BY <1>3, <3>1 DEF Between, Decimal
  <2> HIDE DEF zeros, neg
  <2>4. ~IsWord(t) /\ t.int = <<0>> /\ t.frac = zeros /\ t.exp = null /\ t.neg = neg
    BY <1>5, <1>8, NumeralIs
  <2>5. Between(<<0>> \o zeros, zeros, 1, 0)
    <3>1. Zeros(1) = <<0>>
      BY DEF Zeros
    <3>2. Between(Zeros(1) \o zeros, zeros, 1, 0)
      BY <2>3, ZerosThen
    <3>3. QED
      BY <3>1, <3>2
  <2>6. Between(<<0>> \o zeros, c, 1 + j, 0 + 0)
    BY <2>1, <2>3, <2>5, BetweenTwice
  <2>7. Shows(t, x, 1 + j, 0 + 0)
    <3>1. <<0>> \in Seq(0..9) /\ Len(<<0>>) = 1
      OBVIOUS
    <3>2. Between(t.int \o t.frac, x.c, 1 + j, 0 + 0)
      BY <1>3, <2>4, <2>6
    <3>3. Len(t.int) + ExponentOrZero(t) = (1 + j) + x.e + 1
      <4>1. Len(t.int) = 1 /\ ExponentOrZero(t) = 0
        BY <1>7, <2>4, <3>1
      <4>2. 1 + 0 = (1 + j) + e + 1
        BY <2>1
      <4>3. QED
        BY <1>4, <4>1, <4>2
    <3>4. t.int \in Seq(0..9) /\ t.frac \in Seq(0..9)
      BY <2>3, <2>4, <3>1
    <3>5. QED
      BY <2>4, <3>2, <3>3, <3>4, Zenon DEF Shows
  <2>8. Len(t.frac) = IF P(x) < 0 THEN -P(x) ELSE 0
    <3>1. Len(t.frac) = j + l
      BY <2>3, <2>4
    <3>2. P(x) < 0 /\ j + l = -P(x)
      <4>1. e - l + 1 < 0 /\ j + l = -(e - l + 1)
        BY <1>8, <2>1
      <4>2. QED
        BY <1>4, <4>1, Zenon
    <3>3. QED
      BY <3>1, <3>2, Zenon
  <2>9. (t.neg <=> IsNeg(x)) /\ ~zero
    <3>1. t.neg <=> IsNeg(x)
      BY <2>4, Zenon DEF neg
    <3>2. x.e # 0
      BY <1>4, <1>8
    <3>3. QED
      BY <3>1, <3>2, Zenon
  <2>10. 1 + j \in Nat /\ 0 + 0 \in Nat
    OBVIOUS
  <2>11. ShowsPlain(t, x, 1 + j, 0 + 0)
    BY <2>4, <2>7, <2>8, <2>9, Zenon DEF ShowsPlain
  <2>12. QED
    BY <2>10, <2>11 DEF t
<1>9. CASE ~(e < 0) /\ e + 1 >= l
  <2>1. PICK w \in Nat : w = e + 1 - l /\ w = x.e + 1 - Len(x.c)
    <3>1. e + 1 - l \in Nat
      BY <1>9
    <3>2. e + 1 - l = x.e + 1 - Len(x.c)
      BY <1>2, <1>4, Zenon
    <3>3. QED
      BY <3>1, <3>2
  <2>2. more = c \o Zeros(w)
    BY <1>3, <2>1
  <2>3. Between(more, c, 0, w) /\ more \in Seq(0..9) /\ Len(more) = l + w
    <3>1. Between(more, c, 0, w)
      BY <2>2, ThenZeros
    <3> HIDE DEF more
    <3>2. QED
      BY <1>3, <3>1 DEF Between, Decimal
  <2> HIDE DEF more, plus
  <2>4. ~IsWord(t) /\ t.int = more /\ t.frac = <<>> /\ t.exp = null /\ t.neg = plus
    BY <1>5, <1>9, NumeralIs
  <2>5. more \o <<>> = more
    BY <2>3, ConcatEmptySeq
  <2>6. Shows(t, x, 0, w)
    <3>1. <<>> \in Seq(0..9)
      OBVIOUS
    <3>2. Between(t.int \o t.frac, x.c, 0, w)
      BY <1>3, <2>3, <2>4, <2>5
    <3>3. Len(t.int) + ExponentOrZero(t) = 0 + x.e + 1
      <4>1. Len(t.int) = l + w /\ ExponentOrZero(t) = 0
        BY <1>7, <2>3, <2>4
      <4>2. (l + w) + 0 = 0 + e + 1
        BY <2>1
      <4>3. QED
        BY <1>4, <4>1, <4>2
    <3>4. t.int \in Seq(0..9) /\ t.frac \in Seq(0..9)
      BY <2>3, <2>4, <3>1
    <3>5. QED
      BY <2>4, <3>2, <3>3, <3>4, Zenon DEF Shows
  <2>7. Len(t.frac) = IF P(x) < 0 THEN -P(x) ELSE 0
    BY <1>4, <1>9, <2>4
  <2>8. t.neg <=> IsNeg(x) /\ ~zero
    BY <2>4, Zenon DEF plus
  <2>9. ShowsPlain(t, x, 0, w)
    BY <1>6, <2>4, <2>6, <2>7, <2>8, Zenon DEF ShowsPlain
  <2>10. 0 \in Nat
    OBVIOUS
  <2>11. QED
    BY <2>9, <2>10 DEF t
<1>10. CASE ~(e < 0) /\ ~(e + 1 >= l)
  <2>1. PICK k \in 1..Len(c) : k = e + 1 /\ k < l
    <3>1. e + 1 \in 1..Len(c)
      BY <1>3, <1>10
    <3>2. QED
      BY <1>10, <3>1
  <2>2. int = SubSeq(c, 1, k) /\ frac = SubSeq(c, k + 1, Len(c))
    <3>1. x.e + 1 = k /\ x.e + 2 = k + 1
      BY <1>4, <2>1
    <3>2. QED
      BY <1>3, <3>1
  <2>3. int \in Seq(0..9) /\ Len(int) = k /\ frac \in Seq(0..9) /\ Len(frac) = l - k /\ int \o frac = c
    <3>1. /\ SubSeq(c, 1, k) \in Seq(0..9) /\ Len(SubSeq(c, 1, k)) = k
          /\ SubSeq(c, k + 1, Len(c)) \in Seq(0..9) /\ Len(SubSeq(c, k + 1, Len(c))) = Len(c) - k
          /\ SubSeq(c, 1, k) \o SubSeq(c, k + 1, Len(c)) = c
      BY TwoParts
    <3> HIDE DEF int, frac
    <3>2. QED
      BY <1>3, <2>2, <3>1
  <2>4. Between(c, c, 0, 0)
    BY ItselfBetween
  <2> HIDE DEF int, frac, neg
  <2>5. ~IsWord(t) /\ t.int = int /\ t.frac = frac /\ t.exp = null /\ t.neg = neg
    BY <1>5, <1>10, NumeralIs
  <2>6. Shows(t, x, 0, 0)
    <3>1. Between(t.int \o t.frac, x.c, 0, 0)
      BY <1>3, <2>3, <2>4, <2>5
    <3>2. Len(t.int) + ExponentOrZero(t) = 0 + x.e + 1
      <4>1. Len(t.int) = e + 1 /\ ExponentOrZero(t) = 0
        BY <1>7, <2>1, <2>3, <2>5
      <4>2. (e + 1) + 0 = 0 + e + 1
        OBVIOUS
      <4>3. QED
        BY <1>4, <4>1, <4>2
    <3>3. t.int \in Seq(0..9) /\ t.frac \in Seq(0..9)
      BY <2>3, <2>5
    <3>4. QED
      BY <2>5, <3>1, <3>2, <3>3, Zenon DEF Shows
  <2>7. Len(t.frac) = IF P(x) < 0 THEN -P(x) ELSE 0
    <3>1. Len(t.frac) = l - k
      BY <2>3, <2>5
    <3>2. P(x) < 0 /\ l - k = -P(x)
      <4>1. e - l + 1 < 0 /\ l - k = -(e - l + 1)
        BY <1>10, <2>1
      <4>2. QED
        BY <1>4, <4>1, Zenon
    <3>3. QED
      BY <3>1, <3>2, Zenon
  <2>8. (t.neg <=> IsNeg(x)) /\ ~zero
    <3>1. t.neg <=> IsNeg(x)
      BY <2>5, Zenon DEF neg
    <3>2. Len(<<0>>) = 1 /\ l # 1
      BY <1>10
    <3>3. x.c # <<0>>
      BY <1>2, <3>2, Zenon
    <3>4. QED
      BY <3>1, <3>3, Zenon
  <2>9. ShowsPlain(t, x, 0, 0)
    BY <2>5, <2>6, <2>7, <2>8, Zenon DEF ShowsPlain
  <2>10. 0 \in Nat
    OBVIOUS
  <2>11. QED
    BY <2>9, <2>10 DEF t
<1>11. QED
  BY <1>8, <1>9, <1>10

(* Zeros around the digits, the last of which have lower weights.          *)
LEMMA SameDigits ==
    ASSUME NEW c \in Seq(0..9), NEW n, NEW z \in Nat, NEW w \in Nat, Between(n, c, z, w),
           NEW s \in {-1, 1}, NEW p \in Int
    PROVE  /\ SameValue(s * FromDigits(n, 10), p - w, s * FromDigits(c, 10), p)
           /\ s * FromDigits(n, 10) \in Int /\ s * FromDigits(c, 10) \in Int
<1>1. FromDigits(n, 10) = FromDigits(c, 10) * Power(10, w)
  BY BetweenValue
<1>2. Decimal(c, Len(c))
  BY DEF Decimal
<1>3. FromDigits(c, 10) \in Nat
  BY <1>2, TenDigits, TenInt, PrefixBounds DEF FromDigits
<1>4. PICK u \in Nat : u = FromDigits(c, 10)
  BY <1>3
<1>5. PICK f \in Nat \ {0} : f = Power(10, w)
  BY TenInt, PowerPositive, Zenon
<1> DEFINE m == s * u
           k == s * (u * f)
           q == p - w
<1>6. m \in Int /\ k \in Int /\ k = m * f /\ q \in Int /\ q <= p /\ p - q = w
  BY SMTT(30)
<1>7. k = At(m, p, q)
  BY <1>5, <1>6 DEF At
<1>8. SameValue(m, p, k, q)
  <2> HIDE DEF m, k, q
  <2>1. QED
    BY <1>6, <1>7, SameItself
<1>9. SameValue(k, q, m, p)
  <2> HIDE DEF m, k, q
  <2>1. QED
    BY <1>6, <1>8, SameSym
<1>10. s * FromDigits(n, 10) = k /\ s * FromDigits(c, 10) = m
  BY <1>1, <1>4, <1>5
<1>11. QED
  BY <1>6, <1>9, <1>10

(* A number with zeros behind it.                                          *)
LEMMA PaddedIs ==
    ASSUME NEW r, r = BigNum(r.s, r.e, r.c), HasDigits(r), NEW len \in Nat, Len(r.c) <= len
    PROVE  \E w \in Nat :
               /\ w = len - Len(r.c) /\ Between(Padded(r, len).c, r.c, 0, w)
               /\ Padded(r, len).e = r.e /\ Padded(r, len).s = r.s
               /\ HasDigits(Padded(r, len)) /\ Padded(r, len).c[1] = r.c[1]
               /\ P(Padded(r, len)) = r.e - len + 1
<1>1. r.c \in Seq(0..9) /\ Len(r.c) \in Nat \ {0} /\ r.e \in Int /\ r.s \in {-1, 1}
  BY DEF HasDigits
<1>2. PICK l \in Nat \ {0} : l = Len(r.c)
  BY <1>1
<1>3. PICK w \in Nat : w = len - l
  <2>1. len - l \in Nat
    BY <1>2
  <2>2. QED
    BY <2>1
<1>4. PICK y \in Seq(0..9) : y = Zeros(w) /\ Len(y) = w
  <2>1. Zeros(w) \in Seq(0..9) /\ Len(Zeros(w)) = w
    BY ZerosAre
  <2>2. QED
    BY <2>1, Zenon
<1> DEFINE q == Padded(r, len)
           n == r.c \o y
<1>5. Between(n, r.c, 0, w)
  BY <1>1, <1>4, ThenZeros
<1>6. n \in Seq(0..9) /\ Len(n) = len /\ n[1] = r.c[1]
  <2> HIDE DEF n
  <2>1. 0 + Len(r.c) + w = len
    BY <1>2, <1>3
  <2>2. Decimal(n, len) /\ Shifted(n, r.c, 0, len)
    BY <1>5, <2>1 DEF Between
  <2>3. 1 \in 1..len /\ 1 \in DOMAIN r.c /\ 1 - 0 = 1
    BY <1>1, <1>2, <1>3
  <2>4. n[1] = r.c[1]
    BY <2>2, <2>3 DEF Shifted, Digit
  <2>5. QED
    BY <2>2, <2>4 DEF Decimal
<1>7. q.c = n /\ q.e = r.e /\ q.s = r.s
  <2>1. q = [r EXCEPT !.c = n]
    BY <1>2, <1>3, <1>4 DEF Padded
  <2> HIDE DEF q, n
  <2>2. q = BigNum(r.s, r.e, n)
    BY <2>1 DEF BigNum
  <2>3. QED
    BY <2>2 DEF BigNum
<1> HIDE DEF q, n
<1>8. HasDigits(q)
  BY <1>1, <1>2, <1>3, <1>6, <1>7 DEF HasDigits
<1>9. P(q) = r.e - len + 1
  BY <1>1, <1>6, <1>7 DEF P
<1>10. QED
  BY <1>2, <1>3, <1>6, <1>7, <1>5, <1>8, <1>9 DEF q

(* A text that shows a number with zeros behind it shows the number.       *)
LEMMA PaddedShows ==
    ASSUME NEW r, HasDigits(r), NEW q, HasDigits(q), q.e = r.e, NEW v \in Nat, Between(q.c, r.c, 0, v),
           NEW t, NEW z \in Nat, NEW w \in Nat, Shows(t, q, z, w)
    PROVE  Shows(t, r, z, w + v)
<1>1. r.c \in Seq(0..9)
  BY DEF HasDigits
<1>2. Between(t.int \o t.frac, q.c, z, w)
  BY DEF Shows
<1>3. Between(t.int \o t.frac, r.c, z + 0, v + w)
  BY <1>1, <1>2, BetweenTwice
<1>4. z + 0 = z /\ v + w = w + v
  OBVIOUS
<1>5. Between(t.int \o t.frac, r.c, z, w + v)
  BY <1>3, <1>4
<1>6. QED
  BY <1>5 DEF Shows

(* The value a text shows, with its own sign.                              *)
LEMMA TextValue ==
    ASSUME NEW r, HasDigits(r), NEW t, NEW z \in Nat, NEW w \in Nat, Shows(t, r, z, w),
           ExponentOrZero(t) \in Int, r.c[1] # 0 => (t.neg <=> IsNeg(r)),
           r.c[1] = 0 => FromDigits(r.c, 10) = 0
    PROVE  TextM(t) \in Int /\ TextP(t) \in Int /\ SameValue(TextM(t), TextP(t), M(r), P(r))
<1> DEFINE n == t.int \o t.frac
           s == IF t.neg THEN -1 ELSE 1
<1>1. r.s \in {-1, 1} /\ r.e \in Int /\ r.c \in Seq(0..9) /\ Len(r.c) \in Nat
  BY DEF HasDigits
<1>2. M(r) \in Int /\ P(r) \in Int /\ FromDigits(r.c, 10) \in Nat
  BY ValueInt
<1>3. Between(n, r.c, z, w) /\ t.int \in Seq(0..9) /\ t.frac \in Seq(0..9)
      /\ Len(t.int) + ExponentOrZero(t) = z + r.e + 1
  BY DEF Shows
<1>4. PICK a \in Nat : a = Len(t.int)
  BY <1>3
<1>5. PICK b \in Nat : b = Len(t.frac)
  BY <1>3
<1>6. Len(n) = z + Len(r.c) + w
  BY <1>3 DEF Between, Decimal
<1>7. Len(n) = a + b
  BY <1>3, <1>4, <1>5
<1>8. TextP(t) = P(r) - w /\ P(r) - w \in Int
  <2>1. TextP(t) = ExponentOrZero(t) - b
    BY <1>5, Zenon DEF TextP, ExponentOrZero
  <2>2. PICK u \in Int : u = ExponentOrZero(t)
    BY Zenon
  <2>3. PICK l \in Nat : l = Len(r.c)
    BY <1>1, Zenon
  <2>4. PICK e \in Int : e = r.e
    BY <1>1, Zenon
  <2>5. a + u = z + e + 1 /\ a + b = z + l + w
    BY <1>3, <1>4, <1>6, <1>7, <2>2, <2>3, <2>4, Zenon
  <2>6. u - b = (e - l + 1) - w /\ e - l + 1 \in Int
    BY <2>5
  <2>7. P(r) = e - l + 1
    BY <2>3, <2>4, Zenon DEF P
  <2> HIDE DEF n
  <2>8. QED
    BY <2>1, <2>2, <2>6, <2>7
<1>9. s \in {-1, 1} /\ TextM(t) = s * FromDigits(n, 10)
  BY DEF TextM
<1>10. s * FromDigits(r.c, 10) = M(r)
  <2>1. CASE r.c[1] = 0
    BY <1>1, <1>2, <1>9, <2>1 DEF M
  <2>2. CASE r.c[1] # 0
    <3>1. t.neg <=> r.s < 0
      BY <2>2, Zenon DEF IsNeg
    <3>2. r.s < 0 => r.s = -1
      BY <1>1
    <3>3. ~(r.s < 0) => r.s = 1
      BY <1>1
    <3>4. s = r.s
      BY <3>1, <3>2, <3>3, Zenon
    <3>5. QED
      BY <3>4, Zenon DEF M
  <2>3. QED
    BY <2>1, <2>2
<1> HIDE DEF n, s
<1>11. /\ SameValue(s * FromDigits(n, 10), P(r) - w, s * FromDigits(r.c, 10), P(r))
       /\ s * FromDigits(n, 10) \in Int
  BY <1>1, <1>2, <1>3, <1>9, SameDigits
<1>12. QED
  BY <1>8, <1>9, <1>10, <1>11

LEMMA RndIsNumber ==
    ASSUME NEW g, NEW x, NEW dp, NEW r, r = Rnd(g, x, dp, 10, FALSE, FALSE)
    PROVE  r = BigNum(r.s, r.e, r.c)
<1> DEFINE i == x.e + dp + 1
           up == RoundsUp(g.rm, x, i, 10, dp = 0 /\ FALSE, FALSE)
           kept == SubSeq(x.c, 1, IF i < Len(x.c) THEN i ELSE Len(x.c))
           more == IF up THEN Increment(x.e, kept, 10) ELSE [e |-> x.e, c |-> DropTrailingZeros(kept)]
<1>1. r = IF i >= 1 /\ ~IsZero(x) THEN BigNum(x.s, more.e, more.c)
          ELSE IF up THEN BigNum(x.s, -dp, <<1>>) ELSE BigNum(x.s, 0, <<0>>)
  BY DEF Rnd, Zero
<1> HIDE DEF i, up, more
<1>2. \E s, e, c : r = BigNum(s, e, c)
  BY <1>1, Zenon
<1>3. QED
  BY <1>2 DEF BigNum

(* What is shown of a number has the digits of its text, or fewer.         *)
LEMMA ShownDigits ==
    ASSUME NEW g, g.rm \in 0..8, NEW x, Normal(x), IsFinite(x), NEW n \in Nat,
           NEW r, r = Shown(g, x, n)
    PROVE  /\ r = BigNum(r.s, r.e, r.c) /\ HasDigits(r) /\ r.s = x.s
           /\ r.e + n + 1 \in Nat /\ Len(r.c) <= r.e + n + 1
           /\ r.e \in {x.e, x.e + 1, -n, 0}
           /\ IsZero(r) => r.e = 0
           /\ IsZero(x) => r = x
           /\ r.c[1] = 0 => r.c = <<0>>
<1>1. x = BigNum(x.s, x.e, x.c) /\ HasDigits(x)
  BY NormalFacts, FiniteHasDigits
<1>2. PICK e \in Int : e = x.e
  BY <1>1 DEF HasDigits
<1>3. PICK l \in Nat \ {0} : l = Len(x.c)
  BY <1>1 DEF HasDigits
<1>4. HasDigits(r)
  BY ShownValue DEF Is
<1>5. CASE IsZero(x)
  <2>1. x.e = 0 /\ x.c = <<0>>
    BY <1>5, NormalFacts
  <2>2. Len(x.c) = 1 /\ ~(1 > 0 + n + 1)
    BY <2>1
  <2>3. r = x
    BY <2>1, <2>2 DEF Shown
  <2>4. r.e + n + 1 \in Nat /\ Len(r.c) <= r.e + n + 1
    <3>1. r.e = 0 /\ Len(r.c) = 1
      BY <2>1, <2>2, <2>3, Zenon
    <3>2. 0 + n + 1 \in Nat /\ 1 <= 0 + n + 1
      OBVIOUS
    <3>3. QED
      BY <3>1, <3>2
  <2>5. QED
    BY <1>1, <1>4, <2>1, <2>3, <2>4
<1>6. CASE ~IsZero(x) /\ ~(l > e + n + 1)
  <2>1. r = x
    BY <1>2, <1>3, <1>6 DEF Shown
  <2>2. e + n + 1 \in Nat /\ l <= e + n + 1
    BY <1>6
  <2>3. r.c[1] # 0
    BY <1>1, <1>6, <2>1 DEF IsZero, HasDigits, IsFinite
  <2>4. QED
    BY <1>1, <1>2, <1>3, <1>4, <1>6, <2>1, <2>2, <2>3
<1>7. CASE ~IsZero(x) /\ l > e + n + 1
  <2>1. r = Rnd(g, x, n, 10, FALSE, FALSE)
    BY <1>2, <1>3, <1>7 DEF Shown
  <2>2. PICK i \in Int : i = e + n + 1 /\ i = x.e + n + 1
    BY <1>2
  <2>3. x.c[1] # 0
    BY <1>7 DEF IsZero
  <2>4. Rounded(r, x, n, i)
    <3>1. n \in Int
      OBVIOUS
    <3>2. Rounded(Rnd(g, x, n, 10, FALSE, FALSE), x, n, i)
      BY <1>1, <2>2, <2>3, <3>1, RndIsRounded
    <3>3. QED
      BY <2>1, <3>2, Zenon
  <2>5. r = BigNum(r.s, r.e, r.c)
    BY <2>1, RndIsNumber, Zenon
  <2>6. r.s = x.s
    BY <2>4 DEF Rounded
  <2>7. CASE i >= 1 /\ Leads(r.c) /\ Len(r.c) <= i /\ r.e \in {x.e, x.e + 1}
    <3>1. PICK k \in Nat : k = Len(r.c)
      BY <2>7 DEF Leads
    <3>2. PICK f \in Int : f = r.e /\ f \in {e, e + 1}
      BY <1>2, <2>7
    <3>3. f + n + 1 \in Nat /\ k <= f + n + 1
      BY <2>2, <2>7, <3>1, <3>2
    <3>4. ~IsZero(r) /\ r.c[1] # 0
      BY <2>7 DEF IsZero, Leads
    <3>5. QED
      BY <1>4, <1>7, <2>5, <2>6, <2>7, <3>1, <3>2, <3>3, <3>4
  <2>8. CASE i < 1 /\ r.e = -n /\ r.c = <<1>>
    <3>1. Len(r.c) = 1 /\ r.e + n + 1 = 1 /\ ~IsZero(r) /\ r.c[1] # 0
      BY <2>8 DEF IsZero
    <3>2. QED
      BY <1>4, <1>7, <2>5, <2>6, <2>8, <3>1
  <2>9. CASE i < 1 /\ r.e = 0 /\ r.c = <<0>>
    <3>1. Len(r.c) = 1 /\ r.e + n + 1 = n + 1
      BY <2>9
    <3>2. n + 1 \in Nat /\ 1 <= n + 1
      OBVIOUS
    <3>3. QED
      BY <1>4, <1>7, <2>5, <2>6, <2>9, <3>1, <3>2
  <2>10. QED
    BY <2>4, <2>7, <2>8, <2>9 DEF Rounded
<1>8. QED
  BY <1>5, <1>6, <1>7

(* With a precision n, a number that is not zero has at most n digits and  *)
(* is not rounded to zero.                                                 *)
LEMMA PreciseDigits ==
    ASSUME NEW g, g.rm \in 0..8, NEW x, Normal(x), IsFinite(x), ~IsZero(x), NEW n \in Nat \ {0},
           NEW dp \in Int, dp = n - 1 - x.e, NEW r, r = Shown(g, x, dp)
    PROVE  /\ r = BigNum(r.s, r.e, r.c) /\ HasDigits(r) /\ r.s = x.s
           /\ Len(r.c) <= n /\ r.c[1] # 0
<1>1. x = BigNum(x.s, x.e, x.c) /\ HasDigits(x) /\ x.c[1] # 0
  BY NormalFacts, FiniteHasDigits DEF IsZero
<1>2. PICK e \in Int : e = x.e
  BY <1>1 DEF HasDigits
<1>3. PICK l \in Nat \ {0} : l = Len(x.c)
  BY <1>1 DEF HasDigits
<1>4. HasDigits(r)
  BY ShownValue DEF Is
<1>5. n = x.e + dp + 1
  BY <1>2
<1>6. CASE ~(l > n)
  <2>1. r = x
    BY <1>3, <1>5, <1>6 DEF Shown
  <2>2. QED
    BY <1>1, <1>3, <1>4, <1>6, <2>1
<1>7. CASE l > n
  <2>1. r = Rnd(g, x, dp, 10, FALSE, FALSE)
    BY <1>3, <1>5, <1>7 DEF Shown
  <2>2. Rounded(r, x, dp, n)
    <3>1. n \in Int
      OBVIOUS
    <3>2. Rounded(Rnd(g, x, dp, 10, FALSE, FALSE), x, dp, n)
      BY <1>1, <1>5, <3>1, RndIsRounded
    <3>3. QED
      BY <2>1, <3>2, Zenon
  <2>3. r = BigNum(r.s, r.e, r.c)
    BY <2>1, RndIsNumber, Zenon
  <2>4. r.s = x.s /\ Leads(r.c) /\ Len(r.c) <= n
    BY <2>2 DEF Rounded
  <2>5. QED
    BY <1>4, <2>3, <2>4 DEF Leads
<1>8. QED
  BY <1>6, <1>7

LEMMA PlainIsNumeral ==
    ASSUME NEW x
    PROVE  \E neg, int, frac, exp : Plain(x) = Numeral(neg, int, frac, exp)
  BY Zenon DEF Plain

(* toF(n) gives the plain text of the rounded number, with zeros up to the *)
(* n-th place and the sign of x.                                           *)
LEMMA FixedIs ==
    ASSUME NEW g \in Settings, NEW x, Normal(x), IsFinite(x), NEW n \in 0..MAX,
           x.e + 1 < Unbounded, -Unbounded < x.e, MAX < Unbounded,
           NEW h, h = PlainNotation(g), NEW r, r = Shown(h, x, n)
    PROVE  /\ ToF(g, x, n).text = [Plain(Padded(r, r.e + n + 1)) EXCEPT !.neg = IsNeg(x) /\ ~IsZero(x)]
           /\ h.rm = g.rm
<1>1. h.rm = g.rm /\ g.rm \in 0..8 /\ h.expNeg = -Unbounded /\ h.expPos = Unbounded
  <2>1. h = [g EXCEPT !.expNeg = -Unbounded, !.expPos = Unbounded]
    BY DEF PlainNotation
  <2>2. QED
    BY <2>1 DEF Settings
<1>2. n \in Nat /\ n <= MAX /\ n # null /\ ~BadPlaces(n) /\ MAX \in Nat /\ Unbounded \in Nat
  BY BigNumberAssumption DEF BadPlaces
<1>3. /\ r = BigNum(r.s, r.e, r.c) /\ HasDigits(r) /\ r.s = x.s
      /\ r.e + n + 1 \in Nat /\ Len(r.c) <= r.e + n + 1
      /\ r.e \in {x.e, x.e + 1, -n, 0}
      /\ IsZero(r) => r.e = 0
  <2>1. h.rm \in 0..8
    BY <1>1
  <2>2. QED
    BY <1>2, <2>1, ShownDigits
<1>4. PICK e \in Int : e = x.e
  BY FiniteHasDigits DEF HasDigits
<1>5. PICK f \in Int : f = r.e
  BY <1>3 DEF HasDigits
<1>6. -Unbounded < f /\ f < Unbounded
  BY <1>2, <1>3, <1>4, <1>5
<1> DEFINE q == Padded(r, r.e + n + 1)
<1>7. q.e = f /\ HasDigits(q)
  BY <1>3, <1>5, PaddedIs
<1> HIDE DEF q
<1>8. IsFinite(q)
  BY <1>7 DEF HasDigits, IsFinite
<1>9. ToS(h, q) = Plain(q)
  <2>1. ~(q.e <= h.expNeg) /\ ~(q.e >= h.expPos)
    BY <1>1, <1>2, <1>6, <1>7
  <2>2. QED
    BY <1>8, <2>1, Zenon DEF ToS
<1>10. Format(h, x, x.e + n, "toF") = Plain(q)
  <2>1. (x.e + n) - x.e = n
    BY <1>2, <1>4
  <2>2. Format(h, x, x.e + n, "toF") = Notation(h, r, x.e + n, n, "toF")
    <3>1. x.e + n + 1 = (x.e + n) + 1
      BY <1>2, <1>4
    <3>2. QED
      BY <2>1, Zenon DEF Format, Shown
  <2>3. IsZero(r) => n + 1 = r.e + n + 1
    BY <1>2, <1>3
  <2>4. Notation(h, r, x.e + n, n, "toF") = ToS(h, q)
    <3>1. "toF" # "toE" /\ "toF" # "toP"
      OBVIOUS
    <3>2. (IF IsZero(r) THEN n + 1 ELSE IF "toF" = "toF" THEN r.e + n + 1 ELSE x.e + n + 1) = r.e + n + 1
      BY <2>3, Zenon
    <3>3. QED
      BY <3>1, <3>2, Zenon DEF Notation, q
  <2>5. QED
    BY <1>9, <2>2, <2>4
<1>11. FixedText(h, x, n) = [Plain(q) EXCEPT !.neg = IsNeg(x) /\ ~IsZero(x)]
  BY <1>2, <1>10, Zenon DEF FixedText, WithSignOf
<1>12. ToF(g, x, n).text = FixedText(h, x, n)
  BY <1>2, Zenon DEF ToF
<1>13. QED
  BY <1>1, <1>11, <1>12, Zenon DEF q

(* The value of the text of toF(n) is the rounded value of x.              *)
LEMMA FixedShows ==
    ASSUME NEW g \in Settings, NEW x, Normal(x), IsFinite(x), NEW n \in 0..MAX,
           x.e + 1 < Unbounded, -Unbounded < x.e, MAX < Unbounded,
           NEW f, f = ToF(g, x, n).text
    PROVE  /\ Len(f.frac) = n /\ f.exp = null
           /\ SameValue(TextM(f), TextP(f), RoundedTo(M(x), 1, P(x), n, g.rm), -n)
<1> DEFINE h == PlainNotation(g)
           r == Shown(h, x, n)
           q == Padded(r, r.e + n + 1)
           t == Plain(q)
           neg == IsNeg(x) /\ ~IsZero(x)
<1>1. f = [t EXCEPT !.neg = neg] /\ h.rm = g.rm
  <2> HIDE DEF neg
  <2>1. QED
    BY FixedIs DEF neg
<1> HIDE DEF h, neg
<1>2. g.rm \in 0..8 /\ h.rm \in 0..8 /\ n \in Nat
  BY <1>1, BigNumberAssumption DEF Settings
<1>3. /\ r = BigNum(r.s, r.e, r.c) /\ HasDigits(r) /\ r.s = x.s
      /\ r.e + n + 1 \in Nat /\ Len(r.c) <= r.e + n + 1
      /\ IsZero(x) => r = x
      /\ r.c[1] = 0 => r.c = <<0>>
  <2> HIDE DEF r
  <2>1. QED
    BY <1>2, ShownDigits DEF r
<1>4. Is(r, RoundedTo(M(x), 1, P(x), n, h.rm), -n)
  <2>1. n \in Int /\ n >= 0
    BY <1>2
  <2>2. Is(Shown(h, x, n), RoundedTo(M(x), 1, P(x), n, h.rm), -n)
    BY <1>2, <2>1, ShownValue
  <2>3. QED
    BY <2>2
<1> HIDE DEF r
<1>5. PICK len \in Nat : len = r.e + n + 1
  BY <1>3, Zenon
<1>6. q = Padded(r, len)
  BY <1>5
<1> HIDE DEF q
<1>7. PICK v \in Nat :
          /\ v = len - Len(r.c) /\ Between(q.c, r.c, 0, v)
          /\ q.e = r.e /\ q.s = r.s /\ HasDigits(q) /\ q.c[1] = r.c[1]
          /\ P(q) = r.e - len + 1
  <2>1. Len(r.c) <= len
    BY <1>3, <1>5
  <2>2. \E w \in Nat :
               /\ w = len - Len(r.c) /\ Between(Padded(r, len).c, r.c, 0, w)
               /\ Padded(r, len).e = r.e /\ Padded(r, len).s = r.s
               /\ HasDigits(Padded(r, len)) /\ Padded(r, len).c[1] = r.c[1]
               /\ P(Padded(r, len)) = r.e - len + 1
    BY <1>3, <2>1, PaddedIs
  <2>3. QED
    BY <1>6, <2>2, Zenon
<1>8. PICK z \in Nat, w \in Nat : ShowsPlain(t, q, z, w)
  BY <1>7, PlainShows
<1>9. PICK sign, int, frac, exp : t = Numeral(sign, int, frac, exp)
  BY PlainIsNumeral
<1> HIDE DEF t
<1>10. f = Numeral(neg, int, frac, exp)
  BY <1>1, <1>9, Zenon DEF Numeral
<1>11. /\ t.int = int /\ t.frac = frac /\ t.exp = exp
      /\ ~IsWord(f) /\ f.int = int /\ f.frac = frac /\ f.exp = exp /\ f.neg = neg
  <2>1. t.int = int /\ t.frac = frac /\ t.exp = exp
    BY <1>9, NumeralIs
  <2>2. f.int = int /\ f.frac = frac /\ f.exp = exp
    BY <1>10, NumeralIs
  <2>3. ~IsWord(f) /\ f.neg = neg
    BY <1>10, NumeralIs
  <2>4. QED
    BY <2>1, <2>2, <2>3, Zenon
<1>12. f.exp = null /\ Len(f.frac) = IF P(q) < 0 THEN -P(q) ELSE 0
  BY <1>8, <1>11, Zenon DEF ShowsPlain
<1>13. P(q) = -n
  <2>1. PICK e \in Int : e = r.e
    BY <1>3, Zenon DEF HasDigits
  <2>2. e - (e + n + 1) + 1 = -n
    BY <1>2
  <2>3. QED
    BY <1>5, <1>7, <2>1, <2>2, Zenon
<1>14. Len(f.frac) = n
  BY <1>2, <1>12, <1>13
<1>15. ExponentOrZero(f) = 0 /\ ExponentOrZero(t) = 0
  BY <1>11, <1>12, Zenon DEF ExponentOrZero
<1>16. Shows(f, q, z, w)
  <2>1. Shows(t, q, z, w)
    BY <1>8, Zenon DEF ShowsPlain
  <2>2. QED
    BY <1>11, <1>15, <2>1, Zenon DEF Shows
<1>17. Shows(f, r, z, w + v)
  BY <1>3, <1>7, <1>16, PaddedShows
<1>18. r.c[1] # 0 => (f.neg <=> IsNeg(r))
  <2>1. IsNeg(r) <=> IsNeg(x)
    BY <1>3, Zenon DEF IsNeg
  <2>2. f.neg <=> neg
    BY <1>11, Zenon
  <2>3. r.c[1] # 0 => ~IsZero(x)
    BY <1>3, Zenon DEF IsZero
  <2>4. QED
    BY <2>1, <2>2, <2>3, Zenon DEF neg
<1>19. r.c[1] = 0 => FromDigits(r.c, 10) = 0
  <2>1. M(Zero(1)) = 0 /\ Normal(Zero(1)) /\ IsZero(Zero(1))
    <3>1. Normal(Zero(1)) /\ IsZero(Zero(1))
      BY NormalConstants DEF IsZero, Zero, BigNum, IsFinite
    <3>2. QED
      BY <3>1, ZeroValue
  <2>2. HasDigits(Zero(1))
    BY <2>1, FiniteHasDigits DEF IsZero
  <2>3. FromDigits(<<0>>, 10) = 0
    <3>1. FromDigits(Zero(1).c, 10) \in Nat
      BY <2>2, ValueInt
    <3>2. Zero(1).c = <<0>> /\ Zero(1).s = 1
      BY DEF Zero, BigNum
    <3>3. M(Zero(1)) = 1 * FromDigits(<<0>>, 10)
      BY <3>2, Zenon DEF M
    <3>4. QED
      BY <2>1, <3>1, <3>2, <3>3
  <2>4. QED
    BY <1>3, <2>3
<1>20. /\ TextM(f) \in Int /\ TextP(f) \in Int /\ SameValue(TextM(f), TextP(f), M(r), P(r))
  <2>1. w + v \in Nat /\ ExponentOrZero(f) \in Int
    BY <1>15
  <2>2. QED
    BY <1>3, <1>17, <1>18, <1>19, <2>1, TextValue
<1>21. SameValue(TextM(f), TextP(f), RoundedTo(M(x), 1, P(x), n, g.rm), -n)
  <2>1. M(x) \in Int /\ P(x) \in Int
    BY FiniteHasDigits, ValueInt
  <2>2. M(r) \in Int /\ P(r) \in Int
    BY <1>3, ValueInt
  <2>3. RoundedTo(M(x), 1, P(x), n, g.rm) \in Int /\ -n \in Int
    <3>1. 1 \in Int /\ 1 # 0 /\ n \in Int /\ -n \in Int
      BY <1>2
    <3>2. QED
      BY <1>2, <2>1, <3>1, RoundedToInt
  <2>4. SameValue(M(r), P(r), RoundedTo(M(x), 1, P(x), n, g.rm), -n)
    BY <1>1, <1>4 DEF Is
  <2>5. QED
    BY <1>20, <2>2, <2>3, <2>4, SameTrans
<1>22. QED
  BY <1>12, <1>14, <1>21

(* toP(n) gives a text of the rounded number with n digits, in either      *)
(* notation.                                                               *)
LEMMA PreciseIs ==
    ASSUME NEW g \in Settings, NEW x, Normal(x), IsFinite(x), ~IsZero(x), NEW n \in 1..MAX,
           NEW dp \in Int, dp = n - 1 - x.e, NEW r, r = Shown(g, x, dp), ~IsZero(r),
           NEW q, q = Padded(r, n), IsFinite(q), NEW t, t = ToP(g, x, n)
    PROVE  t = Exponential(q) \/ t = Plain(q)
<1>1. PICK e \in Int : e = x.e
  BY FiniteHasDigits DEF HasDigits
<1>2. n \in Int /\ n # null /\ ~(n < 1) /\ ~(n > MAX)
  BY BigNumberAssumption
<1>3. n - 1 - x.e = dp /\ x.e + dp + 1 = (n - 1) + 1 /\ (n - 1) + 1 = n
  BY <1>1, <1>2
<1>4. t = Format(g, x, n - 1, "toP")
  BY <1>2, Zenon DEF ToP
<1>5. Format(g, x, n - 1, "toP") = Notation(g, r, n - 1, dp, "toP")
  BY <1>3, Zenon DEF Format, Shown
<1>6. Notation(g, r, n - 1, dp, "toP") = Exponential(q) \/ Notation(g, r, n - 1, dp, "toP") = ToS(g, q)
  <2>1. (IF IsZero(r) THEN dp + 1 ELSE IF "toP" = "toF" THEN r.e + dp + 1 ELSE (n - 1) + 1) = n
    <3>1. "toP" # "toF"
      OBVIOUS
    <3>2. QED
      BY <1>3, <3>1, Zenon
  <2>2. QED
    BY <2>1, Zenon DEF Notation
<1>7. ToS(g, q) = Exponential(q) \/ ToS(g, q) = Plain(q)
  BY Zenon DEF ToS
<1>8. QED
  BY <1>4, <1>5, <1>6, <1>7, Zenon

(* Its value is the rounded value of x.                                    *)
LEMMA PreciseShows ==
    ASSUME NEW g \in Settings, NEW x, Normal(x), IsFinite(x), ~IsZero(x), NEW n \in 1..MAX,
           NEW k \in Int, k = x.e - n + 1, NEW t, t = ToP(g, x, n)
    PROVE  SameValue(TextM(t), TextP(t), RoundedTo(M(x), 1, P(x), -k, g.rm), k)
<1>1. PICK e \in Int : e = x.e
  BY FiniteHasDigits DEF HasDigits
<1>2. PICK dp \in Int : dp = -k /\ dp = n - 1 - x.e /\ -dp = k
  <2>1. -k \in Int /\ -k = n - 1 - e /\ -(-k) = k
    BY <1>1
  <2>2. QED
    BY <1>1, <2>1
<1>3. g.rm \in 0..8 /\ n \in Nat \ {0}
  BY BigNumberAssumption DEF Settings
<1> DEFINE r == Shown(g, x, dp)
<1>4. /\ r = BigNum(r.s, r.e, r.c) /\ HasDigits(r) /\ r.s = x.s
      /\ Len(r.c) <= n /\ r.c[1] # 0
  <2> HIDE DEF r
  <2>1. QED
    BY <1>2, <1>3, PreciseDigits DEF r
<1>5. Is(r, RoundedTo(M(x), 1, P(x), dp, g.rm), k)
  <2>1. Is(Shown(g, x, dp), RoundedTo(M(x), 1, P(x), dp, g.rm), -dp)
    BY <1>3, ShownValue
  <2>2. QED
    BY <1>2, <2>1
<1>6. ~IsZero(r)
  BY <1>4, Zenon DEF IsZero
<1> DEFINE q == Padded(r, n)
<1>7. PICK v \in Nat :
          /\ v = n - Len(r.c) /\ Between(q.c, r.c, 0, v)
          /\ q.e = r.e /\ q.s = r.s /\ HasDigits(q) /\ q.c[1] = r.c[1]
          /\ P(q) = r.e - n + 1
  <2> HIDE DEF r
  <2>1. n \in Nat
    BY <1>3
  <2>2. QED
    BY <1>4, <2>1, PaddedIs
<1>8. IsFinite(q)
  <2> HIDE DEF q
  <2>1. QED
    BY <1>7 DEF HasDigits, IsFinite
<1>9. t = Exponential(q) \/ t = Plain(q)
  <2> HIDE DEF q, r
  <2>1. q = Padded(r, n) /\ r = Shown(g, x, dp)
    BY DEF q, r
  <2>2. QED
    BY <1>2, <1>6, <1>8, <2>1, PreciseIs
<1> HIDE DEF q, r
<1>10. q.c[1] # 0 /\ (IsNeg(q) <=> IsNeg(r))
  BY <1>4, <1>7, Zenon DEF IsNeg
<1>11. \E z \in Nat, w \in Nat : Shows(t, q, z, w) /\ ExponentOrZero(t) \in Int /\ (t.neg <=> IsNeg(r))
  <2>1. CASE t = Exponential(q)
    <3>1. Shows(t, q, 0, 0) /\ (t.neg <=> IsNeg(q) /\ ~IsZero(q))
      BY <1>7, <2>1, ExponentialShows, Zenon
    <3>2. ~IsZero(q)
      BY <1>10, Zenon DEF IsZero
    <3>3. ExponentOrZero(t) \in Int
      <4>1. PICK neg, int, frac : t = Numeral(neg, int, frac, q.e)
        BY <2>1, Zenon DEF Exponential
      <4>2. t.exp = q.e
        BY <4>1, NumeralIs
      <4>3. q.e \in Int /\ 0 \in Int
        BY <1>7 DEF HasDigits
      <4>4. QED
        BY <4>2, <4>3, Zenon DEF ExponentOrZero
    <3>4. 0 \in Nat
      OBVIOUS
    <3>5. QED
      BY <1>10, <3>1, <3>2, <3>3, <3>4, Zenon
  <2>2. CASE t = Plain(q)
    <3>1. PICK z \in Nat, w \in Nat : ShowsPlain(t, q, z, w)
      BY <1>7, <2>2, PlainShows
    <3>2. Shows(t, q, z, w) /\ t.exp = null /\ (t.neg <=> IsNeg(q))
      BY <1>10, <3>1, Zenon DEF ShowsPlain
    <3>3. ExponentOrZero(t) = 0
      BY <3>2, Zenon DEF ExponentOrZero
    <3>4. 0 \in Int
      OBVIOUS
    <3>5. QED
      BY <1>10, <3>2, <3>3, <3>4, Zenon
  <2>3. QED
    BY <1>9, <2>1, <2>2
<1>12. PICK z \in Nat, w \in Nat : Shows(t, q, z, w) /\ ExponentOrZero(t) \in Int /\ (t.neg <=> IsNeg(r))
  BY <1>11
<1>13. Shows(t, r, z, w + v) /\ w + v \in Nat
  <2>1. Shows(t, r, z, w + v)
    BY <1>4, <1>7, <1>12, PaddedShows, Zenon
  <2>2. QED
    BY <2>1
<1>14. TextM(t) \in Int /\ TextP(t) \in Int /\ SameValue(TextM(t), TextP(t), M(r), P(r))
  <2>1. r.c[1] = 0 => FromDigits(r.c, 10) = 0
    BY <1>4
  <2>2. r.c[1] # 0 => (t.neg <=> IsNeg(r))
    BY <1>12, Zenon
  <2>3. QED
    BY <1>4, <1>12, <1>13, <2>1, <2>2, TextValue, Zenon
<1>15. M(x) \in Int /\ P(x) \in Int
  BY FiniteHasDigits, ValueInt
<1>16. M(r) \in Int /\ P(r) \in Int
  BY <1>4, ValueInt
<1>17. RoundedTo(M(x), 1, P(x), dp, g.rm) \in Int
  <2>1. 1 \in Int /\ 1 # 0
    OBVIOUS
  <2>2. QED
    BY <1>3, <1>15, <2>1, RoundedToInt
<1>18. SameValue(M(r), P(r), RoundedTo(M(x), 1, P(x), dp, g.rm), k)
  BY <1>5 DEF Is
<1>19. SameValue(TextM(t), TextP(t), RoundedTo(M(x), 1, P(x), dp, g.rm), k)
  BY <1>14, <1>16, <1>17, <1>18, SameTrans
<1>20. QED
  BY <1>2, <1>19

(* The results that are kept are those whose exponents are bounded.        *)
ExponentKept == acc.e \in -MaxExp..MaxExp

LEMMA ExponentBounded == Spec => []ExponentKept
<1>1. Init => ExponentKept
  <2>1. MaxExp \in Nat
    BY LibAssumption, Zenon
  <2>2. QED
    BY <2>1 DEF Init, ExponentKept, ONE, BigNum
<1>2. ExponentKept /\ [Next]_vars => ExponentKept'
  <2>1. SUFFICES ASSUME ExponentKept, [Next]_vars, acc' # acc PROVE ExponentKept'
    BY DEF ExponentKept
  <2>2. ASSUME NEW r, NEW g, Returns(r, g) PROVE ExponentKept'
    BY <2>1, <2>2 DEF Returns, Fits, ExponentKept
  <2>3. ASSUME NEW r, Gives(r) PROVE ExponentKept'
    BY <2>2, <2>3 DEF Gives
  <2>4. Next
    BY <2>1 DEF vars
  <2>5. CASE Construct \/ Conversion \/ PlusCall \/ MinusCall \/ TimesCall \/ DivCall
    BY <2>2, <2>5 DEF Construct, Conversion, PlusCall, MinusCall, TimesCall, DivCall
  <2>6. CASE NegCall \/ AbsCall \/ PowCall
    BY <2>2, <2>6 DEF NegCall, AbsCall, PowCall
  <2>7. CASE ModCall \/ CeilCall \/ FloorCall \/ SqrtCall \/ RoundCall
    BY <2>3, <2>7 DEF ModCall, CeilCall, FloorCall, SqrtCall, RoundCall
  <2>8. CASE Config \/ ToSCall \/ ToECall \/ ToPCall \/ ToFCall \/ ToFrCall
    BY <2>1, <2>8 DEF Config, ToSCall, ToECall, ToPCall, ToFCall, ToFrCall, PrintsFixed, PrintsFraction, Prints
  <2>9. QED
    BY <2>4, <2>5, <2>6, <2>7, <2>8 DEF Next
<1>3. QED
  BY <1>1, <1>2, PTL DEF Spec

(* Whatever the result and the settings, toF(n) shows exactly n digits     *)
(* behind the point, and the digits toF and toP show are those of the      *)
(* number rounded once in ROUNDING_MODE, carries into a new first digit,   *)
(* numbers rounded to zero and either notation included.                   *)
THEOREM TextsRounded == Spec => []ShownRounded
<1>1. TypeOK /\ ExponentKept => ShownRounded
  <2> SUFFICES ASSUME TypeOK, ExponentKept, IsFinite(acc), NEW n \in Places \cap 0..MAX
               PROVE  LET f == ToF(settings, acc, n).text
                          t == ToP(settings, acc, n)
                          shift == acc.e - n + 1
                      IN  /\ Len(f.frac) = n /\ f.exp = null
                          /\ SameValue(TextM(f), TextP(f), RoundedTo(M(acc), 1, P(acc), n, settings.rm), -n)
                          /\ (n > 0 /\ ~IsZero(acc)) =>
                                SameValue(TextM(t), TextP(t),
                                          RoundedTo(M(acc), 1, P(acc), -shift, settings.rm), shift)
    BY DEF ShownRounded
  <2> DEFINE shift == acc.e - n + 1
  <2>1. Normal(acc) /\ settings \in Settings /\ n \in 0..MAX /\ acc.e \in -MaxExp..MaxExp
    BY DEF TypeOK, ExponentKept
  <2>2. /\ acc.e + 1 < Unbounded /\ -Unbounded < acc.e /\ MAX < Unbounded
        /\ acc.e \in Int /\ n \in Int /\ shift \in Int
    <3>1. MaxExp \in Nat /\ MAX + MaxExp < Unbounded
      BY LibAssumption, Zenon
    <3>2. MAX \in Nat \ {0} /\ Unbounded \in Nat
      BY BigNumberAssumption
    <3>3. QED
      BY <2>1, <3>1, <3>2
  <2>3. LET f == ToF(settings, acc, n).text
        IN  /\ Len(f.frac) = n /\ f.exp = null
            /\ SameValue(TextM(f), TextP(f), RoundedTo(M(acc), 1, P(acc), n, settings.rm), -n)
    BY <2>1, <2>2, FixedShows
  <2>4. ASSUME n > 0, ~IsZero(acc)
        PROVE  LET t == ToP(settings, acc, n)
               IN  SameValue(TextM(t), TextP(t), RoundedTo(M(acc), 1, P(acc), -shift, settings.rm), shift)
    <3>1. n \in 1..MAX
      BY <2>1, <2>4
    <3>2. shift \in Int /\ shift = acc.e - n + 1
      BY <2>2
    <3> HIDE DEF shift
    <3>3. QED
      BY <2>1, <2>4, <3>1, <3>2, PreciseShows
  <2>5. QED
    BY <2>3, <2>4
<1>2. QED
  BY <1>1, NumbersNormal, ExponentBounded, PTL

LEMMA ExponentialExponent ==
    ASSUME NEW x, x.e \in Int
    PROVE  ExponentOrZero(Exponential(x)) \in Int
<1>1. PICK neg, int, frac : Exponential(x) = Numeral(neg, int, frac, x.e)
  BY Zenon DEF Exponential
<1>2. Exponential(x).exp = x.e
  BY <1>1, NumeralIs
<1>3. 0 \in Int
  OBVIOUS
<1>4. QED
  BY <1>2, <1>3, Zenon DEF ExponentOrZero

(* A text that shows all digits of a number is read as that number.        *)
LEMMA ReadBack ==
    ASSUME NEW g \in Settings, NEW x, Normal(x), IsFinite(x), InRange(g, x) = x,
           NEW t, NEW z \in Nat, NEW w \in Nat, Shows(t, x, z, w), ExponentOrZero(t) \in Int,
           IsZero(x) => ~t.neg, ~IsZero(x) => (t.neg <=> IsNeg(x))
    PROVE  New(g, t, FALSE) = IF IsZero(x) THEN Zero(1) ELSE x
<1> DEFINE n == t.int \o t.frac
           s == IF t.neg THEN -1 ELSE 1
<1>1. HasDigits(x) /\ x = BigNum(x.s, x.e, x.c)
  BY NormalFacts, FiniteHasDigits
<1>2. PICK e \in Int : e = x.e
  BY <1>1 DEF HasDigits
<1>3. PICK l \in Nat \ {0} : l = Len(x.c)
  BY <1>1 DEF HasDigits
<1>4. ~IsWord(t) /\ Between(n, x.c, z, w) /\ Len(t.int) + ExponentOrZero(t) = z + e + 1
  BY <1>2, Zenon DEF Shows
<1>5. PICK zeros : zeros = LeadingZeros(n)
  OBVIOUS
<1>6. New(g, t, FALSE) = FromDigitsOf(g, s, Len(t.int) + ExponentOrZero(t) - (zeros + 1), n, zeros)
  <2>1. New(g, t, FALSE) = FromNumeral(g, t)
    BY <1>4, Zenon DEF New
  <2>2. FromNumeral(g, t) = FromDigitsOf(g, s, Len(t.int) + ExponentOrZero(t) - (zeros + 1), n, zeros)
    BY <1>5, Zenon DEF FromNumeral
  <2>3. QED
    BY <2>1, <2>2, Zenon
<1>7. g.maxE \in Nat /\ g.minE \in Int
  BY BigNumberAssumption DEF Settings
<1> HIDE DEF n, s
<1>8. ASSUME zeros \in Int
       PROVE  New(g, t, FALSE) = FromDigitsOf(g, s, z + e + 1 - (zeros + 1), n, zeros)
  <2>1. PICK a \in Nat : a = Len(t.int)
    <3>1. t.int \in Seq(0..9)
      BY Zenon DEF Shows
    <3>2. QED
      BY <3>1
  <2>2. PICK u \in Int : u = ExponentOrZero(t)
    BY Zenon
  <2>3. a + u = z + e + 1
    BY <1>4, <2>1, <2>2, Zenon
  <2>4. a + u - (zeros + 1) = z + e + 1 - (zeros + 1)
    BY <1>8, <2>3
  <2>5. QED
    BY <1>6, <2>1, <2>2, <2>4, Zenon
<1>9. Decimal(n, z + l + w) /\ Shifted(n, x.c, z, z + l + w)
  BY <1>3, <1>4 DEF Between
<1>10. CASE IsZero(x)
  <2>1. e = 0 /\ x.c = <<0>> /\ l = 1
    <3>1. x.e = 0 /\ x.c = <<0>>
      BY <1>10, NormalFacts, Zenon
    <3>2. Len(<<0>>) = 1
      OBVIOUS
    <3>3. QED
      BY <1>2, <1>3, <3>1, <3>2, Zenon
  <2>2. \A i \in 1..(z + l + w) : n[i] = 0
    <3>1. \A i \in Int : Digit(<<0>>, i) = 0
      BY DEF Digit
    <3>2. QED
      BY <1>9, <2>1, <3>1 DEF Shifted
  <2>3. n \in Seq(0..9) /\ Len(n) = z + 1 + w /\ z + 1 + w \in Nat
    BY <1>9, <2>1 DEF Decimal
  <2>4. Significant(n) = {}
    BY <2>1, <2>2, <2>3 DEF Significant
  <2>5. zeros = Len(n)
    BY <1>5, <2>4, Zenon DEF LeadingZeros
  <2>6. ~(z + e + 1 - (zeros + 1) > g.maxE)
    BY <1>7, <2>1, <2>3, <2>5
  <2>7. FromDigitsOf(g, s, z + e + 1 - (zeros + 1), n, zeros) = Zero(s)
    BY <2>5, <2>6, Zenon DEF FromDigitsOf
  <2>8. s = 1
    BY <1>10, Zenon DEF s
  <2>9. QED
    <3>1. zeros \in Int
      BY <2>3, <2>5
    <3>2. New(g, t, FALSE) = FromDigitsOf(g, s, z + e + 1 - (zeros + 1), n, zeros)
      BY <1>8, <3>1
    <3>3. QED
      BY <1>10, <2>7, <2>8, <3>2, Zenon
<1>11. CASE ~IsZero(x)
  <2>1. Leads(x.c) /\ x.c[Len(x.c)] # 0
    BY <1>11, NormalFacts
  <2>2. n \in Seq(0..9) /\ LeadingZeros(n) = z /\ z # Len(n)
        /\ DropTrailingZeros(SubSeq(n, z + 1, Len(n))) = x.c
    BY <1>4, <2>1, BetweenRead
  <2>3. zeros = z /\ z + e + 1 - (zeros + 1) = e
    BY <1>5, <2>2
  <2>4. ~(e > g.maxE)
    <3>1. SUFFICES ASSUME e > g.maxE PROVE FALSE
      OBVIOUS
    <3>2. x = Infinity(x.s)
      BY <1>2, <3>1, Zenon DEF InRange
    <3>3. x.c = <<>>
      BY <3>2 DEF Infinity, BigNum
    <3>4. QED
      BY <3>3 DEF IsFinite
  <2>5. ~(e < g.minE)
    <3>1. SUFFICES ASSUME e < g.minE PROVE FALSE
      OBVIOUS
    <3>2. x = Zero(x.s)
      BY <1>2, <2>4, <3>1, Zenon DEF InRange
    <3>3. x.c = <<0>>
      BY <3>2 DEF Zero, BigNum
    <3>4. QED
      BY <1>11, <3>3 DEF IsZero
  <2>6. FromDigitsOf(g, s, e, n, z) = BigNum(s, e, x.c)
    BY <2>2, <2>4, <2>5, Zenon DEF FromDigitsOf
  <2>7. s = x.s
    <3>1. t.neg <=> x.s < 0
      BY <1>11, Zenon DEF IsNeg
    <3>2. x.s \in {-1, 1}
      BY <1>1 DEF HasDigits
    <3>3. (x.s < 0 => x.s = -1) /\ (~(x.s < 0) => x.s = 1)
      BY <3>2
    <3>4. QED
      BY <3>1, <3>3, Zenon DEF s
  <2>8. New(g, t, FALSE) = BigNum(x.s, e, x.c)
    <3>1. zeros \in Int
      BY <2>3
    <3>2. New(g, t, FALSE) = FromDigitsOf(g, s, z + e + 1 - (zeros + 1), n, zeros)
      BY <1>8, <3>1
    <3>3. QED
      BY <2>3, <2>6, <2>7, <3>2, Zenon
  <2>9. QED
    BY <1>1, <1>2, <1>11, <2>8, Zenon
<1>12. QED
  BY <1>10, <1>11

(* No zeros are put behind the digits of a number that is shown with all   *)
(* of them.                                                                *)
LEMMA PaddedItself ==
    ASSUME NEW x, x = BigNum(x.s, x.e, x.c), HasDigits(x)
    PROVE  Padded(x, Len(x.c)) = x
<1>1. PICK l \in Nat : l = Len(x.c)
  BY DEF HasDigits
<1>2. l - l = 0 /\ Zeros(0) = <<>>
  BY DEF Zeros
<1>3. x.c \o <<>> = x.c
  BY ConcatEmptySeq DEF HasDigits
<1>4. Padded(x, l) = [x EXCEPT !.c = x.c]
  BY <1>1, <1>2, <1>3, Zenon DEF Padded
<1>5. [x EXCEPT !.c = x.c] = x
  BY DEF BigNum
<1>6. QED
  BY <1>1, <1>4, <1>5

(* The texts of a finite number with all its digits.                       *)
LEMMA AllDigits ==
    ASSUME NEW g, NEW x, Normal(x), IsFinite(x),
           NEW t \in {ToS(g, x), ToE(g, x, null), ToP(g, x, null), ToF(g, x, null).text}
    PROVE  t = Exponential(x) \/ t = Plain(x)
<1>1. \A h : ToS(h, x) = Exponential(x) \/ ToS(h, x) = Plain(x)
  BY Zenon DEF ToS
<1>2. ToP(g, x, null) = ToS(g, x)
  BY Zenon DEF ToP
<1>3. ToF(g, x, null).text = ToS(PlainNotation(g), x)
  BY Zenon DEF ToF, FixedText
<1>4. ToE(g, x, null) = Exponential(x)
  <2>1. x = BigNum(x.s, x.e, x.c) /\ HasDigits(x)
    BY NormalFacts, FiniteHasDigits
  <2>2. PICK l \in Nat \ {0} : l = Len(x.c)
    BY <2>1 DEF HasDigits
  <2>3. PICK d \in Nat : d = l - 1
    BY <2>2
  <2>4. ToE(g, x, null) = Format(g, x, d, "toE")
    BY <2>2, <2>3, Zenon DEF ToE
  <2>5. ~(Len(x.c) > d + 1) /\ d + 1 = l
    BY <2>2, <2>3
  <2>6. Format(g, x, d, "toE") = Notation(g, x, d, d - x.e, "toE")
    BY <2>5, Zenon DEF Format
  <2>7. (IF IsZero(x) THEN (d - x.e) + 1 ELSE IF "toE" = "toF" THEN x.e + (d - x.e) + 1 ELSE d + 1) = l
    <3>1. "toE" # "toF"
      OBVIOUS
    <3>2. IsZero(x) => (d - x.e) + 1 = l
      <4>1. IsZero(x) => x.e = 0
        BY NormalFacts
      <4>2. d - 0 + 1 = l
        BY <2>5
      <4>3. QED
        BY <4>1, <4>2
    <3>3. QED
      BY <2>5, <3>1, <3>2, Zenon
  <2>8. Notation(g, x, d, d - x.e, "toE") = Exponential(Padded(x, l))
    BY <2>7, Zenon DEF Notation
  <2>9. Padded(x, l) = x
    BY <2>1, <2>2, PaddedItself
  <2>10. QED
    BY <2>4, <2>6, <2>8, <2>9
<1>5. QED
  BY <1>1, <1>2, <1>3, <1>4, Zenon

(* The texts of a number that is not finite.                               *)
LEMMA WordsOf ==
    ASSUME NEW g, NEW x, ~IsFinite(x),
           NEW t \in {ToS(g, x), ToE(g, x, null), ToP(g, x, null), ToF(g, x, null).text}
    PROVE  t = Word(IF IsNaN(x) THEN "NaN" ELSE "Infinity", IsNeg(x))
<1>1. \A h : ToS(h, x) = Word(IF IsNaN(x) THEN "NaN" ELSE "Infinity", IsNeg(x))
  BY Zenon DEF ToS
<1>2. ToP(g, x, null) = ToS(g, x)
  BY Zenon DEF ToP
<1>3. ToF(g, x, null).text = ToS(PlainNotation(g), x)
  BY Zenon DEF ToF, FixedText
<1>4. ToE(g, x, null) = ToS(g, x)
  BY Zenon DEF ToE, Format
<1>5. QED
  BY <1>1, <1>2, <1>3, <1>4, Zenon

LEMMA WordRead ==
    ASSUME NEW g, NEW x, Normal(x), ~IsFinite(x),
           NEW t, t = Word(IF IsNaN(x) THEN "NaN" ELSE "Infinity", IsNeg(x))
    PROVE  New(g, t, FALSE) = x
<1>1. x = BigNum(x.s, 0, <<>>) /\ x.s \in {-1, 0, 1}
  BY NormalFacts
<1>2. t.word = (IF IsNaN(x) THEN "NaN" ELSE "Infinity") /\ t.neg = IsNeg(x)
  BY Zenon DEF Word
<1>3. New(g, t, FALSE) = FromWord(t)
  <2>1. "NaN" # "" /\ "Infinity" # ""
    OBVIOUS
  <2>2. QED
    BY <1>2, <2>1, Zenon DEF New, IsWord
<1>4. CASE x.s = 0
  BY <1>1, <1>2, <1>3, <1>4, Zenon DEF FromWord, IsNaN, NaN
<1>5. CASE x.s # 0
  <2>1. "Infinity" # "NaN"
    OBVIOUS
  <2>2. FromWord(t) = Infinity(IF x.s < 0 THEN -1 ELSE 1)
    BY <1>2, <1>5, <2>1, Zenon DEF FromWord, IsNaN, IsNeg
  <2>3. (IF x.s < 0 THEN -1 ELSE 1) = x.s
    BY <1>1, <1>5
  <2>4. QED
    BY <1>1, <1>3, <2>2, <2>3, Zenon DEF Infinity
<1>6. QED
  BY <1>4, <1>5

(* Whatever the result and the settings, reading a text that keeps all     *)
(* digits gives the number back, in any of the notations, with zeros       *)
(* before or behind its digits, and the words for what is not finite.      *)
THEOREM TextsReadBack == Spec => []TextRoundTrip
<1>1. TypeOK => TextRoundTrip
  <2> SUFFICES ASSUME TypeOK, acc \in InsideRange,
                      NEW t \in {ToS(settings, acc), ToE(settings, acc, null), ToP(settings, acc, null),
                                 ToF(settings, acc, null).text}
               PROVE  New(settings, t, FALSE) = IF IsZero(acc) THEN Zero(1) ELSE acc
    BY Zenon DEF TextRoundTrip
  <2>1. Normal(acc) /\ settings \in Settings /\ InRange(settings, acc) = acc
    BY DEF TypeOK, InsideRange
  <2>2. CASE ~IsFinite(acc)
    <3>1. t = Word(IF IsNaN(acc) THEN "NaN" ELSE "Infinity", IsNeg(acc))
      BY <2>2, WordsOf, Zenon
    <3>2. ~IsZero(acc)
      BY <2>2 DEF IsZero
    <3>3. New(settings, t, FALSE) = acc
      BY <2>1, <2>2, <3>1, WordRead, Zenon
    <3>4. QED
      BY <3>2, <3>3, Zenon
  <2>3. CASE IsFinite(acc)
    <3>1. HasDigits(acc) /\ (~IsZero(acc) => acc.c[1] # 0) /\ (IsZero(acc) => acc.e = 0 /\ acc.c = <<0>>)
      BY <2>1, <2>3, FiniteHasDigits, NormalFacts DEF IsZero
    <3>2. t = Exponential(acc) \/ t = Plain(acc)
      BY <2>1, <2>3, AllDigits, Zenon
    <3>3. \E z \in Nat, w \in Nat : Shows(t, acc, z, w) /\ ExponentOrZero(t) \in Int
                                    /\ (IsZero(acc) => ~t.neg)
                                    /\ (~IsZero(acc) => (t.neg <=> IsNeg(acc)))
      <4>1. CASE t = Exponential(acc)
        <5>1. Shows(t, acc, 0, 0) /\ (t.neg <=> IsNeg(acc) /\ ~IsZero(acc))
          BY <3>1, <4>1, ExponentialShows, Zenon
        <5>2. 0 \in Nat
          OBVIOUS
        <5>3. ExponentOrZero(t) \in Int
          BY <3>1, <4>1, ExponentialExponent DEF HasDigits
        <5>4. QED
          BY <5>1, <5>2, <5>3, Zenon
      <4>2. CASE t = Plain(acc)
        <5>1. PICK z \in Nat, w \in Nat : ShowsPlain(t, acc, z, w)
          BY <3>1, <4>2, PlainShows
        <5>2. ExponentOrZero(t) \in Int
          <6>1. ExponentOrZero(t) = 0
            BY <5>1, Zenon DEF ShowsPlain, ExponentOrZero
          <6>2. QED
            BY <6>1
        <5>3. QED
          BY <3>1, <5>1, <5>2, Zenon DEF ShowsPlain
      <4>3. QED
        BY <3>2, <4>1, <4>2
    <3>4. QED
      BY <2>1, <2>3, <3>3, ReadBack, Zenon
  <2>4. QED
    BY <2>2, <2>3
<1>2. QED
  BY <1>1, NumbersNormal, PTL

----------------------------------------------------------------------------
(* Integers in any base.                                                   *)

(* A number is divided by a product factor by factor.                      *)
LEMMA DivTwice ==
    ASSUME NEW n \in Nat, NEW p \in Nat \ {0}, NEW b \in Nat \ {0}
    PROVE  (n \div p) \div b = n \div (p * b) /\ n \div p \in Nat
<1>1. PICK q \in Nat : q = n \div p
  OBVIOUS
<1>2. PICK r \in 0..(p - 1) : r = (n % p)
  OBVIOUS
<1>3. n = p * q + r
  <2>1. n = p * (n \div p) + (n % p)
    OBVIOUS
  <2>2. QED
    BY <1>1, <1>2, <2>1
<1>4. PICK u \in Nat : u = q \div b
  OBVIOUS
<1>5. PICK v \in 0..(b - 1) : v = (q % b)
  OBVIOUS
<1>6. q = b * u + v
  <2>1. q = b * (q \div b) + (q % b)
    OBVIOUS
  <2>2. QED
    BY <1>4, <1>5, <2>1
<1>7. PICK f \in Nat \ {0} : f = p * b
  <2>1. p * b \in Nat /\ p * b # 0
    OBVIOUS
  <2>2. QED
    BY <2>1
<1>8. n = f * u + (p * v + r)
  <2>1. p * (b * u + v) = (p * b) * u + p * v
    OBVIOUS
  <2>2. p * q = f * u + p * v
    BY <1>6, <1>7, <2>1
  <2>3. f * u \in Int /\ p * v \in Int
    OBVIOUS
  <2>4. QED
    BY <1>3, <2>2, <2>3
<1>9. p * v + r \in 0..(f - 1)
  <2>1. p * v \in Nat
    OBVIOUS
  <2>2. p * v <= p * (b - 1)
    OBVIOUS
  <2>3. p * (b - 1) = f - p
    BY <1>7
  <2>4. QED
    BY <2>1, <2>2, <2>3
<1>10. n \div f = u
  BY <1>8, <1>9, DivIs
<1>11. QED
  BY <1>1, <1>4, <1>7, <1>10

(* The digits of a number have its value.                                  *)
LEMMA DigitsBack ==
    ASSUME NEW b \in Nat, b > 1, NEW n \in Nat
    PROVE  FromDigits(ToDigits(n, b), b) = n
<1>1. b \in Nat \ {0} /\ b \in Int
  OBVIOUS
<1>2. PICK k \in Nat \ {0} :
         /\ n < Power(b, k)
         /\ ToDigits(n, b) = [i \in 1..k |-> (n \div Power(b, k - i)) % b]
         /\ ToDigits(n, b) \in Seq(0..(b - 1)) /\ Len(ToDigits(n, b)) = k
  BY ToDigitsLength, Zenon DEF HasLength
<1>3. PICK c \in Seq(0..(b - 1)) : c = ToDigits(n, b) /\ Len(c) = k
  BY <1>2
<1>4. BaseDigits(b, c) /\ IntDigits(c) /\ \A i \in 1..k : Digit(c, i) = c[i]
  <2>1. BaseDigits(b, c) /\ \A i \in 1..k : Digit(c, i) = c[i]
    BY <1>1, <1>3 DEF BaseDigits, Digit
  <2>2. QED
    BY <1>1, <2>1, BaseDigitsInt
<1>5. \A j \in Nat : Power(b, j) \in Nat \ {0}
  BY <1>1, PowerPositive
<1> DEFINE K == {i \in Nat : i <= k => Prefix(c, b, i) = n \div Power(b, k - i)}
<1>6. 0 \in K
  <2>1. Prefix(c, b, 0) = 0
    BY <1>1, <1>4, PrefixZero
  <2>2. PICK f \in Nat \ {0} : f = Power(b, k - 0)
    BY <1>5
  <2>3. n \in 0..(f - 1) /\ n = f * 0 + n
    BY <1>2, <2>2
  <2>4. n \div f = 0
    BY <2>3, DivIs
  <2>5. QED
    BY <2>1, <2>2, <2>4
<1>7. ASSUME NEW i \in Nat, i \in K PROVE i + 1 \in K
  <2>1. SUFFICES ASSUME i + 1 <= k PROVE Prefix(c, b, i + 1) = n \div Power(b, k - (i + 1))
    OBVIOUS
  <2>2. PICK j \in Nat : j = k - (i + 1) /\ k - i = j + 1
    BY <2>1
  <2>3. PICK f \in Nat \ {0} : f = Power(b, j)
    BY <1>5
  <2>4. Power(b, k - i) = f * b
    <3>1. Power(b, j + 1) = Power(b, j) * b
      BY <1>1, PowerNext
    <3>2. QED
      BY <2>2, <2>3, <3>1
  <2>5. PICK q \in Nat : q = n \div f
    BY DivTwice
  <2>6. Prefix(c, b, i) = q \div b
    <3>1. Prefix(c, b, i) = n \div Power(b, k - i)
      BY <1>7, <2>1
    <3>2. (n \div f) \div b = n \div (f * b)
      BY <1>1, DivTwice
    <3>3. QED
      BY <2>4, <2>5, <3>1, <3>2
  <2>7. Digit(c, i + 1) = (q % b)
    <3>1. i + 1 \in 1..k
      BY <2>1
    <3>2. c[i + 1] = (n \div Power(b, k - (i + 1))) % b
      BY <1>2, <1>3, <3>1
    <3>3. QED
      BY <1>4, <2>2, <2>3, <2>5, <3>1, <3>2
  <2>8. Prefix(c, b, i + 1) = Prefix(c, b, i) * b + Digit(c, i + 1)
    BY <1>1, <1>4, PrefixNext
  <2>9. q = b * (q \div b) + (q % b)
    BY <1>1
  <2>10. (q \div b) * b = b * (q \div b) /\ q \div b \in Int
    BY <1>1
  <2>11. Prefix(c, b, i + 1) = q
    BY <2>6, <2>7, <2>8, <2>9, <2>10
  <2>12. QED
    BY <2>2, <2>3, <2>5, <2>11
<1> HIDE DEF K
<1>8. k \in K
  BY <1>6, <1>7, NatSetInduction
<1>9. Prefix(c, b, k) = n \div Power(b, k - k)
  BY <1>8 DEF K
<1>10. n \div Power(b, k - k) = n
  <2>1. Power(b, k - k) = 1
    <3>1. k - k = 0
      OBVIOUS
    <3>2. QED
      BY <1>1, <3>1, PowerZero
  <2>2. n \div 1 = n
    OBVIOUS
  <2>3. QED
    BY <2>1, <2>2
<1>11. QED
  BY <1>3, <1>9, <1>10 DEF FromDigits

(* Digits without a leading zero are the digits of their value.            *)
LEMMA DigitsUnique ==
    ASSUME NEW b \in Nat, b > 1, NEW c \in Seq(0..(b - 1)), Len(c) \in Nat \ {0}, c[1] # 0
    PROVE  ToDigits(FromDigits(c, b), b) = c
<1>1. b \in Nat \ {0} /\ b \in Int
  OBVIOUS
<1>2. PICK l \in Nat \ {0} : l = Len(c)
  OBVIOUS
<1>3. BaseDigits(b, c) /\ IntDigits(c) /\ \A i \in 1..l : Digit(c, i) = c[i] /\ c[i] \in 0..(b - 1)
  <2>1. BaseDigits(b, c) /\ \A i \in 1..l : Digit(c, i) = c[i] /\ c[i] \in 0..(b - 1)
    BY <1>1, <1>2 DEF BaseDigits, Digit
  <2>2. QED
    BY <1>1, <2>1, BaseDigitsInt
<1>4. PICK n \in Nat : n = Prefix(c, b, l)
  BY <1>1, <1>3, PrefixBounds
<1>5. HasLength(n, b, l)
  <2>1. n < Power(b, l)
    BY <1>1, <1>3, <1>4, PrefixBounds
  <2>2. n >= Power(b, l - 1)
    <3>1. PICK k \in Nat : k = l - 1 /\ k + 1 = l
      BY <1>2
    <3>2. Digit(c, 1) # 0
      BY <1>3
    <3>3. Prefix(c, b, k + 1) >= Power(b, k)
      BY <1>1, <1>3, <3>2, PrefixLeading
    <3>4. QED
      BY <1>4, <3>1, <3>3
  <2>3. QED
    BY <2>1, <2>2 DEF HasLength
<1>6. ToDigits(n, b) = [i \in 1..l |-> (n \div Power(b, l - i)) % b]
  <2>1. PICK k \in Nat \ {0} :
           /\ HasLength(n, b, k)
           /\ ToDigits(n, b) = [i \in 1..k |-> (n \div Power(b, k - i)) % b]
           /\ ToDigits(n, b) \in Seq(0..(b - 1)) /\ Len(ToDigits(n, b)) = k
    BY ToDigitsLength, Zenon
  <2>2. k = l
    BY <1>5, <2>1, LengthUnique
  <2>3. QED
    BY <2>1, <2>2
<1>7. ASSUME NEW i \in 1..l PROVE (n \div Power(b, l - i)) % b = c[i]
  <2>1. PICK j \in Nat : j = l - i /\ i + j = l /\ i \in Nat
    OBVIOUS
  <2>2. PICK f \in Nat \ {0} : f = Power(b, j)
    BY <1>1, PowerPositive
  <2>3. PICK q \in Nat : q = Prefix(c, b, i)
    BY <1>1, <1>3, <2>1, PrefixBounds
  <2>4. PICK r \in 0..(f - 1) : n = q * f + r
    <3> DEFINE d == [h \in 1..j |-> c[i + h]]
    <3>1. \A h \in 1..j : i + h \in 1..l
      BY <2>1
    <3>2. BaseDigits(b, d) /\ \A h \in 1..j : Digit(d, h) = c[i + h]
      <4>1. \A h \in 1..j : Digit(d, h) = c[i + h]
        BY DEF Digit
      <4>2. \A h \in Nat : h \notin 1..j => Digit(d, h) = 0
        BY DEF Digit
      <4>3. \A h \in 1..j : c[i + h] \in 0..(b - 1)
        BY <1>3, <3>1
      <4>4. 0 \in 0..(b - 1)
        BY <1>1
      <4> HIDE DEF d
      <4>5. QED
        BY <4>1, <4>2, <4>3, <4>4, Zenon DEF BaseDigits
    <3>3. IntDigits(d) /\ \A h \in 1..j : Digit(c, i + h) = Digit(d, h)
      BY <1>1, <1>3, <3>1, <3>2, BaseDigitsInt
    <3> HIDE DEF d
    <3>4. Prefix(c, b, i + j) = Prefix(c, b, i) * Power(b, j) + Prefix(d, b, j)
      BY <1>1, <1>3, <2>1, <3>3, PrefixSplit
    <3>5. Prefix(d, b, j) \in Nat /\ Prefix(d, b, j) < Power(b, j)
      BY <1>1, <3>2, PrefixBounds
    <3>6. PICK r \in Nat : r = Prefix(d, b, j) /\ r < f
      BY <2>2, <3>5
    <3>7. n = q * f + r
      BY <1>4, <2>1, <2>2, <2>3, <3>4, <3>6, Zenon
    <3>8. r \in 0..(f - 1)
      BY <3>6
    <3>9. QED
      BY <3>7, <3>8, Zenon
  <2>5. n \div f = q
    <3>1. n = f * q + r
      BY <2>4
    <3>2. QED
      BY <3>1, DivIs
  <2>6. PICK u \in Nat : u = Prefix(c, b, i - 1)
    <3>1. i - 1 \in Nat
      OBVIOUS
    <3>2. QED
      BY <1>1, <1>3, <3>1, PrefixBounds
  <2>7. q = b * u + c[i]
    <3>1. i - 1 \in Nat /\ (i - 1) + 1 = i
      OBVIOUS
    <3>2. Prefix(c, b, (i - 1) + 1) = Prefix(c, b, i - 1) * b + Digit(c, (i - 1) + 1)
      BY <1>1, <1>3, <3>1, PrefixNext
    <3>3. q = u * b + c[i]
      BY <1>3, <2>3, <2>6, <3>1, <3>2
    <3>4. u * b = b * u
      OBVIOUS
    <3>5. QED
      BY <3>3, <3>4
  <2>8. (q % b) = c[i]
    BY <1>1, <1>3, <2>7, DivIs
  <2>9. QED
    BY <2>1, <2>2, <2>5, <2>8
<1>8. c = [i \in 1..l |-> c[i]]
  BY <1>2
<1>9. ToDigits(n, b) = c
  BY <1>6, <1>7, <1>8
<1>10. QED
  BY <1>2, <1>4, <1>9 DEF FromDigits

(* An integer is shown by its digits and the zeros behind them.            *)
LEMMA IntegerPlain ==
    ASSUME NEW x, Normal(x), IsFinite(x), P(x) >= 0
    PROVE  LET n == x.c \o Zeros(P(x))
           IN  /\ \E neg : Plain(x) = Numeral(neg, n, <<>>, null) /\ (~IsZero(x) => (neg <=> IsNeg(x)))
               /\ n \in Seq(0..9) /\ Len(n) \in Nat \ {0} /\ (~IsZero(x) => n[1] # 0)
               /\ M(x) * Power(10, P(x)) = x.s * FromDigits(n, 10) /\ FromDigits(n, 10) \in Nat
<1> DEFINE n == x.c \o Zeros(P(x))
<1>1. HasDigits(x)
  BY FiniteHasDigits
<1>2. PICK l \in Nat \ {0} : l = Len(x.c)
  BY <1>1 DEF HasDigits
<1>3. PICK e \in Int : e = x.e
  BY <1>1 DEF HasDigits
<1>4. PICK w \in Nat : w = P(x) /\ w = e - l + 1
  <2>1. P(x) = e - l + 1
    BY <1>2, <1>3 DEF P
  <2>2. e - l + 1 \in Int
    OBVIOUS
  <2>3. QED
    BY <2>1, <2>2
<1>5. PICK c \in Seq(0..9) : c = x.c /\ Len(c) = l
  BY <1>1, <1>2 DEF HasDigits
<1>6. n = c \o Zeros(w)
  BY <1>4, <1>5
<1> HIDE DEF n
<1>7. Between(n, c, 0, w)
  BY <1>6, ThenZeros
<1>8. n \in Seq(0..9) /\ Len(n) = l + w
  BY <1>5, <1>7 DEF Between, Decimal
<1>9. n[1] = c[1]
  <2>1. Zeros(w) \in Seq(0..9)
    BY ZerosAre
  <2>2. QED
    BY <1>5, <1>6, <2>1
<1>10. ~IsZero(x) => n[1] # 0
  BY <1>5, <1>9, NormalFacts DEF Leads
<1>11. \E neg : Plain(x) = Numeral(neg, n, <<>>, null) /\ (~IsZero(x) => (neg <=> IsNeg(x)))
  <2> DEFINE zero == x.e = 0 /\ x.c = <<0>>
             neg == IsNeg(x) /\ ~zero
             m == x.c \o Zeros(x.e + 1 - Len(x.c))
  <2>1. ~(x.e < 0) /\ x.e + 1 >= Len(x.c)
    <3>1. ~(e < 0) /\ e + 1 >= l
      BY <1>4
    <3>2. QED
      BY <1>2, <1>3, <3>1, Zenon
  <2>2. Plain(x) = Numeral(neg, m, <<>>, null)
    BY <2>1, Zenon DEF Plain
  <2>3. m = n
    <3>1. e + 1 - l = w
      BY <1>4
    <3>2. x.e + 1 - Len(x.c) = w
      BY <1>2, <1>3, <3>1, Zenon
    <3>3. QED
      BY <1>5, <1>6, <3>2, Zenon
  <2>4. zero => IsZero(x)
    BY DEF IsZero, IsFinite
  <2>5. ~IsZero(x) => (neg <=> IsNeg(x))
    BY <2>4, Zenon
  <2> HIDE DEF neg, m
  <2>6. QED
    BY <2>2, <2>3, <2>5
<1>12. M(x) * Power(10, P(x)) = x.s * FromDigits(n, 10) /\ FromDigits(n, 10) \in Nat
  <2>1. FromDigits(n, 10) = FromDigits(c, 10) * Power(10, w)
    BY <1>7, BetweenValue
  <2>2. PICK v \in Nat : v = FromDigits(c, 10)
    BY ValueNat, TenInt
  <2>3. PICK f \in Nat : f = Power(10, w)
    BY TenInt, PowerPositive
  <2>4. x.s \in Int
    BY <1>1 DEF HasDigits
  <2>5. M(x) = x.s * v
    BY <1>5, <2>2, Zenon DEF M
  <2>6. (x.s * v) * f = x.s * (v * f) /\ v * f \in Nat
    BY <2>4
  <2>7. QED
    BY <1>4, <2>1, <2>2, <2>3, <2>5, <2>6
<1>13. QED
  <2>1. l + w \in Nat \ {0}
    OBVIOUS
  <2>2. QED
    BY <1>8, <1>10, <1>11, <1>12, <2>1, Zenon DEF n

LEMMA DigitsAreText ==
    ASSUME NEW n, Len(n) # 0
    PROVE  LET out == [int |-> n, frac |-> <<>>] IN ~Threw(out) /\ out # Letters
<1>1. Len(<<>>) = 0
  OBVIOUS
<1>2. n # <<>>
  BY <1>1
<1>3. QED
  BY <1>2 DEF Threw, Letters

(* In any base an integer has the digits of that base.                     *)
LEMMA IntegerInBase ==
    ASSUME NEW g, NEW x, Normal(x), IsFinite(x), ~IsZero(x), P(x) >= 0, NEW b \in 2..36
    PROVE  LET n == FromDigits(x.c \o Zeros(P(x)), 10)
               out == [int |-> ToDigits(n, b), frac |-> <<>>]
           IN  ToBase(g, x, b) = Converted(x, out)
<1> DEFINE int == x.c \o Zeros(P(x))
           n == FromDigits(int, 10)
           out == [int |-> ToDigits(n, b), frac |-> <<>>]
<1>1. PICK neg : Plain(x) = Numeral(neg, int, <<>>, null)
  BY IntegerPlain
<1> HIDE DEF int
<1>2. PICK t : t = Plain(x) /\ t.int = int /\ t.frac = <<>>
  <2>1. Numeral(neg, int, <<>>, null).int = int /\ Numeral(neg, int, <<>>, null).frac = <<>>
    BY NumeralIs
  <2>2. QED
    BY <1>1, <2>1, Zenon
<1>3. Convert(g, t.int, t.frac, b, 10, x.s) = out
  BY <1>2, Zenon DEF Convert, ConvertWith, ConvertDigits
<1>4. ToBase(g, x, b) = ToBaseOf(g, x, t, b)
  BY <1>2, Zenon DEF ToBase
<1>5. ToBaseOf(g, x, t, b) = Converted(x, Convert(g, t.int, t.frac, b, 10, x.s))
  BY Zenon DEF ToBaseOf
<1>6. ToBase(g, x, b) = Converted(x, out)
  BY <1>3, <1>4, <1>5, Zenon
<1>7. QED
  BY <1>6 DEF int

(* Rounding to decimal places keeps an integer.                            *)
LEMMA IntegerRounded ==
    ASSUME NEW g, g.rm \in 0..8, NEW x, Normal(x), IsFinite(x), ~IsZero(x), P(x) >= 0, NEW dp \in Nat
    PROVE  Rnd(g, x, dp, 10, FALSE, FALSE) = x
<1>1. HasDigits(x) /\ Leads(x.c) /\ x.c[Len(x.c)] # 0 /\ x = BigNum(x.s, x.e, x.c)
  BY FiniteHasDigits, NormalFacts
<1>2. PICK l \in Nat \ {0} : l = Len(x.c)
  BY <1>1 DEF HasDigits
<1>3. PICK e \in Int : e = x.e
  BY <1>1 DEF HasDigits
<1>4. PICK c \in Seq(0..9) : c = x.c /\ Len(c) = l
  BY <1>1, <1>2 DEF HasDigits
<1>5. PICK i \in Nat : i = x.e + dp + 1 /\ i >= l /\ i >= 1
  <2>1. P(x) = e - l + 1
    BY <1>2, <1>3 DEF P
  <2>2. e + dp + 1 \in Nat /\ e + dp + 1 >= l
    BY <2>1
  <2>3. QED
    BY <1>3, <2>2
<1> DEFINE up == RoundsUp(g.rm, x, i, 10, dp = 0 /\ FALSE, FALSE)
           kept == SubSeq(x.c, 1, IF i < Len(x.c) THEN i ELSE Len(x.c))
           more == IF up THEN Increment(x.e, kept, 10) ELSE [e |-> x.e, c |-> DropTrailingZeros(kept)]
<1>6. ~up
  <2>1. ~(i + 1 \in DOMAIN x.c) /\ ~(i < 0) /\ ~(i + 2 \in DOMAIN x.c)
    BY <1>4, <1>5
  <2>2. ~(2 * (-1) > 10) /\ ~(2 * (-1) = 10)
    OBVIOUS
  <2>3. QED
    BY <2>1, <2>2, Zenon DEF RoundsUp
<1>7. kept = c
  <2>1. kept = SubSeq(c, 1, l)
    BY <1>2, <1>4, <1>5
  <2>2. QED
    BY <1>4, <2>1
<1>8. DropTrailingZeros(c) = c
  <2>1. l \in 1..Len(c) /\ c[l] # 0
    BY <1>1, <1>2, <1>4
  <2>2. PICK d : d = DropTrailingZeros(c)
    OBVIOUS
  <2>3. d \in Seq(0..9) /\ Len(d) \in l..Len(c) /\ \A j \in 1..Len(d) : d[j] = c[j]
    BY <2>1, <2>2, DropTrailing
  <2>4. Len(d) = l
    BY <1>4, <2>3
  <2>5. d = [j \in 1..l |-> d[j]] /\ c = [j \in 1..l |-> c[j]]
    BY <1>4, <2>3, <2>4
  <2>6. [j \in 1..l |-> d[j]] = [j \in 1..l |-> c[j]]
    BY <2>3, <2>4
  <2>7. QED
    BY <2>2, <2>5, <2>6
<1>9. Rnd(g, x, dp, 10, FALSE, FALSE) = BigNum(x.s, more.e, more.c)
  <2>1. i >= 1 /\ ~IsZero(x)
    BY <1>5
  <2>2. QED
    BY <1>5, <2>1, Zenon DEF Rnd
<1>10. more.e = x.e /\ more.c = x.c
  <2>1. more = [e |-> x.e, c |-> DropTrailingZeros(kept)]
    BY <1>6, Zenon
  <2> HIDE DEF more, kept
  <2>2. QED
    BY <1>4, <1>7, <1>8, <2>1
<1>11. QED
  BY <1>1, <1>9, <1>10, Zenon

(* An integer is read back from all its decimal digits.                    *)
LEMMA IntegerRead ==
    ASSUME NEW g \in Settings, NEW x, Normal(x), IsFinite(x), ~IsZero(x), InRange(g, x) = x, P(x) >= 0,
           NEW t, t = Numeral(t.neg, x.c \o Zeros(P(x)), <<>>, null), t.neg <=> IsNeg(x)
    PROVE  New(g, t, FALSE) = x /\ FromNumeral(g, t) = x
<1> DEFINE n == x.c \o Zeros(P(x))
<1>1. HasDigits(x)
  BY FiniteHasDigits
<1>2. PICK l \in Nat \ {0} : l = Len(x.c)
  BY <1>1 DEF HasDigits
<1>3. PICK e \in Int : e = x.e
  BY <1>1 DEF HasDigits
<1>4. PICK w \in Nat : w = P(x) /\ w = e - l + 1
  <2>1. P(x) = e - l + 1
    BY <1>2, <1>3 DEF P
  <2>2. e - l + 1 \in Int
    OBVIOUS
  <2>3. QED
    BY <2>1, <2>2
<1>5. PICK c \in Seq(0..9) : c = x.c /\ Len(c) = l
  BY <1>1, <1>2 DEF HasDigits
<1>6. n = c \o Zeros(w)
  BY <1>4, <1>5
<1> HIDE DEF n
<1>7. Between(n, c, 0, w) /\ n \in Seq(0..9) /\ Len(n) = l + w
  <2>1. Between(n, c, 0, w)
    BY <1>6, ThenZeros
  <2>2. QED
    BY <1>5, <2>1 DEF Between, Decimal
<1>8. ~IsWord(t) /\ t.int = n /\ t.frac = <<>> /\ t.exp = null
  <2>1. PICK neg : neg = t.neg
    OBVIOUS
  <2>2. t = Numeral(neg, n, <<>>, null)
    BY <2>1 DEF n
  <2>3. QED
    BY <2>2, NumeralIs
<1>9. ExponentOrZero(t) = 0
  BY <1>8, Zenon DEF ExponentOrZero
<1>10. Shows(t, x, 0, w)
  <2>1. n \o <<>> = n /\ <<>> \in Seq(0..9)
    BY <1>7
  <2>2. l + w + 0 = 0 + e + 1
    BY <1>4
  <2>3. Len(t.int) + ExponentOrZero(t) = 0 + x.e + 1
    <3>1. Len(t.int) = l + w
      BY <1>7, <1>8, Zenon
    <3>2. QED
      BY <1>3, <1>9, <2>2, <3>1
  <2>4. QED
    BY <1>5, <1>7, <1>8, <2>1, <2>3, Zenon DEF Shows
<1>11. New(g, t, FALSE) = x
  <2>2. 0 \in Nat /\ 0 \in Int
    OBVIOUS
  <2>3. New(g, t, FALSE) = IF IsZero(x) THEN Zero(1) ELSE x
    BY <1>9, <1>10, <2>2, ReadBack
  <2>4. QED
    BY <2>3
<1>12. New(g, t, FALSE) = FromNumeral(g, t)
  BY <1>8, Zenon DEF New
<1>13. QED
  BY <1>11, <1>12

(* Of two bases the digits are read in, the second one is ten.             *)
LEMMA IntegerReadInBase ==
    ASSUME NEW g \in Settings, NEW x, Normal(x), IsFinite(x), ~IsZero(x), InRange(g, x) = x, P(x) >= 0,
           NEW b \in 2..36, NEW t, t.neg <=> IsNeg(x),
           t = Numeral(t.neg, ToDigits(FromDigits(x.c \o Zeros(P(x)), 10), b), <<>>, null)
    PROVE  NewBase(g, t, b) = x
<1> DEFINE n == x.c \o Zeros(P(x))
           v == FromDigits(n, 10)
           d == ToDigits(v, b)
<1>1. n \in Seq(0..9) /\ Len(n) \in Nat \ {0} /\ n[1] # 0 /\ v \in Nat
  BY IntegerPlain
<1>2. PICK u : u = Numeral(t.neg, n, <<>>, null) /\ u.neg = t.neg
  <2>1. PICK neg : neg = t.neg
    OBVIOUS
  <2> HIDE DEF n
  <2>2. PICK u : u = Numeral(neg, n, <<>>, null)
    OBVIOUS
  <2>3. u.neg = neg
    BY <2>2, NumeralIs
  <2>4. QED
    BY <2>1, <2>2, <2>3
<1>3. New(g, u, FALSE) = x /\ FromNumeral(g, u) = x
  BY <1>2, IntegerRead, Zenon
<1> HIDE DEF n
<1>4. ToDigits(v, 10) = n
  <2>1. 0..9 = 0..(10 - 1)
    OBVIOUS
  <2>2. n \in Seq(0..(10 - 1))
    BY <1>1, <2>1
  <2>3. QED
    BY <1>1, <2>2, TenInt, DigitsUnique
<1> HIDE DEF v
<1>5. d \in Seq(0..(b - 1)) /\ Len(d) \in Nat \ {0} /\ FromDigits(d, b) = v
  <2>1. b \in Nat /\ b > 1
    OBVIOUS
  <2>2. d \in Seq(0..(b - 1)) /\ Len(d) \in Nat \ {0}
    BY <1>1, <2>1, ToDigitsLength
  <2>3. FromDigits(d, b) = v
    BY <1>1, <2>1, DigitsBack
  <2>4. QED
    BY <2>2, <2>3
<1>6. t = Numeral(t.neg, d, <<>>, null)
  BY DEF v, n
<1> HIDE DEF d
<1>7. ~IsWord(t) /\ t.int = d /\ t.frac = <<>> /\ t.exp = null
  <2>1. PICK neg : neg = t.neg
    OBVIOUS
  <2>2. t = Numeral(neg, d, <<>>, null)
    BY <1>6, <2>1
  <2>3. QED
    BY <2>2, NumeralIs
<1>8. CASE b = 10
  <2>1. d = n
    BY <1>4, <1>8 DEF d
  <2>2. t = u
    BY <1>2, <1>6, <2>1, Zenon
  <2>3. NewBase(g, t, b) = SetMode(g, x, g.dp, g.rm).value
    BY <1>3, <1>8, <2>2, Zenon DEF NewBase
  <2>4. SetMode(g, x, g.dp, g.rm).value = Rnd([g EXCEPT !.rm = g.rm], x, g.dp, 10, FALSE, FALSE)
    BY DEF SetMode
  <2>5. [g EXCEPT !.rm = g.rm] = g /\ g.rm \in 0..8 /\ g.dp \in Nat
    BY DEF Settings
  <2>6. Rnd(g, x, g.dp, 10, FALSE, FALSE) = x
    BY <2>5, IntegerRounded
  <2>7. QED
    BY <2>3, <2>4, <2>5, <2>6
<1>9. CASE b # 10
  <2>1. IsOfBase(t, b)
    <3>1. d \o <<>> = d
      BY <1>5
    <3>2. \A i \in DOMAIN d : d[i] < b
      BY <1>5
    <3>3. t.exp = null /\ t.int \o t.frac = d
      BY <1>7, <3>1, Zenon
    <3>4. \A h \in ToSet(d) : h < b
      BY <3>2, Zenon DEF ToSet
    <3>5. QED
      BY <3>3, <3>4, Zenon DEF IsOfBase
  <2>2. t.int # <<>>
    BY <1>5, <1>7
  <2>3. \A s : Convert(g, t.int, t.frac, 10, b, s) = [int |-> n, frac |-> <<>>]
    BY <1>4, <1>5, <1>7, Zenon DEF Convert, ConvertWith, ConvertDigits
  <2>4. NewBase(g, t, b) = FromNumeral(g, Numeral(t.neg, n, <<>>, null))
    <3> DEFINE int == IF t.int = <<>> THEN <<0>> ELSE t.int
               s == IF t.neg THEN -1 ELSE 1
               out == Convert(g, int, t.frac, 10, b, s)
    <3>1. b \in 2..36 \ {10} /\ b \in 2..36
      BY <1>9
    <3>2. NewBase(g, t, b) = FromConverted(g, out, t.neg)
      BY <1>7, <1>9, <2>1, <3>1, Zenon DEF NewBase
    <3>3. out = [int |-> n, frac |-> <<>>]
      BY <2>2, <2>3, Zenon
    <3> HIDE DEF out
    <3>4. out.int = n /\ out.frac = <<>>
      BY <3>3
    <3>5. ~Threw(out) /\ out # Letters
      BY <1>1, <3>3, DigitsAreText
    <3>6. QED
      BY <3>2, <3>4, <3>5, Zenon DEF FromConverted
  <2>5. QED
    BY <1>2, <1>3, <1>7, <2>4, Zenon
<1>10. QED
  BY <1>8, <1>9

(* Whatever the result and the settings, toString writes an integer in any *)
(* base without a fraction and with the value it has, and the constructor  *)
(* reads it back in that base, ROUNDING_MODE and DECIMAL_PLACES included.  *)
THEOREM IntegersInBasesRight == Spec => []IntegersInBases
<1>1. TypeOK => IntegersInBases
  <2> SUFFICES ASSUME TypeOK, IsFinite(acc), P(acc) >= 0, NEW b \in Bases, b \in 2..36,
                      NEW t, t = ToBase(settings, acc, b)
               PROVE  /\ t.frac = <<>>
                      /\ (IF t.neg THEN -1 ELSE 1) * FromDigits(t.int, b) = M(acc) * Power(10, P(acc))
                      /\ (acc \in InsideRange /\ ~IsZero(acc)) => NewBase(settings, t, b) = acc
    BY Zenon DEF IntegersInBases
  <2> DEFINE n == acc.c \o Zeros(P(acc))
             v == FromDigits(n, 10)
             d == ToDigits(v, b)
             out == [int |-> d, frac |-> <<>>]
             neg == IsNeg(acc) /\ out # [int |-> <<0>>, frac |-> <<>>]
  <2>1. Normal(acc) /\ settings \in Settings
    BY DEF TypeOK
  <2>2. /\ n \in Seq(0..9) /\ Len(n) \in Nat \ {0} /\ (~IsZero(acc) => n[1] # 0)
        /\ M(acc) * Power(10, P(acc)) = acc.s * v /\ v \in Nat
    BY <2>1, IntegerPlain
  <2>3. ~IsZero(acc) => t = Converted(acc, out)
    BY <2>1, IntegerInBase
  <2> HIDE DEF n, v
  <2>4. b \in Nat /\ b > 1 /\ b \in Int
    OBVIOUS
  <2>5. FromDigits(d, b) = v
    BY <2>2, <2>4, DigitsBack
  <2> HIDE DEF d
  <2>6. ~IsZero(acc) => t = Numeral(neg, d, <<>>, null)
    <3>1. Len(d) # 0
      BY <2>2, <2>4, ToDigitsLength DEF d
    <3>2. ~Threw(out) /\ out # Letters
      BY <3>1, DigitsAreText
    <3>3. QED
      BY <2>3, <3>2, Zenon DEF Converted
  <2>7. ~IsZero(acc) => t.neg = neg /\ t.int = d /\ t.frac = <<>>
    <3> HIDE DEF neg
    <3>1. QED
      BY <2>6, NumeralIs
  <2>8. acc.s \in {-1, 1}
    BY <2>1, FiniteHasDigits DEF HasDigits
  <2>9. CASE IsZero(acc)
    <3>1. M(acc) = 0
      BY <2>1, <2>9, ZeroValue
    <3>2. Power(10, P(acc)) \in Int
      <4>1. P(acc) \in Nat
        BY <2>1, FiniteHasDigits, ValueInt
      <4>2. QED
        BY <4>1, TenInt, PowerInt
    <3>3. t.frac = <<>> /\ t.int = <<0>>
      <4>1. t = Plain(acc) /\ acc.e = 0 /\ acc.c = <<0>>
        BY <2>1, <2>9, NormalFacts DEF ToBase
      <4>2. PICK w : Plain(acc) = Numeral(w, n, <<>>, null)
        BY <2>1, IntegerPlain DEF n
      <4>3. t.int = n /\ t.frac = <<>>
        <5>1. Numeral(w, n, <<>>, null).int = n /\ Numeral(w, n, <<>>, null).frac = <<>>
          BY NumeralIs
        <5>2. QED
          BY <4>1, <4>2, <5>1
      <4>4. n = <<0>>
        <5>1. Len(<<0>>) = 1 /\ <<0>> \o Zeros(0) = <<0>>
          BY DEF Zeros
        <5>2. P(acc) = 0
          BY <4>1, <5>1 DEF P
        <5>3. QED
          BY <4>1, <5>1, <5>2 DEF n
      <4>5. QED
        BY <4>3, <4>4
    <3>4. FromDigits(<<0>>, b) = 0
      <4>1. IntDigits(<<0>>) /\ Len(<<0>>) = 1 /\ \A i \in 1..1 : Digit(<<0>>, i) = 0
        BY DEF IntDigits, Digit
      <4>2. Prefix(<<0>>, b, 1) = 0
        BY <2>4, <4>1, PrefixOfZeros
      <4>3. QED
        BY <4>1, <4>2 DEF FromDigits
    <3>5. QED
      BY <2>9, <3>1, <3>2, <3>3, <3>4
  <2>10. CASE ~IsZero(acc)
    <3>1. v > 0
      <4>1. PICK l \in Nat \ {0} : l = Len(n)
        BY <2>2
      <4>2. Decimal(n, l) /\ n[1] # 0
        BY <2>2, <2>10, <4>1 DEF Decimal
      <4>3. v >= Power(10, l - 1)
        BY <4>2, LeadsValue DEF v
      <4>4. Power(10, l - 1) \in Nat \ {0}
        <5>1. l - 1 \in Nat
          OBVIOUS
        <5>2. QED
          BY <5>1, TenInt, PowerPositive
      <4>5. QED
        BY <2>2, <4>3, <4>4
    <3>2. d # <<0>>
      <4>1. IntDigits(<<0>>) /\ Len(<<0>>) = 1 /\ \A i \in 1..1 : Digit(<<0>>, i) = 0
        BY DEF IntDigits, Digit
      <4>2. Prefix(<<0>>, b, 1) = 0
        BY <2>4, <4>1, PrefixOfZeros
      <4>3. FromDigits(<<0>>, b) = 0
        BY <4>1, <4>2 DEF FromDigits
      <4>4. QED
        BY <2>5, <3>1, <4>3
    <3>3. out # [int |-> <<0>>, frac |-> <<>>]
      BY <3>2
    <3>4. neg <=> IsNeg(acc)
      BY <3>3, Zenon
    <3> HIDE DEF neg
    <3>5. (IF t.neg THEN -1 ELSE 1) = acc.s
      <4>1. (IsNeg(acc) => acc.s = -1) /\ (~IsNeg(acc) => acc.s = 1)
        BY <2>8 DEF IsNeg
      <4>2. QED
        BY <2>7, <2>10, <3>4, <4>1, Zenon
    <3>6. acc \in InsideRange => NewBase(settings, t, b) = acc
      <4>1. SUFFICES ASSUME InRange(settings, acc) = acc PROVE NewBase(settings, t, b) = acc
        BY Zenon DEF InsideRange
      <4>2. t = Numeral(t.neg, ToDigits(FromDigits(acc.c \o Zeros(P(acc)), 10), b), <<>>, null)
        BY <2>6, <2>7, <2>10, Zenon DEF d, v, n
      <4>3. t.neg <=> IsNeg(acc)
        BY <2>7, <2>10, <3>4, Zenon
      <4>4. QED
        <5>1. ASSUME NEW g \in Settings, NEW x, NEW y,
                     Normal(x), IsFinite(x), ~IsZero(x), InRange(g, x) = x, P(x) >= 0, y.neg <=> IsNeg(x),
                     y = Numeral(y.neg, ToDigits(FromDigits(x.c \o Zeros(P(x)), 10), b), <<>>, null)
              PROVE  NewBase(g, y, b) = x
          BY <5>1, IntegerReadInBase, Zenon
        <5>2. QED
          BY <2>1, <2>10, <4>1, <4>2, <4>3, <5>1, ZenonT(60)
    <3>7. QED
      BY <2>2, <2>5, <2>7, <2>10, <3>5, <3>6, Zenon
  <2>11. QED
    BY <2>9, <2>10
<1>2. QED
  BY <1>1, NumbersNormal, PTL
==============================================================================
