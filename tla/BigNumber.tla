----------------------------- MODULE BigNumber ------------------------------
(***************************************************************************)
(* The arithmetic of bignumber.js as it is contained in json-bigint.js,    *)
(* the library every balance and amount passes through on its way to and   *)
(* from the JSON of the clients.                                           *)
(*                                                                         *)
(* A number has a sign s, an exponent e and a sequence c of digits, the    *)
(* first one of weight 10^e.  The s of NaN is null and c is null for NaN   *)
(* and Infinity; both are falsy in every test of the code, and so are the  *)
(* 0 and <<>> used for them here.  The settings of the library are a       *)
(* record g.  A remainder of a division is an integer; all other digits    *)
(* are computed one by one, with carries and borrows.                      *)
(***************************************************************************)
EXTENDS Powers, Sequences, SequencesExt

CONSTANTS
    MAX,       \* limit of decimal places, precisions and exponents (10^9)
    MAX_POWER, \* limit of the exponent of pow (10^6)
    Unbounded, \* an exponent nothing reaches, for 1/0
    Guess,     \* significant digits Math.sqrt gets right (15 in a double)
    ExtraPlaces, \* decimal places sqrt computes beyond DECIMAL_PLACES (4)
    MaxRounds, \* bound on the rounds of the loops of sqrt and toFr
    null       \* no argument, the comparison with NaN, or no result within MaxRounds

ASSUME BigNumberAssumption ==
    /\ MAX \in Nat \ {0}
    /\ MAX_POWER \in Nat \ {0}
    /\ Unbounded \in Nat
    /\ Guess \in Nat \ {0}
    /\ ExtraPlaces \in Nat
    /\ MaxRounds \in Nat
    /\ null \notin Int

BigNum(s, e, c) == [s |-> s, e |-> e, c |-> c]

(* The form eq and cmp rely on: the first and the last digit of a number   *)
(* are not zero, but for zero itself.                                      *)
Numbers == [s : {-1, 0, 1}, e : Int, c : Seq(0..9)]

Normal(n) ==
    /\ n \in Numbers
    /\ \/ n.c = <<>> /\ n.e = 0
       \/ n.c = <<0>> /\ n.e = 0 /\ n.s # 0
       \/ n.c # <<>> /\ n.c[1] # 0 /\ n.c[Len(n.c)] # 0 /\ n.s # 0

(* The settings, from DECIMAL_PLACES to ERRORS.                             *)
Settings == [dp : Nat, rm : 0..8, expNeg : -MAX..0, expPos : 0..MAX,
             minE : -MAX..-1, maxE : 1..MAX, errors : BOOLEAN]

NaN         == BigNum(0, 0, <<>>)
Infinity(s) == BigNum(s, 0, <<>>)
Zero(s)     == BigNum(s, 0, <<0>>)
ONE         == BigNum(1, 0, <<1>>)

(* An exception ends the call it happens in and all those around it.       *)
TypeError       == [thrown |-> "TypeError"]
BigNumberError  == [thrown |-> "BigNumber Error"]
Threw(r)        == "thrown" \in DOMAIN r

IsFinite(x) == x.c # <<>>
IsNaN(x)    == x.s = 0
IsNeg(x)    == x.s < 0
IsZero(x)   == IsFinite(x) /\ x.c[1] = 0

(* Zero, NaN or Infinity.                                                  *)
IsSpecial(x) == ~IsFinite(x) \/ IsZero(x)

Neg(x) == [x EXCEPT !.s = -@]
Abs(x) == IF IsNeg(x) THEN Neg(x) ELSE x

----------------------------------------------------------------------------
(* Sequences of digits.                                                    *)

Zeros(n)    == [i \in 1..n |-> 0]
Digit(c, i) == IF i \in DOMAIN c THEN c[i] ELSE 0

Significant(c) == {i \in DOMAIN c : c[i] # 0}

DropTrailingZeros(c) == IF Significant(c) = {} THEN <<>> ELSE SubSeq(c, 1, Max(Significant(c)))
LeadingZeros(c)      == IF Significant(c) = {} THEN Len(c) ELSE Min(Significant(c)) - 1

(* The value of the first k digits of c.                                   *)
Prefix(c, base, k) ==
    LET v[i \in Nat] == IF i = 0 THEN 0 ELSE v[i - 1] * base + Digit(c, i)
    IN  v[k]

FromDigits(c, base) == Prefix(c, base, Len(c))

ToDigits(n, base) ==
    LET len == CHOOSE k \in 1..(n + 1) :
                   n < Power(base, k) /\ (k = 1 \/ n >= Power(base, k - 1))
    IN  [i \in 1..len |-> (n \div Power(base, len - i)) % base]

(* Is the part of x after its first i digits rounded away from zero?       *)
RoundsUp(rm, x, i, base, isOdd, rest) ==
    LET there == i + 1 \in DOMAIN x.c
        next  == IF there THEN x.c[i + 1] ELSE -1
        more  == rest \/ i < 0 \/ i + 2 \in DOMAIN x.c
    IN  IF rm < 4
        THEN /\ there \/ more
             /\ rm = 0 \/ (rm = 2 /\ ~IsNeg(x)) \/ (rm = 3 /\ IsNeg(x))
        ELSE \/ 2 * next > base
             \/ /\ 2 * next = base
                /\ \/ rm = 4 \/ more
                   \/ rm = 6 /\ (Digit(x.c, i) % 2 = 1 \/ isOdd)
                   \/ rm = 7 /\ ~IsNeg(x)
                   \/ rm = 8 /\ IsNeg(x)

LowDigits(c, base) == {i \in DOMAIN c : c[i] < base - 1}
AddOneAt(c, i)     == [SubSeq(c, 1, i) EXCEPT ![i] = @ + 1]

\* Defect: the exponent stays when 9.9 is rounded up to 10.
IncrementNoCarry(e, c, base) ==
    IF LowDigits(c, base) = {} THEN [e |-> e, c |-> <<1>>]
    ELSE [e |-> e, c |-> AddOneAt(c, Max(LowDigits(c, base)))]

(* One unit more in the last place; zeros at the end are dropped.          *)
Increment(e, c, base) ==
    IF LowDigits(c, base) = {} THEN [e |-> e + 1, c |-> <<1>>]
    ELSE [e |-> e, c |-> AddOneAt(c, Max(LowDigits(c, base)))]

(* isOdd only counts when dp is 0, for the integer part in a conversion;   *)
(* rest tells that x goes on after its digits.                             *)
Rnd(g, x, dp, base, isOdd, rest) ==
    LET i  == x.e + dp + 1
        up == RoundsUp(g.rm, x, i, base, dp = 0 /\ isOdd, rest)
        kept == SubSeq(x.c, 1, IF i < Len(x.c) THEN i ELSE Len(x.c))
        more == IF up THEN Increment(x.e, kept, base) ELSE [e |-> x.e, c |-> DropTrailingZeros(kept)]
    IN  IF i >= 1 /\ ~IsZero(x) THEN BigNum(x.s, more.e, more.c)
        ELSE IF up THEN BigNum(x.s, -dp, <<1>>) ELSE Zero(x.s)

(* ROUNDING_MODE is set for the call and set back.                         *)
SetMode(g, x, dp, rm) ==
    LET during == [g EXCEPT !.rm = rm]
    IN  [value    |-> IF IsFinite(x) THEN Rnd(during, x, dp, 10, FALSE, FALSE) ELSE x,
         settings |-> [during EXCEPT !.rm = g.rm]]

Ceil(g, x)  == SetMode(g, x, 0, 2)
Floor(g, x) == SetMode(g, x, 0, 3)

----------------------------------------------------------------------------
(* Comparison; null when one of the two is NaN.                            *)

Sgn(n) == IF n > 0 THEN 1 ELSE IF n < 0 THEN -1 ELSE 0

CmpDigits(c, d) ==
    LET differ == {i \in DOMAIN c \cap DOMAIN d : c[i] # d[i]}
    IN  IF differ = {} THEN Sgn(Len(c) - Len(d)) ELSE Sgn(c[Min(differ)] - d[Min(differ)])

Cmp(x, y) ==
    CASE IsNaN(x) \/ IsNaN(y)   -> null
      [] ~IsNaN(x) /\ ~IsNaN(y) /\ (IsZero(x) \/ IsZero(y)) ->
            IF ~IsZero(x) THEN x.s ELSE IF IsZero(y) THEN 0 ELSE -y.s
      [] OTHER ->
            IF x.s # y.s THEN x.s
            ELSE IF ~IsFinite(x) /\ ~IsFinite(y) THEN 0
            ELSE IF ~IsFinite(x) THEN x.s
            ELSE IF ~IsFinite(y) THEN -x.s
            ELSE x.s * IF x.e # y.e THEN Sgn(x.e - y.e) ELSE CmpDigits(x.c, y.c)

Eq(x, y)  == Cmp(x, y) = 0
Gt(x, y)  == Cmp(x, y) = 1
Gte(x, y) == Cmp(x, y) \in {0, 1}
Lt(x, y)  == Cmp(x, y) = -1
Lte(x, y) == Cmp(x, y) \in {0, -1}
----------------------------------------------------------------------------
(* Sums and differences.  Digits are aligned under the larger exponent.    *)

Align(x, top, len) ==
    LET c == Zeros(top - x.e) \o x.c
    IN  [i \in 1..len |-> Digit(c, i)]

Top(x, y) == IF x.e > y.e THEN x.e ELSE y.e

Aligned(x, y) ==
    LET top == Top(x, y)
        len == Max({top - x.e + Len(x.c), top - y.e + Len(y.c)})
    IN  [e |-> top, a |-> Align(x, top, len), b |-> Align(y, top, len)]

SumDigits(a, b) ==
    LET n == Len(a)
        carry[i \in 0..n] == IF i = n THEN 0 ELSE (a[i + 1] + b[i + 1] + carry[i + 1]) \div 10
    IN  [carry |-> carry[0], c |-> [i \in 1..n |-> (a[i] + b[i] + carry[i]) % 10]]

(* A carry out of the top digit may exceed the range: c and e are set to   *)
(* null, and c.length is read next.                                        *)
SumOf(g, s, e, sum) ==
    IF sum.carry = 0 THEN BigNum(s, e, DropTrailingZeros(sum.c))
    ELSE IF e + 1 > g.maxE THEN TypeError
    ELSE BigNum(s, e + 1, DropTrailingZeros(<<sum.carry>> \o sum.c))

(* Two numbers of one sign.                                                *)
AddAligned(g, s, u) == SumOf(g, s, u.e, SumDigits(u.a, u.b))

Add(g, x, y) ==
    CASE ~IsFinite(x) \/ ~IsFinite(y) -> Infinity(x.s)
      [] IsFinite(x) /\ IsZero(y)     -> IF IsZero(x) THEN Zero(x.s) ELSE x
      [] IsZero(x) /\ IsFinite(y) /\ ~IsZero(y) -> y
      [] OTHER -> AddAligned(g, y.s, Aligned(x, y))

DiffDigits(a, b) ==
    LET n == Len(a)
        borrow[i \in 0..n] == IF i < n /\ a[i + 1] - b[i + 1] < borrow[i + 1] THEN 1 ELSE 0
    IN  [i \in 1..n |-> (a[i] - b[i] - borrow[i]) % 10]

DiffOf(g, s, e, diff, zeros) ==
    IF e - zeros < g.minE \/ zeros = Len(diff) THEN Zero(s)
    ELSE BigNum(s, e - zeros, DropTrailingZeros(SubSeq(diff, zeros + 1, Len(diff))))

SubtractDigits(g, s, e, diff) == DiffOf(g, s, e, diff, LeadingZeros(diff))

(* The smaller one is subtracted from the bigger one.                      *)
SubtractAligned(g, s, u) ==
    IF CmpDigits(u.a, u.b) < 0 THEN SubtractDigits(g, -s, u.e, DiffDigits(u.b, u.a))
                               ELSE SubtractDigits(g, s, u.e, DiffDigits(u.a, u.b))

Subtract(g, x, y) ==
    CASE ~IsFinite(x) \/ ~IsFinite(y) ->
            IF IsFinite(x) THEN Neg(y) ELSE IF IsFinite(y) THEN x ELSE NaN
      [] IsFinite(x) /\ IsZero(y)     -> IF IsZero(x) THEN Zero(1) ELSE x
      [] IsZero(x) /\ IsFinite(y) /\ ~IsZero(y) -> Neg(y)
      [] OTHER -> SubtractAligned(g, y.s, Aligned(x, y))

Plus(g, x, y) ==
    IF IsNaN(x) \/ IsNaN(y) THEN NaN
    ELSE IF x.s = y.s THEN Add(g, x, y) ELSE Subtract(g, x, Neg(y))

Minus(g, x, y) ==
    IF IsNaN(x) \/ IsNaN(y) THEN NaN
    ELSE IF x.s = y.s THEN Subtract(g, x, y) ELSE Add(g, x, Neg(y))

----------------------------------------------------------------------------
(* Products.                                                               *)

InRange(g, x) ==
    IF x.e > g.maxE THEN Infinity(x.s) ELSE IF x.e < g.minE THEN Zero(x.s) ELSE x

\* Defect: a row forgets its last carry.
AddRowNoCarry(c, xc, d, k) ==
    LET a == Len(xc)
        carry[j \in 0..a] == IF j = a THEN 0
                              ELSE (c[k + j + 1] + d * xc[j + 1] + carry[j + 1]) \div 10
    IN  [i \in DOMAIN c |->
            IF i <= k \/ i > k + a THEN c[i]
            ELSE (c[i] + d * xc[i - k] + carry[i - k]) % 10]

(* d times xc is added to c, so that the last digit falls on k + Len(xc).  *)
AddRow(c, xc, d, k) ==
    LET a == Len(xc)
        carry[j \in 0..a] == IF j = a THEN 0
                              ELSE (c[k + j + 1] + d * xc[j + 1] + carry[j + 1]) \div 10
    IN  [i \in DOMAIN c |->
            IF i < k \/ i > k + a THEN c[i]
            ELSE IF i = k THEN (c[i] + carry[0]) % 10
            ELSE (c[i] + d * xc[i - k] + carry[i - k]) % 10]

Product(xc, yc) ==
    LET rows[k \in 1..Len(yc) + 1] ==
            IF k > Len(yc) THEN Zeros(Len(xc) + Len(yc)) ELSE AddRow(rows[k + 1], xc, yc[k], k)
    IN  rows[1]

ProductOf(s, e, c) ==
    IF c[1] # 0 THEN BigNum(s, e + 1, DropTrailingZeros(c))
                ELSE BigNum(s, e, DropTrailingZeros(Tail(c)))

Times(g, x, y) ==
    LET s == IF x.s = y.s THEN 1 ELSE -1
    IN  CASE IsNaN(x) \/ IsNaN(y) -> NaN
          [] ~IsNaN(x) /\ ~IsNaN(y) /\ (IsSpecial(x) \/ IsSpecial(y)) ->
                IF (IsZero(x) /\ ~IsFinite(y)) \/ (IsZero(y) /\ ~IsFinite(x)) THEN NaN
                ELSE IF ~IsFinite(x) \/ ~IsFinite(y) THEN Infinity(s)
                ELSE Zero(s)
          [] OTHER -> InRange(g, ProductOf(s, x.e + y.e, Product(x.c, y.c)))

----------------------------------------------------------------------------
(* Long division, in any base.                                             *)

(* After k quotient digits: the remainder with the next digit of the       *)
(* dividend behind it; "left" is false when it is exact and no digit of    *)
(* the dividend is left either.                                            *)
DivideStep(dvd, dvsLen, divisor, base, k, before) ==
    LET rest == before.rem % divisor
        i    == dvsLen + k
    IN  IF ~before.left THEN before
        ELSE [qc   |-> Append(before.qc, before.rem \div divisor),
              rem  |-> rest * base + Digit(dvd, i),
              left |-> rest # 0 \/ i \in DOMAIN dvd]

DivideDigits(dvd, dvsLen, divisor, base, limit) ==
    LET steps[k \in 0..limit] ==
            IF k = 0 THEN [qc |-> <<>>, rem |-> Prefix(dvd, base, dvsLen), left |-> TRUE]
            ELSE DivideStep(dvd, dvsLen, divisor, base, k, steps[k - 1])
    IN  steps[limit]

(* The quotient loses a leading zero, and is rounded if it is too long.    *)
Quotient(s, e, qc) ==
    IF qc[1] = 0 /\ Len(qc) # 1 THEN BigNum(s, e - 1, Tail(qc)) ELSE BigNum(s, e, qc)

QuotientOf(g, s, e, base, isOdd, last) ==
    IF Len(last.qc) > g.dp + e + 1
    THEN Rnd(g, Quotient(s, e, last.qc), g.dp, base, isOdd, last.left)
    ELSE Quotient(s, e, last.qc)

Divide(g, dvd, dvs, exp, s, base, isOdd) ==
    LET dig   == g.dp + exp + 1
        limit == (IF dig < 0 THEN 0 ELSE dig) + 1
    IN  InRange(g, QuotientOf(g, s, exp, base, isOdd,
                       DivideDigits(dvd, Len(dvs), FromDigits(dvs, base), base, limit)))

Div(g, x, y) ==
    LET s == IF x.s = y.s THEN 1 ELSE -1
    IN  CASE IsNaN(x) \/ IsNaN(y) -> NaN
          [] ~IsNaN(x) /\ ~IsNaN(y) /\ (IsSpecial(x) \/ IsSpecial(y)) ->
                IF (IsZero(x) /\ IsZero(y)) \/ (~IsFinite(x) /\ ~IsFinite(y)) THEN NaN
                ELSE IF IsZero(x) \/ ~IsFinite(y) THEN Zero(s)
                ELSE Infinity(s)
          [] OTHER -> Divide(g, x.c, y.c, x.e - y.e, s, 10, FALSE)

(* The quotient is truncated under settings that are then set back.        *)
Mod(g, x, y) ==
    LET during == [g EXCEPT !.dp = 0, !.rm = 1]
        after  == [during EXCEPT !.dp = g.dp, !.rm = g.rm]
        q      == Div(during, x, y)
    IN  [value |->
           CASE IsNaN(x) \/ IsNaN(y) \/ IsZero(y) -> NaN
             [] ~IsNaN(x) /\ ~IsNaN(y) /\ ~IsZero(y) ->
                   IF IsZero(x) \/ Gt(Abs(y), Abs(x)) THEN x
                   ELSE Minus(after, x, Times(after, q, y)),
         settings |-> after]

----------------------------------------------------------------------------
(* Powers, rounding and square roots.                                      *)

(* An argument that is refused is ignored when ERRORS is off.              *)
IfExceptionsThrow(g, otherwise) == IF g.errors THEN BigNumberError ELSE otherwise

(* Math.pow(x, Infinity) and Math.pow(x, -Infinity).                       *)
MathPow(x, up) ==
    LET c == Cmp(Abs(x), ONE)
    IN  IF IsNaN(x) \/ c = 0 THEN NaN ELSE IF (c = 1) = up THEN Infinity(1) ELSE Zero(1)

(* i is what is left of the exponent, r is x to what is done of it.        *)
MultiplyAndSquare(g, p) ==
    IF p.i = 0 THEN p
    ELSE [i |-> p.i \div 2,
          x |-> IF p.i \div 2 = 0 THEN p.x ELSE Times(g, p.x, p.x),
          r |-> IF p.i % 2 = 1 THEN Times(g, p.r, p.x) ELSE p.r]

IntegerPower(g, x, n) ==
    LET rounds[k \in 0..n] == IF k = 0 THEN [i |-> n, x |-> x, r |-> ONE]
                              ELSE MultiplyAndSquare(g, rounds[k - 1])
    IN  rounds[n].r

Pow(g, x, e) ==
    CASE e < -MAX_POWER \/ e > MAX_POWER -> IfExceptionsThrow(g, MathPow(x, e > 0))
      [] e = 0 -> ONE
      [] e \in 1..MAX_POWER  -> IntegerPower(g, x, e)
      [] -e \in 1..MAX_POWER -> Div(g, ONE, IntegerPower(g, x, -e))

(* dp and rm may both be left out.                                         *)
Round(g, x, dp, rm) ==
    LET badDp == dp # null /\ (dp < 0 \/ dp > MAX)
        badRm == rm # null /\ (rm < 0 \/ rm > 8)
    IN  IF g.errors /\ (badDp \/ badRm) THEN [value |-> BigNumberError, settings |-> g]
        ELSE SetMode(g, x, IF dp = null \/ badDp THEN 0 ELSE dp,
                           IF rm = null \/ badRm THEN g.rm ELSE rm)

(* Math.sqrt of a number, to Guess digits.                                 *)
Estimate(x) ==
    LET shift == 2 * Guess - (IF (x.e % 2) = 0 THEN 1 ELSE 0) - Len(x.c)
        n     == FromDigits(IF shift >= 0 THEN x.c \o Zeros(shift)
                                          ELSE SubSeq(x.c, 1, Len(x.c) + shift), 10)
        root  == CHOOSE r \in 1..Power(10, Guess) : r * r <= n /\ (r + 1) * (r + 1) > n
    IN  BigNum(1, x.e \div 2, DropTrailingZeros(ToDigits(root, 10)))

(* slice(0, i) of the digits; a negative i counts from the end.            *)
Slice(c, i) ==
    SubSeq(c, 1, IF i >= Len(c) THEN Len(c) ELSE IF i >= 0 THEN i
                 ELSE IF Len(c) + i > 0 THEN Len(c) + i ELSE 0)

(* Half of the sum of approx and x / approx.  The loop reads the digits of *)
(* it, which infinity has none of.                                         *)
Half(g, sum) == Times(g, BigNum(1, -1, <<5>>), sum)

WithDigits(r)        == IF IsFinite(r) THEN r ELSE TypeError
HalfOf(g, sum)       == IF Threw(sum) THEN sum ELSE WithDigits(Half(g, sum))
Better(g, x, approx) == HalfOf(g, Plus(g, approx, Div(g, x, approx)))

(* A round of Newton's iteration, unless the last one has ended it.        *)
NextApprox(approx, r, i) ==
    [r |-> r, ended |-> Threw(r) \/ (~Threw(r) /\ Slice(approx.c, i) = Slice(r.c, i))]

Newton(g, x, i, a) == IF a.ended THEN a ELSE NextApprox(a.r, Better(g, x, a.r), i)

Root(g, x, estimate) ==
    LET i == estimate.e + g.dp
        rounds[k \in 0..MaxRounds] == IF k = 0 THEN [r |-> estimate, ended |-> FALSE]
                                      ELSE Newton(g, x, i, rounds[k - 1])
    IN  rounds[MaxRounds]

RootOfSpecial(x) == IF IsNaN(x) \/ (IsNeg(x) /\ ~IsZero(x)) THEN NaN ELSE x

(* An exception leaves the settings of the iteration behind.               *)
RoundedRoot(g, during, a) ==
    IF ~a.ended THEN [value |-> null, settings |-> during]
    ELSE IF Threw(a.r) THEN [value |-> a.r, settings |-> during]
    ELSE [value |-> Rnd(g, a.r, g.dp, 10, FALSE, FALSE), settings |-> g]

\* Defect: the iteration has no more places than its result.
SqrtFewPlaces(g, x) ==
    IF x.s # 1 \/ IsSpecial(x) THEN [value |-> RootOfSpecial(x), settings |-> g]
    ELSE RoundedRoot(g, g, Root(g, x, Estimate(x)))

(* Newton's iteration, with some decimal places more, until the leading    *)
(* digits repeat.                                                          *)
Sqrt(g, x) ==
    LET during == [g EXCEPT !.dp = @ + ExtraPlaces]
    IN  IF x.s # 1 \/ IsSpecial(x) THEN [value |-> RootOfSpecial(x), settings |-> g]
        ELSE RoundedRoot(g, during, Root(during, x, Estimate(x)))
=============================================================================
