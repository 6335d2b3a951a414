--------------------------- MODULE BigNumberText ----------------------------
(***************************************************************************)
(* From text to BigNumber and back: the constructor, toString and the      *)
(* other notations, conversion of bases and fractions.                     *)
(*                                                                         *)
(* A text is a word (NaN, Infinity) or a numeral with the digits before    *)
(* and behind the point and an exponent, null when it is not exponential.  *)
(***************************************************************************)
EXTENDS BigNumber

CONSTANT NumberDigits  \* most significant digits of an argument of number type (15)

Word(w, neg) == [word |-> w, neg |-> neg, int |-> <<>>, frac |-> <<>>, exp |-> null]
Numeral(neg, int, frac, exp) ==
    [word |-> "", neg |-> neg, int |-> int, frac |-> frac, exp |-> exp]

IsWord(t) == t.word # ""

----------------------------------------------------------------------------
(* new BigNumber(n)                                                        *)

ExponentOrZero(t) == IF t.exp = null THEN 0 ELSE t.exp

(* Overflow is looked at before zero, so that 0e(MAX_EXP + 2) is infinite. *)
FromDigitsOf(g, s, e, n, zeros) ==
    IF e > g.maxE THEN Infinity(s)
    ELSE IF zeros = Len(n) \/ e < g.minE THEN Zero(s)
    ELSE BigNum(s, e, DropTrailingZeros(SubSeq(n, zeros + 1, Len(n))))

\* Defect: the exponent does not count the leading zeros.
FromNumeralLeading(g, t) ==
    LET n == t.int \o t.frac
    IN  FromDigitsOf(g, IF t.neg THEN -1 ELSE 1,
                     Len(t.int) + ExponentOrZero(t) - 1, n, LeadingZeros(n))

FromNumeral(g, t) ==
    LET n == t.int \o t.frac
        zeros == LeadingZeros(n)
    IN  FromDigitsOf(g, IF t.neg THEN -1 ELSE 1,
                     Len(t.int) + ExponentOrZero(t) - (zeros + 1), n, zeros)

FromWord(t) == IF t.word = "NaN" THEN NaN ELSE Infinity(IF t.neg THEN -1 ELSE 1)

TooManyDigits(t) == Len(t.int \o t.frac) - LeadingZeros(t.int \o t.frac) > NumberDigits

New(g, t, isNum) ==
    IF IsWord(t) THEN FromWord(t)
    ELSE IF isNum /\ g.errors /\ TooManyDigits(t) THEN BigNumberError
    ELSE FromNumeral(g, t)

----------------------------------------------------------------------------
(* Plain notation, in toString and for the conversion of bases.            *)

Plain(x) ==
    LET digits == Len(x.c)
        zero   == x.e = 0 /\ x.c = <<0>>
    IN  IF x.e < 0 THEN Numeral(IsNeg(x), <<0>>, Zeros(-x.e - 1) \o x.c, null)
        ELSE IF x.e + 1 >= digits
        THEN Numeral(IsNeg(x) /\ ~zero, x.c \o Zeros(x.e + 1 - digits), <<>>, null)
        ELSE Numeral(IsNeg(x), SubSeq(x.c, 1, x.e + 1), SubSeq(x.c, x.e + 2, digits), null)

----------------------------------------------------------------------------
(* Conversion of a base.  The fraction is converted as an integer and      *)
(* divided again; when that rounds up to 1 it carries into the integer.    *)
(* Both go through BigNumbers, so that RANGE decides what comes out.       *)

ConvertDigits(c, baseOut, baseIn) == ToDigits(FromDigits(c, baseIn), baseOut)

\* The word Infinity where the digits of an integer are meant.
Letters == [int |-> <<>>, frac |-> <<>>]

\* What its letters are worth as digits: the capital is not found, -1.
LetterDigits == <<-1, 23, 15, 18, 23, 18, 29, 34>>

\* The page hangs: the loop that puts zeros in front of a fraction never ends.
Endless == [thrown |-> "never ends"]

\* No exception either: a number whose digits are NaN, not computed with here.
Unreadable == [thrown |-> "letters for digits"]

OfDigits(g, c) == FromNumeral(g, Numeral(FALSE, c, <<>>, null))

(* pow of a base, which is more than 1: Math.pow(base, Infinity) is        *)
(* Infinity, for an exponent that is too large.                            *)
PowerOfBase(g, baseIn, n) ==
    IF n > MAX_POWER THEN IfExceptionsThrow(g, Infinity(1))
    ELSE IntegerPower(g, OfDigits(g, ToDigits(baseIn, 10)), n)

DivisorDigits(power, baseOut) ==
    ConvertDigits(IF IsFinite(power) THEN Plain(power).int ELSE LetterDigits, baseOut, 10)

FractionIn(g, dvd, dvs, baseOut, s, isOdd) ==
    Divide(g, dvd, dvs, Len(dvd) - Len(dvs), s, baseOut, isOdd)

Successor(sum, base) ==
    IF Threw(sum) THEN sum
    ELSE IF IsFinite(sum) THEN [int |-> ConvertDigits(Plain(sum).int, base, 10), frac |-> <<>>]
    ELSE Letters

CarryInto(g, n, base) ==
    IF n[Len(n)] < base - 1
    THEN [int |-> SubSeq(n, 1, Len(n) - 1) \o <<n[Len(n)] + 1>>, frac |-> <<>>]
    ELSE Successor(Plus(g, OfDigits(g, ConvertDigits(n, 10, base)), ONE), base)

\* Defect: the carry of the fraction into the integer is forgotten.
WithFractionNoCarry(g, n, f, base) ==
    IF ~IsFinite(f) THEN TypeError
    ELSE IF f.e > 0 THEN Endless
    ELSE IF f.e = 0 THEN [int |-> n, frac |-> <<>>]
    ELSE [int |-> n, frac |-> Zeros(-f.e - 1) \o f.c]

(* The integer n with the fraction f behind it, which may be 1, or not a   *)
(* fraction at all when the divisor was out of range.                      *)
WithFraction(g, n, f, base) ==
    IF ~IsFinite(f) THEN TypeError
    ELSE IF f.e > 0 THEN Endless
    ELSE IF f.e < 0 THEN [int |-> n, frac |-> Zeros(-f.e - 1) \o f.c]
    ELSE IF f.c[1] = 0 THEN [int |-> n, frac |-> <<>>]
    ELSE CarryInto(g, n, base)

DividedBy(g, power, n, frac, baseOut, baseIn, s) ==
    IF Threw(power) THEN power
    ELSE WithFraction(g, n, FractionIn(g, ConvertDigits(frac, baseOut, baseIn),
                                       DivisorDigits(power, baseOut), baseOut, s,
                                       n[Len(n)] % 2 = 1),
                      baseOut)

ConvertWith(g, n, frac, baseOut, baseIn, s) ==
    IF frac = <<>> THEN [int |-> n, frac |-> <<>>]
    ELSE DividedBy(g, PowerOfBase(g, baseIn, Len(frac)), n, frac, baseOut, baseIn, s)

Convert(g, int, frac, baseOut, baseIn, s) ==
    ConvertWith(g, ConvertDigits(int, baseOut, baseIn), frac, baseOut, baseIn, s)

IsOfBase(t, base) ==
    /\ t.exp = null
    /\ \A d \in ToSet(t.int \o t.frac) : d < base

(* The word Infinity has eight letters, the exponent of which is 7.        *)
FromConverted(g, to10, neg) ==
    IF Threw(to10) THEN to10
    ELSE IF to10 # Letters THEN FromNumeral(g, Numeral(neg, to10.int, to10.frac, null))
    ELSE IF g.maxE < 7 THEN Infinity(IF neg THEN -1 ELSE 1)
    ELSE Unreadable

(* new BigNumber(n, base)                                                  *)
NewBase(g, t, base) ==
    LET int == IF t.int = <<>> THEN <<0>> ELSE t.int
        sign == IF t.neg THEN -1 ELSE 1
    IN  CASE base = 10 -> SetMode(g, New(g, t, FALSE), g.dp, g.rm).value
          [] base \notin 2..36 -> IfExceptionsThrow(g, New(g, t, FALSE))
          [] base \in 2..36 \ {10} ->
                IF IsWord(t) THEN FromWord(t)
                ELSE IF ~IsOfBase(t, base) THEN IfExceptionsThrow(g, NaN)
                ELSE FromConverted(g, Convert(g, int, t.frac, 10, base, sign), t.neg)

----------------------------------------------------------------------------
(* toString and format.                                                    *)

Exponential(x) == Numeral(IsNeg(x) /\ ~IsZero(x), <<Head(x.c)>>, Tail(x.c), x.e)

ToS(g, x) ==
    IF ~IsFinite(x) THEN Word(IF IsNaN(x) THEN "NaN" ELSE "Infinity", IsNeg(x))
    ELSE IF x.e <= g.expNeg \/ x.e >= g.expPos THEN Exponential(x)
    ELSE Plain(x)

(* toString(base); ERRORS off ignores a wrong base.                        *)
Converted(x, out) ==
    IF Threw(out) THEN out
    ELSE IF out = Letters THEN Word("Infinity", IsNeg(x))
    ELSE Numeral(IsNeg(x) /\ out # [int |-> <<0>>, frac |-> <<>>], out.int, out.frac, null)

ToBaseOf(g, x, t, base) ==
    IF base \notin 2..36 THEN IfExceptionsThrow(g, t)
    ELSE Converted(x, Convert(g, t.int, t.frac, base, 10, x.s))

(* A zero is shown before the base is looked at.                           *)
ToBase(g, x, base) ==
    IF ~IsFinite(x) THEN ToS(g, x)
    ELSE IF IsZero(x) THEN Plain(x)
    ELSE ToBaseOf(g, x, Plain(x), base)

(* The text of x with its digit number d the last one that is kept, in     *)
(* exponential notation for toE, in either for toP.                        *)
Padded(n, len) == [n EXCEPT !.c = @ \o Zeros(len - Len(@))]

Notation(g, n, d, dp, for) ==
    LET len == IF IsZero(n) THEN dp + 1 ELSE IF for = "toF" THEN n.e + dp + 1 ELSE d + 1
    IN  IF for = "toE" \/ (for = "toP" /\ (d < n.e \/ n.e <= g.expNeg))
        THEN Exponential(Padded(n, len))
        ELSE ToS(g, Padded(n, len))

Format(g, x, d, for) ==
    IF ~IsFinite(x) THEN ToS(g, x)
    ELSE Notation(g, IF Len(x.c) > d + 1 THEN Rnd(g, x, d - x.e, 10, FALSE, FALSE) ELSE x,
                  d, d - x.e, for)

BadPlaces(dp) == dp < 0 \/ dp > MAX

ToE(g, x, dp) ==
    LET all == IF IsFinite(x) THEN Len(x.c) - 1 ELSE 0
    IN  IF dp = null THEN Format(g, x, all, "toE")
        ELSE IF BadPlaces(dp) THEN IfExceptionsThrow(g, Format(g, x, all, "toE"))
        ELSE Format(g, x, dp, "toE")

(* A negative number that is rounded to zero keeps its sign, a negative    *)
(* zero loses it.                                                          *)
WithSignOf(x, t) == IF IsFinite(x) THEN [t EXCEPT !.neg = IsNeg(x) /\ ~IsZero(x)] ELSE t

FixedText(g, x, dp) ==
    IF dp = null \/ BadPlaces(dp) THEN ToS(g, x)
    ELSE WithSignOf(x, Format(g, x, x.e + dp, "toF"))

PlainNotation(g) == [g EXCEPT !.expNeg = -Unbounded, !.expPos = Unbounded]

\* Defect: the exponents of exponential notation are not set back.
ToFKeepsNotation(g, x, dp) ==
    IF dp # null /\ BadPlaces(dp) /\ g.errors THEN [text |-> BigNumberError, settings |-> g]
    ELSE [text |-> FixedText(PlainNotation(g), x, dp), settings |-> PlainNotation(g)]

(* The settings of the notation are set for the call and set back.         *)
ToF(g, x, dp) ==
    IF dp # null /\ BadPlaces(dp) /\ g.errors THEN [text |-> BigNumberError, settings |-> g]
    ELSE [text     |-> FixedText(PlainNotation(g), x, dp),
          settings |-> [PlainNotation(g) EXCEPT !.expNeg = g.expNeg, !.expPos = g.expPos]]

ToP(g, x, sd) ==
    IF sd = null THEN ToS(g, x)
    ELSE IF sd < 1 \/ sd > MAX THEN IfExceptionsThrow(g, ToS(g, x))
    ELSE Format(g, x, sd - 1, "toP")

----------------------------------------------------------------------------
(* toFraction: the convergents n1/d1 of x until the denominator exceeds    *)
(* maxD, and the last fraction before it that is not a convergent.         *)

IntegerOf(x) == IF IsZero(x) THEN Zero(1) ELSE BigNum(1, Len(x.c) - 1, DropTrailingZeros(x.c))
TenTo(e)     == BigNum(1, e, <<1>>)

\* x + q * y
PlusTimes(g, x, q, y) == Plus(g, x, Times(g, q, y))

(* d2 is the denominator of the next convergent, from the quotient q.      *)
NextConvergent(g, f, q, d2, maxD) ==
    IF Gt(d2, maxD) THEN [f EXCEPT !.ended = TRUE]
    ELSE [n0 |-> f.n1, d0 |-> f.d1, n1 |-> PlusTimes(g, f.n0, q, f.n1), d1 |-> d2,
          n |-> f.d, d |-> Minus(g, f.n, Times(g, q, f.d)), ended |-> FALSE]

AfterQuotient(g, f, q, maxD) == NextConvergent(g, f, q, PlusTimes(g, f.d0, q, f.d1), maxD)

Expand(g, f, maxD) == IF f.ended THEN f ELSE AfterQuotient(g, f, Div(g, f.n, f.d), maxD)

Convergents(g, n, d, maxD) ==
    LET first == [n0 |-> Zero(1), d0 |-> ONE, n1 |-> ONE, d1 |-> Zero(1),
                  n |-> n, d |-> d, ended |-> FALSE]
        rounds[k \in 0..MaxRounds] == IF k = 0 THEN first ELSE Expand(g, rounds[k - 1], maxD)
    IN  rounds[MaxRounds]

(* Is maxD no integer from 1 on?  A fraction is let through by ERRORS off. *)
BadDenominator(g, maxD) ==
    \/ IsNaN(maxD) \/ Lt(maxD, ONE) \/ ~IsFinite(maxD)
    \/ g.errors /\ maxD.e < Len(maxD.c) - 1

\* Defect: a convergent is taken for the best fraction there is.
ConvergentIsCloser(off1, off0) == TRUE

(* Is n1/d1 at least as close to x as n0/d0?                               *)
IsCloser(off1, off0) == Cmp(off1, off0) < 1

Off(g, x, n, d) == Abs(Minus(g, Div(g, n, d), x))

Closer(g, x, n0, d0, n1, d1) ==
    IF IsCloser(Off(g, x, n1, d1), Off(g, x, n0, d0)) THEN <<n1, d1>> ELSE <<n0, d0>>

(* The convergent and the last fraction before the next one, with m times  *)
(* the convergent added.                                                   *)
LastTwo(during, fine, x, k, m) ==
    Closer(fine, x, [PlusTimes(during, k.n0, m, k.n1) EXCEPT !.s = x.s],
                    PlusTimes(during, k.d0, m, k.d1),
                    [k.n1 EXCEPT !.s = x.s], k.d1)

Fraction(during, fine, x, k, maxD) ==
    IF ~k.ended THEN null
    ELSE LastTwo(during, fine, x, k, Div(during, Minus(during, maxD, k.d0), k.d1))

ToFr(g, x, maxD) ==
    LET e == Len(x.c) - x.e - 1
        bad == maxD # null /\ BadDenominator(g, maxD)
        limit == IF maxD # null /\ ~bad /\ ~Gt(maxD, TenTo(e)) THEN maxD
                 ELSE IF e > 0 THEN TenTo(e) ELSE ONE
        during == [g EXCEPT !.maxE = Unbounded, !.dp = 0, !.rm = 1]
        fine   == [g EXCEPT !.maxE = Unbounded, !.dp = e * 2]
    IN  IF ~IsFinite(x) THEN [fraction |-> <<x>>, settings |-> g]
        ELSE IF bad /\ g.errors THEN [fraction |-> BigNumberError, settings |-> g]
        ELSE [fraction |-> Fraction(during, fine, x, Convergents(during, IntegerOf(x), TenTo(e), limit), limit),
              settings |-> [fine EXCEPT !.maxE = g.maxE, !.dp = g.dp]]
=============================================================================
