---------------------------- MODULE BigNumberLib ----------------------------
(***************************************************************************)
(* A page that uses the library: it changes the settings, which all its    *)
(* numbers share, and computes with the last result, acc.  The properties  *)
(* compare every operation, at every result and under all the settings     *)
(* that are reached, with the arithmetic of integers and fractions.        *)
(***************************************************************************)
EXTENDS BigNumberText, DecimalValues

CONSTANTS
    Defaults,  \* the settings the library starts with
    Options,   \* arguments of config
    Operands,  \* second operands, NaN and the infinities among them
    Texts,     \* texts handed to the constructor, of decimal digits
    Exponents, \* exponents for pow
    Places,    \* decimal places, null and wrong ones among them
    Bases,     \* bases
    MaxDigits, \* bound on the digits of a result that is kept
    MaxExp     \* bound on its exponent, up or down

VARIABLES
    settings,  \* DECIMAL_PLACES to ERRORS
    acc        \* the last result

vars == <<settings, acc>>

ASSUME LibAssumption ==
    /\ Defaults \in Settings
    /\ \A o \in Options :
          /\ o.dp \in Int \cup {null} /\ o.rm \in Int \cup {null}
          /\ o.errors \in Int \cup {null}
          /\ o.expAt = null \/ o.expAt \in Int \X Int
          /\ o.range = null \/ o.range \in Int \X Int
    /\ \A y \in Operands : Normal(y)
    /\ \A t \in Texts :
          /\ t.word \in {"", "NaN", "Infinity"} /\ t.neg \in BOOLEAN
          /\ t.int \in Seq(0..9) /\ t.frac \in Seq(0..9)
          /\ t.exp \in Int \cup {null}
    /\ Exponents \subseteq Int
    /\ Places \subseteq Int \cup {null}
    /\ Bases \subseteq Int
    /\ MaxExp \in Nat /\ MAX + MaxExp < Unbounded  \* no exponent is an infinite one

----------------------------------------------------------------------------
(* config: the options are looked at one by one.  A wrong one throws, with *)
(* those before it in force, or is ignored when ERRORS is off.             *)

\* Defect: an exponent range in the wrong order is let in.
InBoundsAnyOrder(pair, lo, hi) == pair[1] \in lo[1]..hi[2] /\ pair[2] \in lo[1]..hi[2]

InBounds(pair, lo, hi) == pair[1] \in lo[1]..lo[2] /\ pair[2] \in hi[1]..hi[2]

ValidOption(name, v) ==
    CASE name = "dp"     -> v \in 0..MAX
      [] name = "rm"     -> v \in 0..8
      [] name = "expAt"  -> InBounds(v, <<-MAX, 0>>, <<0, MAX>>)
      [] name = "range"  -> InBounds(v, <<-MAX, -1>>, <<1, MAX>>)
      [] name = "errors" -> v \in {0, 1}

Put(g, name, v) ==
    CASE name = "dp"     -> [g EXCEPT !.dp = v]
      [] name = "rm"     -> [g EXCEPT !.rm = v]
      [] name = "expAt"  -> [g EXCEPT !.expNeg = v[1], !.expPos = v[2]]
      [] name = "range"  -> [g EXCEPT !.minE = v[1], !.maxE = v[2]]
      [] name = "errors" -> [g EXCEPT !.errors = (v = 1)]

Option(before, name, v) ==
    IF before.threw \/ v = null THEN before
    ELSE IF ValidOption(name, v) THEN [before EXCEPT !.settings = Put(@, name, v)]
    ELSE [before EXCEPT !.threw = before.settings.errors]

Configured(g, o) ==
    LET dp    == Option([settings |-> g, threw |-> FALSE], "dp", o.dp)
        rm    == Option(dp, "rm", o.rm)
        expAt == Option(rm, "expAt", o.expAt)
        range == Option(expAt, "range", o.range)
    IN  Option(range, "errors", o.errors)

----------------------------------------------------------------------------
Fits(r) == Len(r.c) <= MaxDigits /\ r.e \in -MaxExp..MaxExp

(* An operation gives r and leaves the settings g behind.                  *)
Returns(r, g) ==
    /\ settings' = g
    /\ IF Threw(r) THEN acc' = acc ELSE Fits(r) /\ acc' = r

Gives(r) == Returns(r.value, r.settings)

(* It gives a text, or an exception.                                       *)
Prints(t, g) == t # null /\ settings' = g /\ UNCHANGED acc

PrintsFixed(r)    == Prints(r.text, r.settings)
PrintsFraction(r) == Prints(r.fraction, r.settings)

Init == settings = Defaults /\ acc = ONE

Config ==
    /\ \E o \in Options : settings' = Configured(settings, o).settings
    /\ UNCHANGED acc

Construct  == \E t \in Texts, isNum \in BOOLEAN : Returns(New(settings, t, isNum), settings)
Conversion == \E t \in Texts, b \in Bases : Returns(NewBase(settings, t, b), settings)

PlusCall  == \E y \in Operands : Returns(Plus(settings, acc, y), settings)
MinusCall == \E y \in Operands : Returns(Minus(settings, acc, y), settings)
TimesCall == \E y \in Operands : Returns(Times(settings, acc, y), settings)
DivCall   == \E y \in Operands : Returns(Div(settings, acc, y), settings)
ModCall   == \E y \in Operands : Gives(Mod(settings, acc, y))

NegCall   == Returns(Neg(acc), settings)
AbsCall   == Returns(Abs(acc), settings)
CeilCall  == Gives(Ceil(settings, acc))
FloorCall == Gives(Floor(settings, acc))
SqrtCall  == Sqrt(settings, acc).value # null /\ Gives(Sqrt(settings, acc))
PowCall   == \E e \in Exponents : Returns(Pow(settings, acc, e), settings)
RoundCall == \E dp \in Places, rm \in Places : Gives(Round(settings, acc, dp, rm))

ToSCall  == \E b \in Bases : Prints(ToBase(settings, acc, b), settings)
ToECall  == \E dp \in Places : Prints(ToE(settings, acc, dp), settings)
ToPCall  == \E sd \in Places : Prints(ToP(settings, acc, sd), settings)
ToFCall  == \E dp \in Places : PrintsFixed(ToF(settings, acc, dp))
ToFrCall == \E y \in Operands \cup {null} : PrintsFraction(ToFr(settings, acc, y))

Next ==
    \/ Config \/ Construct \/ Conversion
    \/ PlusCall \/ MinusCall \/ TimesCall \/ DivCall \/ ModCall
    \/ NegCall \/ AbsCall \/ CeilCall \/ FloorCall \/ SqrtCall \/ PowCall \/ RoundCall
    \/ ToSCall \/ ToECall \/ ToPCall \/ ToFCall \/ ToFrCall

Spec == Init /\ [][Next]_vars

----------------------------------------------------------------------------
(* The operations against the integers of DecimalValues.                   *)

InsideRange    == {n \in Operands \cup {acc} : InRange(settings, n) = n}
FiniteOperands == {y \in Operands : IsFinite(y)}

----------------------------------------------------------------------------
(* Numbers are in the one form eq and cmp rely on, and the settings are    *)
(* ones config would accept, after any sequence of calls.                  *)
TypeOK == Normal(acc) /\ settings \in Settings

SumsAndProductsExact ==
    IsFinite(acc) => \A y \in FiniteOperands :
        LET p == LowerOf(P(acc), P(y))
            sum  == At(M(acc), P(acc), p) + At(M(y), P(y), p)
            diff == At(M(acc), P(acc), p) - At(M(y), P(y), p)
            add  == Plus(settings, acc, y)
            sub  == Minus(settings, acc, y)
        IN  /\ IF Threw(add) THEN ExponentOf(sum, p) > settings.maxE ELSE IsResult(settings, add, sum, p)
            /\ IF Threw(sub) THEN ExponentOf(diff, p) > settings.maxE ELSE IsResult(settings, sub, diff, p)
            /\ IsResult(settings, Times(settings, acc, y), M(acc) * M(y), P(acc) + P(y))

RemainderFits ==
    IsFinite(acc) => \A y \in {z \in FiniteOperands : ~IsZero(z)} :
        LET p == LowerOf(P(acc), P(y))
            a == At(M(acc), P(acc), p)
            b == AbsInt(At(M(y), P(y), p))
            rest == AbsInt(a) % b
            r == Mod(settings, acc, y).value
        IN  (acc \in InsideRange /\ y \in InsideRange /\ ExponentOf(AbsInt(a) \div b, 0) <= settings.maxE) =>
                IsResult(settings, r, IF a < 0 THEN -rest ELSE rest, p)

ComparisonIsOrder ==
    \A y \in Operands :
        /\ IsNaN(acc) \/ IsNaN(y) <=> Cmp(acc, y) = null
        /\ (IsFinite(acc) /\ IsFinite(y)) =>
              LET p == LowerOf(P(acc), P(y))
              IN  Cmp(acc, y) = Sgn(At(M(acc), P(acc), p) - At(M(y), P(y), p))
        /\ ~IsNaN(acc) /\ ~IsNaN(y) /\ ~(IsFinite(acc) /\ IsFinite(y)) =>
              Cmp(acc, y) = Sgn((IF IsFinite(acc) THEN 0 ELSE acc.s) - (IF IsFinite(y) THEN 0 ELSE y.s))

(* plus, minus and times are exact, however many digits carry or borrow,   *)
(* so that no amount of Ether changes by being added up in the page.  cmp  *)
(* orders the numbers as their values are, the infinities at the ends, a   *)
(* NaN unordered and the two zeros equal.  A remainder makes up for what   *)
(* the integer quotient leaves, is smaller than the divisor and has the    *)
(* sign of the dividend, whatever the places and the mode are set to, for  *)
(* an integer quotient in range.                                           *)
ArithmeticExact == SumsAndProductsExact /\ ComparisonIsOrder /\ RemainderFits

(* div is the exact quotient, rounded once to DECIMAL_PLACES in the        *)
(* ROUNDING_MODE, from a long division that stops after those digits.      *)
QuotientRounded ==
    IsFinite(acc) => \A y \in {z \in FiniteOperands : ~IsZero(z)} :
        IsResult(settings, Div(settings, acc, y),
                 RoundedTo(M(acc), M(y), P(acc) - P(y), settings.dp, settings.rm),
                 -settings.dp)

(* A root is the rounded one.  The iteration may end below or on the exact *)
(* root, so that rounding up is left out (see UpwardRoot).                 *)
IsRoot(r, n, k, unit) ==
    LET y == IF k >= 0 THEN n * Power(10, 2 * k) ELSE n
        q == At(M(r), P(r), -settings.dp) * unit
    IN  CASE settings.rm \in {1, 3} -> q * q <= y /\ y < (q + unit) * (q + unit)
          [] settings.rm \in 4..8 -> /\ 2 * q <= unit \/ (2 * q - unit) * (2 * q - unit) <= 4 * y
                                     /\ 4 * y <= (2 * q + unit) * (2 * q + unit)
          [] OTHER -> TRUE

(* The number is n * 10^u, u even, and the root to DECIMAL_PLACES is a     *)
(* multiple of unit when u has more places than the root.                  *)
RootRounded ==
    (IsFinite(acc) /\ ~IsNeg(acc) /\ ~IsZero(acc)) =>
        LET u == P(acc) - (P(acc) % 2)
            k == settings.dp + u \div 2
        IN  \A r \in {Sqrt(settings, acc).value} :
                Threw(r) \/ IsRoot(r, At(M(acc), P(acc), u), k, IF k >= 0 THEN 1 ELSE Power(10, -k))

(* The settings change in config alone: the operations that work under     *)
(* others (mod, round, toF, toFr) all set them back.  sqrt does so too,    *)
(* unless an exception ends it: then DECIMAL_PLACES stays larger.          *)
SqrtThrows == SqrtCall /\ Threw(Sqrt(settings, acc).value)

SettingsOnlyByConfig ==
    [][settings' # settings =>
          Config \/ (SqrtThrows /\ settings' = [settings EXCEPT !.dp = @ + ExtraPlaces])]_vars

----------------------------------------------------------------------------
(* The value of a text m * 10^p.                                           *)
TextM(t) == (IF t.neg THEN -1 ELSE 1) * FromDigits(t.int \o t.frac, 10)
TextP(t) == (IF t.exp = null THEN 0 ELSE t.exp) - Len(t.frac)

(* Every notation that keeps all digits is read back as the same number;   *)
(* only the sign of a negative zero is lost.                               *)
TextRoundTrip ==
    acc \in InsideRange =>
        \A t \in {ToS(settings, acc), ToE(settings, acc, null), ToP(settings, acc, null),
                  ToF(settings, acc, null).text} :
            New(settings, t, FALSE) = IF IsZero(acc) THEN Zero(1) ELSE acc

(* toF(dp) shows exactly dp digits behind the point, and toP(sd) at least  *)
(* sd digits; both show acc rounded in ROUNDING_MODE.                      *)
ShownRounded ==
    IsFinite(acc) => \A n \in Places \cap 0..MAX :
        LET f == ToF(settings, acc, n).text
            t == ToP(settings, acc, n)
            shift == acc.e - n + 1
        IN  /\ Len(f.frac) = n /\ f.exp = null
            /\ SameValue(TextM(f), TextP(f), RoundedTo(M(acc), 1, P(acc), n, settings.rm), -n)
            /\ (n > 0 /\ ~IsZero(acc)) =>
                  SameValue(TextM(t), TextP(t), RoundedTo(M(acc), 1, P(acc), -shift, settings.rm), shift)

(* The fraction toFr gives for acc, as integers n/d next to acc = xn/xd.   *)
AsIntegers(f) ==
    [n  |-> At(M(f[1]), P(f[1]), 0), d |-> At(M(f[2]), P(f[2]), 0),
     xn |-> IF P(acc) >= 0 THEN At(M(acc), P(acc), 0) ELSE M(acc),
     xd |-> IF P(acc) >= 0 THEN 1 ELSE Power(10, -P(acc))]

FractionOf(limit) == AsIntegers(ToFr(settings, acc, limit).fraction)

InLowestTerms(f) ==
    /\ f.n * f.xd = f.xn * f.d
    /\ \A k \in 1..(f.d - 1) : (f.xn * k) % f.xd # 0

Limits == {d \in FiniteOperands : ~BadDenominator(settings, d)}

(* Of the fractions up to the limit, is f the closest to acc, but for some *)
(* units of twice the places of acc?                                       *)
ClosestBut(units, f, limit) ==
    LET last == RoundedTo(M(limit), 1, P(limit), 0, 1)
        away == AbsInt(f.n * f.xd - f.xn * f.d)
    IN  /\ f.d \in 1..last
        /\ \A k \in 1..last : \A q \in {(f.xn * k) \div f.xd, (f.xn * k) \div f.xd + 1} :
              (away * k - AbsInt(q * f.xd - f.xn * k) * f.d) * f.xd <= units * f.d * k

(* toFr() without a limit is acc in lowest terms.  With one, no fraction   *)
(* within the limit is closer to acc by more than two units of the places  *)
(* the last two candidates are compared with (twice those of acc), each of *)
(* them rounded, if distances of so many places are in range.              *)
FractionClosest ==
    IsFinite(acc) =>
        /\ InLowestTerms(FractionOf(null))
        /\ 2 * P(acc) >= settings.minE =>
              \A limit \in Limits : ClosestBut(2, FractionOf(limit), limit)
        /\ \A limit \in Operands \ Limits :
              \A f \in {ToFr(settings, acc, limit).fraction} :
                  IF settings.errors THEN Threw(f) ELSE InLowestTerms(AsIntegers(f))

(* An even base shows acc rounded to DECIMAL_PLACES of that base.          *)
ShownIs(t, b, n) ==
    (IF t.neg THEN -1 ELSE 1) * FromDigits(t.int \o t.frac, b) * Power(b, settings.dp - Len(t.frac)) = n

RoundedIn(b, rm) ==
    LET one == Power(b, settings.dp)
    IN  IF P(acc) >= 0 THEN M(acc) * Power(10, P(acc)) * one ELSE RoundedInt(M(acc) * one, Power(10, -P(acc)), rm)

(* Every base shows an integer exactly, and it is read back from it.       *)
IntegersInBases ==
    (IsFinite(acc) /\ P(acc) >= 0) => \A b \in Bases \cap 2..36 : \A t \in {ToBase(settings, acc, b)} :
        /\ t.frac = <<>>
        /\ (IF t.neg THEN -1 ELSE 1) * FromDigits(t.int, b) = M(acc) * Power(10, P(acc))
        /\ (acc \in InsideRange /\ ~IsZero(acc)) => NewBase(settings, t, b) = acc

(* RANGE has room for a fraction in a base: div makes a quotient of fewer  *)
(* places than DECIMAL_PLACES zero if RANGE says so, the divisor is a      *)
(* power of ten and a carry may need one digit more.                       *)
RangeHolds ==
    settings.minE <= -settings.dp /\ -P(acc) <= settings.maxE /\ acc.e < settings.maxE

FractionsInBases ==
    (IsFinite(acc) /\ P(acc) < 0 /\ RangeHolds) => \A b \in Bases \cap 2..36 :
        b % 2 = 0 => ShownIs(ToBase(settings, acc, b), b, RoundedIn(b, settings.rm))

BasesRounded == IntegersInBases /\ FractionsInBases

----------------------------------------------------------------------------
(* What comments of the library say and the code does not do.              *)

(* Above MAX_EXP plus is Infinity (json-bigint.js:1700): it never throws.  *)
SumsOverflow == \A y \in Operands : ~Threw(Plus(settings, acc, y))

(* Above the maximum exponent overflow to Infinity occurs                  *)
(* (json-bigint.js:425), when a number is rounded up too.                  *)
RoundingOverflows ==
    (IsFinite(acc) /\ acc \in InsideRange) => Ceil(settings, acc).value.e <= settings.maxE

(* A number in a base is rounded according to DECIMAL_PLACES and           *)
(* ROUNDING_MODE (json-bigint.js:2162-2164), in odd bases too.             *)
OddBasesRounded ==
    IsFinite(acc) => \A b \in {3, 5} :
        ShownIs(ToBase(settings, acc, b), b, RoundedIn(b, settings.rm))

(* The fraction that is closer to acc of the last two candidates           *)
(* (json-bigint.js:2124): their distances are rounded before they are      *)
(* compared, so that the other one may be chosen.                          *)
CloserFraction ==
    IsFinite(acc) => \A limit \in Limits : ClosestBut(0, FractionOf(limit), limit)

(* A root is rounded according to ROUNDING_MODE (json-bigint.js:1810-1811),*)
(* upwards too.                                                            *)
UpwardRoot ==
    LET u == P(acc) - (P(acc) % 2)
        k == settings.dp + u \div 2
    IN  (IsFinite(acc) /\ ~IsNeg(acc) /\ ~IsZero(acc) /\ settings.rm \in {0, 2} /\ k >= 0) =>
            \A r \in {Sqrt(settings, acc).value}, n \in {At(M(acc), P(acc), u) * Power(10, 2 * k)} :
                \A q \in {At(M(r), P(r), -settings.dp)} : (q - 1) * (q - 1) < n /\ n <= q * q
=============================================================================
