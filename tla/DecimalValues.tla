---------------------------- MODULE DecimalValues ---------------------------
(***************************************************************************)
(* What the properties of BigNumber compare its results with: integers,    *)
(* powers of ten and the rounding of a quotient of integers.               *)
(***************************************************************************)
EXTENDS BigNumber

(* The reference: a finite number is m * 10^p, with integers m and p.      *)
M(n) == n.s * FromDigits(n.c, 10)
P(n) == n.e - Len(n.c) + 1

At(m, p, q) == m * Power(10, p - q)

LowerOf(a, b) == IF a < b THEN a ELSE b
AbsInt(n)     == IF n < 0 THEN -n ELSE n

SameValue(m, p, n, q) == At(m, p, LowerOf(p, q)) = At(n, q, LowerOf(p, q))

ExponentOf(m, p) == Len(ToDigits(AbsInt(m), 10)) - 1 + p

(* r is m * 10^p, or the infinity or zero a value out of range becomes.    *)
IsResult(g, r, m, p) ==
    \/ IsFinite(r) /\ SameValue(M(r), P(r), m, p)
    \/ m # 0 /\ ExponentOf(m, p) > g.maxE /\ r = Infinity(IF m < 0 THEN -1 ELSE 1)
    \/ m # 0 /\ ExponentOf(m, p) < g.minE /\ IsZero(r)

(* num/den rounded to an integer.                                          *)
RoundedInt(num, den, rm) ==
    LET neg  == (num < 0) # (den < 0)
        a    == AbsInt(num)
        b    == AbsInt(den)
        q    == a \div b
        r    == a % b
        away == CASE rm = 0 -> r > 0
                  [] rm = 1 -> FALSE
                  [] rm = 2 -> r > 0 /\ ~neg
                  [] rm = 3 -> r > 0 /\ neg
                  [] rm \in 4..8 -> \/ r > b - r
                                    \/ /\ r = b - r
                                       /\ CASE rm = 4 -> TRUE
                                            [] rm = 5 -> FALSE
                                            [] rm = 6 -> q % 2 = 1
                                            [] rm = 7 -> ~neg
                                            [] rm = 8 -> neg
        n    == IF away THEN q + 1 ELSE q
    IN  IF neg THEN -n ELSE n

(* (m/n) * 10^p to dp decimal places, in units of the last one.            *)
RoundedTo(m, n, p, dp, rm) ==
    IF p + dp >= 0 THEN RoundedInt(m * Power(10, p + dp), n, rm)
                   ELSE RoundedInt(m, n * Power(10, -p - dp), rm)
=============================================================================
