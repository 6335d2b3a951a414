------------------------------- MODULE Powers -------------------------------
(* Powers with a natural exponent, as a recursive function that can be     *)
(* reasoned about.                                                         *)
EXTENDS Integers

Power(base, n) ==
    LET p[i \in Nat] == IF i = 0 THEN 1 ELSE p[i - 1] * base
    IN  p[n]
=============================================================================
