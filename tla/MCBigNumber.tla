---------------------------- MODULE MCBigNumber -----------------------------
(* Values for the runs of BigNumberLib.                                    *)
EXTENDS BigNumberLib

MCDefaults == [dp |-> 1, rm |-> 4, expNeg |-> -2, expPos |-> 3,
               minE |-> -9, maxE |-> 9, errors |-> TRUE]

Set(places, mode, expAt, range, errors) ==
    [dp |-> places, rm |-> mode, expAt |-> expAt, range |-> range, errors |-> errors]

(* Narrow and Scientific have a wrong option among theirs: those before it *)
(* come into force, those behind it only when ERRORS is off.               *)
Modes      == {Set(1, m, <<-2, 3>>, <<-9, 9>>, 1) : m \in 0..8}
Narrow     == Set(0, 0, <<-2, 3>>, <<-1, 1>>, 2)
Scientific == Set(null, 6, <<0, 0>>, <<1, -1>>, 1)
Lenient    == Set(1, 3, <<0, 0>>, <<-9, 9>>, 0)

MCOptions  == Modes \cup {Narrow, Scientific, Lenient}

MCOperands ==
    {NaN, Infinity(1), Zero(-1), ONE,
     BigNum(-1, 0, <<7>>), BigNum(1, 1, <<1, 2>>)}

(* For the numbers under 99 that CloserFraction is about.                  *)
MoreOperands == MCOperands \cup {BigNum(1, 1, <<9, 9>>)}

OneOperand == {ONE}

(* 63.9 is a number in base 16 too: 99 and a fraction.                     *)
MCTexts == {Numeral(FALSE, <<0, 9>>, <<9>>, null), Numeral(FALSE, <<6, 3>>, <<9>>, null), Numeral(TRUE, <<2, 0>>, <<>>, null),
            Numeral(FALSE, <<1, 2, 3, 4, 5>>, <<>>, -6), Word("Infinity", TRUE)}
SquareTexts == {Numeral(FALSE, <<1>>, <<0, 2, 0, 1>>, null)}  \* 1.01 squared
MorePlaces == {Set(2, 0, <<-2, 3>>, <<-9, 9>>, 1)}

MCExponents == {-1, 2, 3, 10}
MCPlaces == {null, 0, 1, 10}
MCBases == {2, 16, 37}
=============================================================================
