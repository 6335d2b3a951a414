---------------------------- MODULE MCJsonText -----------------------------
(* Beginnings for JsonText: structure, numbers, strings, words and the     *)
(* second member of an object.  Exponential notation from 1e-2 down and    *)
(* from 1e3 up, where BigNumbers of plain digits lie between.              *)
EXTENDS JsonText

MCToExpNeg == -2

From(beginning, characters) == [text |-> beginning, alphabet |-> characters]

MCStarts ==
    {From(<<>>, {"{", "}", "[", "]", ":", ",", "\"", "1", " "}),
     From(<<>>, {"0", "1", "9", ".", "-", "e"}),
     From(<<"{">>, {"}", ":", "\"", "\\", "n", "u", "1"}),
     From(<<>>, {"[", "t", "r", "u", "e", "n", "l", "f", "a", "s", ",", "]"}),
     From(<<"[", "{", "\"", "\"", ":", "1", ",">>, {"\"", "1", ":", "}", "]", "-"})}
=============================================================================
