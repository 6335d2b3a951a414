------------------------------ MODULE JsonText ------------------------------
(***************************************************************************)
(* json_parse and stringify of json-bigint.js, which every answer of the   *)
(* service passes through in a client.  A text is a sequence of            *)
(* characters; a function that reads something at position i gives what it *)
(* read and the position behind it, or the position it failed at.          *)
(*                                                                         *)
(* An answer arrives in chunks: the text of the state machine grows by one *)
(* character at a time, until the parser fails before its end.  Only the   *)
(* lower case e of an exponent and digits as hex digits are modelled.      *)
(***************************************************************************)
EXTENDS Integers, Sequences, SequencesExt

CONSTANTS
    Starts,      \* beginnings of texts, each with the characters it goes on with
    MaxLen,      \* bound on the characters that follow
    Limit,       \* largest integer up to which doubles are exact (2^53)
    MaxOrder,    \* largest order of magnitude of a double, up and down (308)
    ToExpNeg,    \* exponents from which on, down and up, a number is written
    ToExpPos     \* in exponential notation (-7 and 21)

ASSUME JsonAssumption ==
    /\ Limit \in Nat \ {0} /\ MaxOrder \in Nat /\ MaxLen \in Nat
    /\ ToExpPos \in Nat \ {0} /\ -ToExpNeg \in Nat \ {0}

VARIABLES
    alphabet,  \* the characters this text goes on with
    text,      \* what has arrived
    room       \* how many characters may follow

vars == <<alphabet, text, room>>

Numerals   == <<"0", "1", "2", "3", "4", "5", "6", "7", "8", "9">>
Digit(c)   == (CHOOSE k \in DOMAIN Numerals : Numerals[k] = c) - 1
Digits     == ToSet(Numerals)
Blanks     == {" ", "nl"}

Ch(s, i) == IF i <= Len(s) THEN s[i] ELSE ""

Read(v, i)  == [v |-> v, at |-> i]
Error(i)    == [failed |-> i]
Failed(r)   == "failed" \in DOMAIN r

(* The first position from i on that does not hold a character of a kind.  *)
Skip(s, i, kind) == CHOOSE j \in i..(i + Len(s)) :
                        /\ \A k \in i..(j - 1) : Ch(s, k) \in kind
                        /\ Ch(s, j) \notin kind

White(s, i) == Skip(s, i, Blanks)

----------------------------------------------------------------------------
(* Numbers: mantissa and exponent of ten, as a double or as a BigNumber.   *)

Canonical(m, p) ==
    LET zeros == CHOOSE k \in 0..12 : m % 10^k = 0 /\ (m = 0 \/ m % 10^(k + 1) # 0)
    IN  IF m = 0 THEN [m |-> 0, p |-> 0] ELSE [m |-> m \div 10^zeros, p |-> p + zeros]

Double(m, p) == [t |-> "number"] @@ Canonical(m, p)
Big(m, p)    == [t |-> "BigNumber"] @@ Canonical(m, p)

AbsOf(n) == IF n < 0 THEN -n ELSE n

DigitsOf(n) ==
    LET len == CHOOSE k \in 1..9 : n < 10^k /\ (k = 1 \/ n >= 10^(k - 1))
    IN  [j \in 1..len |-> Numerals[((n \div 10^(len - j)) % 10) + 1]]

(* m * 10^p is less than 10^Order(m, p).                                   *)
Order(m, p) == Len(DigitsOf(AbsOf(m))) + p

(* num/den to the nearest multiple of unit, the even one of two.           *)
Nearest(num, den, unit) ==
    LET q == num \div (den * unit)
        r == num % (den * unit)
    IN  IF 2 * r > den * unit \/ (2 * r = den * unit /\ q % 2 = 1) THEN (q + 1) * unit ELSE q * unit

(* +string: the nearest double.  Below Limit all short decimals have one   *)
(* of their own; above it doubles are 2, 4, 8 ... apart.                   *)
ToDouble(m, p) ==
    LET num == AbsOf(m) * 10^(IF p > 0 THEN p ELSE 0)
        den == 10^(IF p < 0 THEN -p ELSE 0)
        k   == CHOOSE j \in 0..20 : num <= Limit * den * 2^j /\ (j = 0 \/ num > Limit * den * 2^(j - 1))
        n   == Nearest(num, den, 2^k)
    IN  IF k = 0 THEN Canonical(m, p) ELSE Canonical(IF m < 0 THEN -n ELSE n, 0)

(* Is a number in canonical form larger than an integer?                   *)
Exceeds(d, n) == IF d.p >= 0 THEN AbsOf(d.m) * 10^d.p > n ELSE AbsOf(d.m) > n * 10^(-d.p)

\* Defect: a number that does not fit a double is not kept as a BigNumber.
NumberOfDouble(m, p, i) ==
    IF m # 0 /\ Order(m, p) > MaxOrder THEN Error(i)
    ELSE IF m = 0 \/ Order(m, p) < -MaxOrder THEN Read(Double(0, 0), i)
    ELSE Read([t |-> "number"] @@ ToDouble(m, p), i)

(* The double decides: what is infinite as one is refused, and the digits  *)
(* are only kept if it exceeds Limit.  That of Limit + 1 is Limit.         *)
NumberOf(m, p, i) ==
    IF m # 0 /\ Order(m, p) > MaxOrder THEN Error(i)
    ELSE IF m = 0 \/ Order(m, p) < -MaxOrder THEN Read(Double(0, 0), i)
    ELSE IF Exceeds(ToDouble(m, p), Limit) THEN Read(Big(m, p), i)
    ELSE Read([t |-> "number"] @@ ToDouble(m, p), i)

IntOf(s, i, j) == FoldLeft(LAMBDA n, c : 10 * n + Digit(c), 0, SubSeq(s, i, j - 1))

(* Digits, a point with digits, an exponent: each may be left out, but not *)
(* all digits of the number nor those of an exponent.                      *)
Number(s, i) ==
    LET start  == IF Ch(s, i) = "-" THEN i + 1 ELSE i
        point  == Skip(s, start, Digits)
        behind == IF Ch(s, point) = "." THEN point + 1 ELSE point
        e      == Skip(s, behind, Digits)
        sign   == IF Ch(s, e + 1) \in {"-", "+"} THEN e + 2 ELSE e + 1
        end    == IF Ch(s, e) = "e" THEN Skip(s, sign, Digits) ELSE e
        exp    == IF Ch(s, e) = "e" THEN IntOf(s, sign, end) ELSE 0
        m      == IntOf(SubSeq(s, start, point - 1) \o SubSeq(s, behind, e - 1), 1,
                        (point - start) + (e - behind) + 1)
        noDigits == point = start /\ e = behind
    IN  IF noDigits \/ (Ch(s, e) = "e" /\ end = sign) THEN Error(end)
        ELSE NumberOf(IF Ch(s, i) = "-" THEN -m ELSE m,
                      (IF Ch(s, e + 1) = "-" THEN -exp ELSE exp) - (e - behind), end)

----------------------------------------------------------------------------
(* Strings.  All characters written as \u are one character here; a hex    *)
(* digit that is none ends the code and is itself skipped.                 *)

Escapee == [c \in {"\"", "\\", "n"} |-> IF c = "n" THEN "nl" ELSE c]

CodeEnd(s, i) == LET j == Skip(s, i, Digits) IN IF j < i + 4 THEN j ELSE i + 3

RECURSIVE StringRest(_, _, _)
StringRest(s, i, sofar) ==
    LET c == Ch(s, i)
        d == Ch(s, i + 1)
    IN  CASE c = ""   -> Error(Len(s) + 1)
          [] c = "\"" -> Read([t |-> "string", chars |-> sofar], i + 1)
          [] c = "\\" -> IF d = "u" THEN StringRest(s, CodeEnd(s, i + 2) + 1, Append(sofar, "U"))
                         ELSE IF d \in DOMAIN Escapee THEN StringRest(s, i + 2, Append(sofar, Escapee[d]))
                         ELSE Error(i + 1)
          [] OTHER    -> StringRest(s, i + 1, Append(sofar, c))

String(s, i) == IF Ch(s, i) = "\"" THEN StringRest(s, i + 1, <<>>) ELSE Error(i)

Words == [t |-> <<"t", "r", "u", "e">>, n |-> <<"n", "u", "l", "l">>,
          f |-> <<"f", "a", "l", "s", "e">>]

ReadWord(s, i) ==
    LET w    == Words[Ch(s, i)]
        good == {k \in 0..Len(w) : \A j \in 1..k : Ch(s, i + j - 1) = w[j]}
    IN  IF Ch(s, i) \notin DOMAIN Words THEN Error(i)
        ELSE IF Max(good) < Len(w) THEN Error(i + Max(good))
        ELSE Read([t |-> "word", first |-> w[1]], i + Len(w))

----------------------------------------------------------------------------
(* Arrays and objects.                                                     *)

Array(elements)  == [t |-> "array", elements |-> elements]
Object(members)  == [t |-> "object", members |-> members]
Keys(members)    == {members[k].key : k \in DOMAIN members}

NewKey(members, key) == key \notin Keys(members)

\* Defect: the end of the text ends an array too.
EndsArrayOrText(c) == c \in {"]", ""}

EndsArray(c) == c = "]"

RECURSIVE Value(_, _), Elements(_, _, _), Members(_, _, _)

(* What follows the elements so far: another one and then ] or a comma.    *)
Elements(s, i, sofar) ==
    LET v   == Value(s, i)
        end == White(s, v.at)
        next == Append(sofar, v.v)
    IN  IF Ch(s, i) = "" \/ Failed(v) THEN (IF Ch(s, i) = "" THEN Error(i) ELSE v)
        ELSE IF EndsArray(Ch(s, end)) THEN Read(Array(next), end + 1)
        ELSE IF Ch(s, end) = "," THEN Elements(s, White(s, end + 1), next)
        ELSE Error(end)

Members(s, i, sofar) ==
    LET k     == String(s, i)
        colon == White(s, k.at)
        v     == Value(s, colon + 1)
        end   == White(s, v.at)
        next  == Append(sofar, [key |-> k.v.chars, value |-> v.v])
    IN  IF Failed(k) THEN k
        ELSE IF Ch(s, colon) # ":" THEN Error(colon)
        ELSE IF ~NewKey(sofar, k.v.chars) THEN Error(colon + 1)
        ELSE IF Failed(v) THEN v
        ELSE IF Ch(s, end) = "}" THEN Read(Object(next), end + 1)
        ELSE IF Ch(s, end) = "," THEN Members(s, White(s, end + 1), next)
        ELSE Error(end)

Value(s, at) ==
    LET i     == White(s, at)
        first == White(s, i + 1)
        c     == Ch(s, i)
    IN  CASE c = "{"  -> IF Ch(s, first) = "}" THEN Read(Object(<<>>), first + 1) ELSE Members(s, first, <<>>)
          [] c = "["  -> IF Ch(s, first) = "]" THEN Read(Array(<<>>), first + 1) ELSE Elements(s, first, <<>>)
          [] c = "\"" -> String(s, i)
          [] c = "-" \/ c \in Digits -> Number(s, i)
          [] OTHER    -> ReadWord(s, i)

(* json_parse: one value, and nothing but white space around it.           *)
Parse(s) ==
    LET r == Value(s, 1)
    IN  IF Failed(r) THEN r
        ELSE IF White(s, r.at) <= Len(s) THEN Error(White(s, r.at)) ELSE Read(r.v, Len(s) + 1)

----------------------------------------------------------------------------
(* stringify(value, replacer, space): rep holds the array replacer, a      *)
(* sequence of keys, and is empty without one; gap is the indentation,     *)
(* <<>> for none.  Without a replacer the members are written in the order *)
(* they were read in; JavaScript takes keys like 1 first.                  *)

\* Defect: no character of a string is escaped.
QuoteNothing(chars) == <<"\"">> \o chars \o <<"\"">>

Quote(chars) ==
    <<"\"">> \o FlattenSeq([k \in DOMAIN chars |->
        IF chars[k] \in {"\"", "\\"} THEN <<"\\", chars[k]>>
        ELSE IF chars[k] = "nl" THEN <<"\\", "n">>
        ELSE IF chars[k] = "U" THEN <<"\\", "u", "0", "0", "0", "1">>
        ELSE <<chars[k]>>]) \o <<"\"">>

(* With a point and before it at least one digit.                          *)
Plain(m, p) ==
    LET n == AbsOf(m)
        int == IF p >= 0 THEN n * 10^p ELSE n \div 10^(-p)
        frac == IF p >= 0 THEN <<>> ELSE Tail(DigitsOf(10^(-p) + (n % 10^(-p))))
    IN  DigitsOf(int) \o (IF frac = <<>> THEN <<>> ELSE <<".">> \o frac)

(* One digit before the point, and the exponent with its sign.             *)
Exponential(m, p) ==
    LET digits == DigitsOf(AbsOf(m))
        e      == Order(m, p) - 1
    IN  <<digits[1]>> \o (IF Len(digits) = 1 THEN <<>> ELSE <<".">> \o Tail(digits))
            \o <<"e", IF e < 0 THEN "-" ELSE "+">> \o DigitsOf(AbsOf(e))

(* String(value) of a double and toString() of a BigNumber: both notations *)
(* change at the same exponents.  The digits of 0 are those of exponent 0. *)
Written(m, p) ==
    (IF m < 0 THEN <<"-">> ELSE <<>>)
        \o (IF Order(m, p) - 1 \in (ToExpNeg + 1)..(ToExpPos - 1) THEN Plain(m, p) ELSE Exponential(m, p))

Join(parts, separator) ==
    FlattenSeq([k \in DOMAIN parts |-> IF k = 1 THEN parts[k] ELSE separator \o parts[k]])

Wrap(open, parts, close, mind, gap, space) ==
    IF parts = <<>> THEN <<open, close>>
    ELSE IF space = <<>> THEN <<open>> \o Join(parts, <<",">>) \o <<close>>
    ELSE <<open, "nl">> \o gap \o Join(parts, <<",", "nl">> \o gap) \o <<"nl">> \o mind \o <<close>>

(* An array replacer selects members and orders them.                      *)
Chosen(members, rep) ==
    IF rep = {} THEN members
    ELSE LET keys == CHOOSE ks \in rep : TRUE
         IN  FlattenSeq([k \in DOMAIN keys |-> SelectSeq(members, LAMBDA e : e.key = keys[k])])

RECURSIVE Str(_, _, _, _)
Str(v, rep, mind, space) ==
    LET gap == mind \o space
        chosen == Chosen(v.members, rep)
        Member(e) == Quote(e.key) \o (IF space = <<>> THEN <<":">> ELSE <<":", " ">>)
                                  \o Str(e.value, rep, gap, space)
    IN  CASE v.t = "string" -> Quote(v.chars)
          [] v.t \in {"number", "BigNumber"} -> Written(v.m, v.p)
          [] v.t = "word"   -> Words[v.first]
          [] v.t = "array"  -> Wrap("[", [k \in DOMAIN v.elements |-> Str(v.elements[k], rep, gap, space)],
                                    "]", mind, gap, space)
          [] v.t = "object" -> Wrap("{", [k \in DOMAIN chosen |-> Member(chosen[k])], "}", mind, gap, space)

Stringify(v, rep, space) == Str(v, rep, <<>>, space)

----------------------------------------------------------------------------
Init ==
    /\ \E start \in Starts : text = start.text /\ alphabet = start.alphabet
    /\ room = MaxLen

(* A parser that fails before the end of a text fails on all longer ones.  *)
Viable(s) == IF Failed(Parse(s)) THEN Parse(s).failed > Len(s) ELSE TRUE

Arrive(c) ==
    /\ room > 0 /\ Viable(text)
    /\ room' = room - 1
    /\ text' = Append(text, c)
    /\ UNCHANGED alphabet

Next == \E c \in alphabet : Arrive(c)

Spec == Init /\ [][Next]_vars

----------------------------------------------------------------------------
Accepted(s) == ~Failed(Parse(s))

(* An integer, a balance say, is read with all its digits, with the one    *)
(* exception of Limit + 1, whose double is Limit.                          *)
IntegersKept ==
    \A k \in {j \in DOMAIN text : \A i \in 1..j : text[i] \in Digits} :
        LET n == IntOf(text, 1, k + 1)
            r == NumberOf(n, 0, k + 1)
        IN  Failed(r) \/ n = Limit + 1 \/ (r.v.m = Canonical(n, 0).m /\ r.v.p = Canonical(n, 0).p)

RECURSIVE KeysOf(_)
KeysOf(v) ==
    CASE v.t = "array"  -> UNION {KeysOf(e) : e \in ToSet(v.elements)}
      [] v.t = "object" -> Keys(v.members) \cup UNION {KeysOf(e.value) : e \in ToSet(v.members)}
      [] OTHER -> {}

(* A value, whatever the order of the members of its objects.              *)
RECURSIVE Unordered(_)
Unordered(v) ==
    CASE v.t = "array"  -> Array([k \in DOMAIN v.elements |-> Unordered(v.elements[k])])
      [] v.t = "object" -> Object({[e EXCEPT !.value = Unordered(e.value)] : e \in ToSet(v.members)})
      [] OTHER -> v

(* What stringify writes, indented or not, of all members or with a        *)
(* replacer that names all keys in any order, is read back as the same     *)
(* value: strings with what had to be escaped, and numbers with all their  *)
(* digits, also when an exponent as large as that of a balance of the      *)
(* genesis file turns the notation.                                        *)
RoundTrip ==
    Accepted(text) =>
        LET v    == Parse(text).v
            keys == SetToSeq(KeysOf(v))
        IN  \A space \in {<<>>, <<" ">>}, rep \in {{}, {keys}, {Reverse(keys)}} :
                LET s == Stringify(v, rep, space)
                IN  Accepted(s) /\ Unordered(Parse(s).v) = Unordered(v)

(* An answer that is cut off is noticed: no proper prefix of an object,    *)
(* array or string is accepted.                                            *)
TruncationNoticed ==
    (Accepted(text) /\ text[1] \in {"{", "[", "\""} /\ text[Len(text)] \notin Blanks) =>
        \A k \in 0..(Len(text) - 1) : ~Accepted(SubSeq(text, 1, k))
=============================================================================
