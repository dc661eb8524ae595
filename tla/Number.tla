------------------------------- MODULE Number -------------------------------
(***************************************************************************)
(* parseNumber, one character at a time.  The text is chosen while it is   *)
(* read.  A double is left as what it is computed from: a mantissa and a   *)
(* power of ten.  The widths of int64_t and int and the size of the table  *)
(* of powers are constants; arithmetic that overflows wraps around.        *)
(***************************************************************************)
EXTENDS NumBox, Sequences, SequencesExt

CONSTANTS
  Int64Max,   \* 2^63 - 1
  Powers,     \* the powers of ten in kjson_pow10's table, 308
  Digits,     \* the digits that texts are made of, 0 .. 9
  MaxLength   \* bound: the characters that are read

ASSUME NumberAssumption ==
  /\ Int64Max \in Nat /\ Int64Max > Int32Max
  /\ Powers \in Nat \ {0} /\ Powers <= Int32Max
  /\ Digits \subseteq 0 .. 9 /\ MaxLength \in Nat \ {0}

VARIABLES
  text,      \* the characters read, c last
  pc,        \* where parseNumber is
  negative, val, exp, exp2, sign, type,  \* its variables of these names
  result     \* what it returned

numbers == <<negative, val, exp, exp2, sign, type>>
vars == <<text, pc, numbers, result>>
-----------------------------------------------------------------------------
Digit(d) == [digit |-> d]

\* A character is a digit, or one of these: "," stands for any other, "end" for
\* the NUL at the end of the text.
Others == {"-", "+", ".", "e", ",", "end"}
Char(s) == [other |-> s]

Chars == {Digit(d) : d \in Digits} \cup {Char(s) : s \in Others}

IsDigit(c) == "digit" \in DOMAIN c

c == Last(text)

Is(s) == c = Char(s)

\* NEXT(ins).
NEXT == \E x \in Chars : /\ Len(text) < MaxLength \/ x = Char("end")
                         /\ text' = Append(text, x)

\* Two's complement in the width whose greatest number is max.
Wrap(n, max) == ((n + max + 1) % (2 * (max + 1))) - (max + 1)

Int64 == -(Int64Max + 1) .. Int64Max

None == [is |-> "none"]

Init == /\ \E x \in {Digit(d) : d \in Digits} \cup {Char("-")} : text = <<x>>
        /\ pc = "minus"
        /\ negative = FALSE /\ val = 0 /\ exp = 0
        /\ exp2 = 0 /\ sign = FALSE /\ type = "Int32"
        /\ result = None

Goto(label) == pc' = label /\ UNCHANGED result
-----------------------------------------------------------------------------
Minus == /\ pc = "minus"
         /\ negative' = Is("-")
         /\ IF Is("-") THEN NEXT ELSE UNCHANGED text
         /\ Goto("integer")
         /\ UNCHANGED <<val, exp, exp2, sign, type>>

LeadingZero == /\ pc = "integer" /\ c = Digit(0)
               /\ NEXT
               /\ Goto("point")
               /\ UNCHANGED numbers

\* Mutation: as if there were no greatest number.
AccumulateWide(n, max) == n * 10 + c.digit

Accumulate(n, max) == Wrap(n * 10 + c.digit, max)

IntegerDigit == /\ pc = "digits" \/ (pc = "integer" /\ c # Digit(0))
                /\ IsDigit(c)
                /\ val' = Accumulate(val, Int64Max)
                /\ NEXT
                /\ Goto("digits")
                /\ UNCHANGED <<negative, exp, exp2, sign, type>>

\* There need not have been a digit.
IntegerEnd == /\ pc \in {"integer", "digits"} /\ ~IsDigit(c)
              /\ Goto("point")
              /\ UNCHANGED <<text, numbers>>

Point == /\ pc = "point" /\ Is(".")
         /\ type' = "Double"
         /\ NEXT
         /\ Goto("fraction")
         /\ UNCHANGED <<negative, val, exp, exp2, sign>>

\* Mutation: the digits of the fraction do not lower the exponent.
FractionDigitKept == /\ pc = "fraction" /\ IsDigit(c)
                     /\ val' = Accumulate(val, Int64Max)
                     /\ NEXT
                     /\ UNCHANGED <<pc, negative, exp, exp2, sign, type, result>>

FractionDigit == /\ pc = "fraction" /\ IsDigit(c)
                 /\ val' = Accumulate(val, Int64Max)
                 /\ exp' = Wrap(exp - 1, Int32Max)
                 /\ NEXT
                 /\ UNCHANGED <<pc, negative, exp2, sign, type, result>>

FractionEnd == /\ (pc = "fraction" /\ ~IsDigit(c)) \/ (pc = "point" /\ ~Is("."))
               /\ Goto("exponent")
               /\ UNCHANGED <<text, numbers>>

Exponent == /\ pc = "exponent" /\ Is("e")
            /\ type' = "Double"
            /\ NEXT
            /\ Goto("sign")
            /\ UNCHANGED <<negative, val, exp, exp2, sign>>

\* The character that is compared with '-' is the one after the sign.
Sign == /\ pc = "sign" /\ (Is("+") \/ Is("-"))
        /\ NEXT
        /\ sign' = (c' = Char("-"))
        /\ Goto("exponent digit")
        /\ UNCHANGED <<negative, val, exp, exp2, type>>

NoSign == /\ pc = "sign" /\ ~Is("+") /\ ~Is("-")
          /\ Goto("exponent digit")
          /\ UNCHANGED <<text, numbers>>

\* Mutation: no digit is needed.
NeedDigitNot == /\ pc = "exponent digit" /\ ~IsDigit(c)
                /\ Goto("exponent digits")
                /\ UNCHANGED <<text, numbers>>

\* THROW_IF: "need number after 'e' or 'E'".
NeedDigit == /\ pc = "exponent digit" /\ ~IsDigit(c)
             /\ pc' = "done"
             /\ result' = [is |-> "error"]
             /\ UNCHANGED <<text, numbers>>

ExponentDigit == /\ pc \in {"exponent digit", "exponent digits"} /\ IsDigit(c)
                 /\ exp2' = Accumulate(exp2, Int32Max)
                 /\ NEXT
                 /\ Goto("exponent digits")
                 /\ UNCHANGED <<negative, val, exp, sign, type>>

ExponentEnd == /\ \/ pc = "exponent" /\ ~Is("e") /\ UNCHANGED exp
                  \/ /\ pc = "exponent digits" /\ ~IsDigit(c)
                     /\ exp' = Wrap(exp + IF sign THEN -exp2 ELSE exp2, Int32Max)
               /\ Goto("value")
               /\ UNCHANGED <<text, negative, val, exp2, sign, type>>

Signed == IF negative THEN Wrap(-val, Int64Max) ELSE val

\* Mutation: the greatest int and the least one are put in a JSONInt64, too.
BoxedEarly(i) == IF i >= Int32Max \/ i <= -(Int32Max + 1)
                   THEN [is |-> "Int64", val |-> i]
                   ELSE [is |-> "Int32", word |-> ValueI(i)]

\* JSONInt_new: what a word has no room for is put in a JSONInt64.
Boxed(i) == IF i > Int32Max \/ i < -(Int32Max + 1)
              THEN [is |-> "Int64", val |-> i]
              ELSE [is |-> "Int32", word |-> ValueI(i)]

Integer == /\ pc = "value" /\ type = "Int32"
           /\ pc' = "done"
           /\ result' = Boxed(Signed)
           /\ UNCHANGED <<text, numbers>>

\* kjson_pow10(n) asserts that n is in its table.  The negative of what is too
\* small to be divided is taken as well.
DoubleOf == LET m == IF negative THEN -val ELSE val
                n == IF exp < 0 THEN -exp ELSE exp
            IN  IF exp < -Powers THEN [is |-> "infinity", positive |-> negative]
                ELSE IF n < Powers THEN [is |-> "Double", mantissa |-> m, exponent |-> exp]
                ELSE [is |-> "assertion"]

Double == /\ pc = "value" /\ type = "Double"
          /\ pc' = "done"
          /\ result' = DoubleOf
          /\ UNCHANGED <<text, numbers>>

Next == \/ Minus \/ LeadingZero \/ IntegerDigit \/ IntegerEnd
        \/ Point \/ FractionDigit \/ FractionEnd
        \/ Exponent \/ Sign \/ NoSign \/ NeedDigit \/ ExponentDigit \/ ExponentEnd
        \/ Integer \/ Double
        \/ (pc = "done" /\ UNCHANGED vars)

Spec == Init /\ [][Next]_vars
-----------------------------------------------------------------------------
\* What the number is, from RFC 4627: the parts of a text as sequences of
\* characters, cut at each place where it can be.
AllDigits(t) == \A i \in DOMAIN t : IsDigit(t[i])

PartsAt(t, n, i, f) ==
  [minus |-> n, int |-> SubSeq(t, n + 1, i), frac |-> SubSeq(t, i + 1, f),
   exp |-> SubSeq(t, f + 1, Len(t))]

Parts(t) == {PartsAt(t, n, i, f) : n \in {0, 1}, i \in 0 .. Len(t), f \in 0 .. Len(t)}

IsExponent(e) == /\ Len(e) > 1 /\ e[1] = Char("e")
                 /\ \/ AllDigits(Tail(e))
                    \/ e[2] \in {Char("+"), Char("-")} /\ Len(e) > 2 /\ AllDigits(SubSeq(e, 3, Len(e)))

\* The syntax of a number's parts, without the rules on how many digits there
\* are in the first two: any number is taken for the integer part when lenient.
WellFormed(p, t, lenient) ==
  /\ t = [n \in 1 .. p.minus |-> Char("-")] \o p.int \o p.frac \o p.exp
  /\ AllDigits(p.int)
  /\ \/ p.int # <<>> /\ (p.int[1] # Digit(0) \/ Len(p.int) = 1)
     \/ lenient /\ p.int = <<>> /\ p.minus = 1
  /\ \/ p.frac = <<>>
     \/ p.frac[1] = Char(".") /\ AllDigits(Tail(p.frac)) /\ (lenient \/ Len(p.frac) > 1)
  /\ p.exp = <<>> \/ IsExponent(p.exp)

IsNumber(t) == \E p \in Parts(t) : WellFormed(p, t, FALSE)

IsLenient(t) == \E p \in Parts(t) : WellFormed(p, t, TRUE)

PartsOf(t) == CHOOSE p \in Parts(t) : WellFormed(p, t, TRUE)

ValueOf(digits) ==
  LET of[n \in 0 .. Len(digits)] ==
        IF n = 0 THEN 0 ELSE of[n - 1] * 10 + digits[n].digit
  IN  of[Len(digits)]

IsSigned(p) == p.exp # <<>> /\ p.exp[2] \in {Char("+"), Char("-")}

IsNegative(p) == p.exp # <<>> /\ p.exp[2] = Char("-")

\* The power of ten that is written.
Power(p) == LET n == ValueOf(SubSeq(p.exp, IF IsSigned(p) THEN 3 ELSE 2, Len(p.exp)))
            IN  IF IsNegative(p) THEN -n ELSE n

\* All digits, those of the fraction too, which begins with the point.
Mantissa(p) == ValueOf(p.int \o SubSeq(p.frac, 2, Len(p.frac)))

Scale(p) == Power(p) - (IF p.frac = <<>> THEN 0 ELSE Len(p.frac) - 1)

\* The text that was taken for a number: parseNumber reads a character more.
Taken == SubSeq(text, 1, Len(text) - 1)

Done == pc = "done"
-----------------------------------------------------------------------------
TypeOK ==
  /\ text \in Seq(Chars) /\ text # <<>>
  /\ negative \in BOOLEAN /\ sign \in BOOLEAN
  /\ val \in Int64 /\ exp \in Int32 /\ exp2 \in Int32
  /\ type \in {"Int32", "Double"}
  /\ result.is = "Int32" => result.word \in Words

\* An integer that int64_t has room for is read exactly, and unboxed to what was
\* read; it is in the word itself whenever an int has room for it.
IntegersExact ==
  Done /\ IsNumber(Taken) =>
    LET p == PartsOf(Taken)
        n == IF p.minus = 1 THEN -Mantissa(p) ELSE Mantissa(p)
    IN  p.frac = <<>> /\ p.exp = <<>> /\ n \in Int64 =>
          IF n \in Int32 THEN result.is = "Int32" /\ toInt32(result.word) = n
                         ELSE result = [is |-> "Int64", val |-> n]

\* The double is computed from the mantissa and the power of ten that are
\* written, if int64_t has room for the one and the table for the other, and the
\* exponent is not negative.
DoublesExact ==
  Done /\ IsNumber(Taken) =>
    LET p == PartsOf(Taken)
        m == Mantissa(p)
    IN  /\ p.frac # <<>> \/ p.exp # <<>>
        /\ ~IsNegative(p)
        /\ m \in Int64
        /\ Scale(p) \in -(Powers - 1) .. Powers - 1
        => result = [is |-> "Double", mantissa |-> IF p.minus = 1 THEN -m ELSE m,
                     exponent |-> Scale(p)]

\* parseNumber takes the longest text that is a number or would be one if the
\* digits that may be missing were there: all those of the integer part after
\* "-", all those after the point.  It reads one character more and never one
\* beyond the NUL.
TakesLongestNumber ==
  /\ \A i \in 1 .. Len(text) - 1 : text[i] # Char("end")
  /\ Done /\ result.is # "error" =>
       /\ IsLenient(Taken)
       /\ ~IsLenient(text)

\* Whatever is written, a number is read as it is written, if there is room for
\* its mantissa and the table has its power.
ReadAsWritten ==
  Done /\ IsNumber(Taken) =>
    LET p == PartsOf(Taken)
    IN  IsNegative(p) /\ Mantissa(p) \in Int64 /\ Scale(p) \in -(Powers - 1) .. Powers - 1
        => result.is = "Double" /\ result.exponent = Scale(p)
=============================================================================
