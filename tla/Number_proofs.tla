----------------------------- MODULE Number_proofs -----------------------------
(***************************************************************************)
(* Theorems about NumBox and Number, for all widths and texts: what is put *)
(* in a word comes out of it again, and no value is taken for one of       *)
(* another type, or for none; parseNumber takes the longest number there   *)
(* is, reads integers exactly and computes doubles from what is written,   *)
(* whatever the digits, within the widths.                                 *)
(*                                                                         *)
(* The invariant, Reading, says where the text is cut into the parts of a  *)
(* number at each place of parseNumber, and what its variables hold of     *)
(* them; a text can be cut in one way only, so that these are the parts    *)
(* that the properties speak of.                                           *)
(***************************************************************************)
EXTENDS Number, Recursion

\* The types whose values are no doubles: their tags lie above TagBase.
BoxedTypes == DOMAIN Flags \ {"Double"}

\* The four bits of a type's flag keep it apart from doubles and from the others.
LEMMA FlagsTellTypesApart ==
  /\ \A t \in BoxedTypes : Flags[t] \in 1 .. 15
  /\ Flags["Double"] = 0
  /\ \A t, u \in DOMAIN Flags : Flags[t] = Flags[u] => t = u
  BY DEF Flags, BoxedTypes

\* JSON_type gives the type of the word that TAG was put in.
LEMMA TypeOfTagged ==
  ASSUME NEW t \in BoxedTypes, NEW v, v.tag = TAG(t)
  PROVE  ~IsDouble(v) /\ TypeOf(v) = Flags[t]
<1> USE BoxAssumption, NumberAssumption DEF Int32, Payloads, Words, Doubles
<1>1. v.tag = TagBase + Flags[t] /\ Flags[t] \in 1 .. 15
  BY FlagsTellTypesApart DEF TAG
<1>2. TAG("Double") = TagBase
  BY FlagsTellTypesApart DEF TAG
<1> QED
  BY <1>1, <1>2 DEF IsDouble, TypeOf

\* Every int is unboxed to itself, its sign included, and is known as an int:
\* ValueI, toInt32 and JSON_type.
THEOREM IntegersUnboxed ==
  \A i \in Int32 : /\ ValueI(i) \in Words
                   /\ toInt32(ValueI(i)) = i
                   /\ TypeOf(ValueI(i)) = Flags["Int32"]
<1> USE BoxAssumption, NumberAssumption DEF Int32, Payloads, Words, Doubles
<1> SUFFICES ASSUME NEW i \in Int32
             PROVE  /\ ValueI(i) \in Words
                    /\ toInt32(ValueI(i)) = i
                    /\ TypeOf(ValueI(i)) = Flags["Int32"]
  OBVIOUS
<1>1. "Int32" \in BoxedTypes
  BY DEF BoxedTypes, Flags
<1>2. TAG("Int32") \in 0 .. TagBase + 15
  BY <1>1, FlagsTellTypesApart DEF TAG
<1>3. ValueI(i).val \in 0 .. 2 * Int32Max + 1
  BY DEF ValueI
<1>4. ValueI(i) \in Words
  BY <1>2, <1>3 DEF ValueI
<1>5. toInt32(ValueI(i)) = i
  BY DEF ValueI, toInt32
<1>6. TypeOf(ValueI(i)) = Flags["Int32"]
  BY <1>1, TypeOfTagged DEF ValueI
<1> QED
  BY <1>4, <1>5, <1>6

\* A pointer is unboxed to itself and known as what it points to, whichever of
\* ValueO, ValueS, ValueU, ValueA, ValueIO and ValueE boxed it.
THEOREM PointersUnboxed ==
  \A t \in Pointers, p \in Payloads : /\ ValueP(t, p) \in Words
                                      /\ toPtr(ValueP(t, p)) = p
                                      /\ TypeOf(ValueP(t, p)) = Flags[t]
<1> USE BoxAssumption, NumberAssumption DEF Int32, Payloads, Words, Doubles
<1> SUFFICES ASSUME NEW t \in Pointers, NEW p \in Payloads
             PROVE  /\ ValueP(t, p) \in Words
                    /\ toPtr(ValueP(t, p)) = p
                    /\ TypeOf(ValueP(t, p)) = Flags[t]
  OBVIOUS
<1>1. t \in BoxedTypes
  BY DEF BoxedTypes, Flags, Pointers
<1>2. TAG(t) \in 0 .. TagBase + 15
  BY <1>1, FlagsTellTypesApart DEF TAG
<1>3. ValueP(t, p) \in Words /\ toPtr(ValueP(t, p)) = p
  BY <1>2 DEF ValueP, toPtr
<1>4. TypeOf(ValueP(t, p)) = Flags[t]
  BY <1>1, TypeOfTagged DEF ValueP
<1> QED
  BY <1>3, <1>4

\* A Boolean is unboxed to itself: ValueB, toBool.
THEOREM BooleansUnboxed ==
  \A b \in BOOLEAN : toBool(ValueB(b)) = b /\ TypeOf(ValueB(b)) = Flags["Boolean"]
<1> USE BoxAssumption, NumberAssumption DEF Int32, Payloads, Words, Doubles
<1>1. "Boolean" \in BoxedTypes
  BY DEF BoxedTypes, Flags
<1>2. \A b \in BOOLEAN : toBool(ValueB(b)) = b
  BY DEF ValueB, toBool
<1>3. \A b \in BOOLEAN : TypeOf(ValueB(b)) = Flags["Boolean"]
  BY <1>1, TypeOfTagged DEF ValueB
<1> QED
  BY <1>2, <1>3

\* Only one word is JSON_NOP, and it is that of the double 0.0: JSON_isValid takes
\* that number, and no value of another type, for none.
THEOREM OnlyZeroIsNOP ==
  /\ NOP \in Doubles /\ TypeOf(NOP) = Flags["Double"]
  /\ \A i \in Int32 : IsValid(ValueI(i))
  /\ \A t \in Pointers, p \in Payloads : IsValid(ValueP(t, p))
  /\ \A b \in BOOLEAN : IsValid(ValueB(b))
  /\ IsValid(ValueN)
<1> USE BoxAssumption, NumberAssumption DEF Int32, Payloads, Words, Doubles
<1>1. NOP \in Doubles /\ TypeOf(NOP) = Flags["Double"]
  BY FlagsTellTypesApart DEF NOP, TypeOf, IsDouble, TAG
<1>2. ASSUME NEW t \in BoxedTypes, NEW v, v.tag = TAG(t)
      PROVE  IsValid(v)
  BY <1>1, <1>2, TypeOfTagged, FlagsTellTypesApart DEF IsValid
<1>3. {"Int32", "Boolean", "Null"} \cup Pointers \subseteq BoxedTypes
  BY DEF BoxedTypes, Flags, Pointers
<1>4. \A i \in Int32 : IsValid(ValueI(i))
  BY <1>2, <1>3 DEF ValueI
<1>5. \A t \in Pointers, p \in Payloads : IsValid(ValueP(t, p))
  BY <1>2, <1>3 DEF ValueP
<1>6. \A b \in BOOLEAN : IsValid(ValueB(b))
  BY <1>2, <1>3 DEF ValueB
<1>7. IsValid(ValueN)
  BY <1>2, <1>3 DEF ValueN
<1> QED
  BY <1>1, <1>4, <1>5, <1>6, <1>7
-----------------------------------------------------------------------------
\* Arithmetic that wraps around stays within the width.
LEMMA WrapInRange ==
  ASSUME NEW max \in Nat, NEW n \in Int
  PROVE  Wrap(n, max) \in -(max + 1) .. max
<1> USE BoxAssumption, NumberAssumption DEF Int32, Payloads, Words, Doubles
<1> DEFINE size == 2 * (max + 1)
<1>1. size \in Nat /\ size > 0
  OBVIOUS
<1>2. \A k \in Int, s \in Nat : s > 0 => k % s \in 0 .. s - 1
  OBVIOUS
<1>3. (n + max + 1) % size \in 0 .. size - 1
  <2> HIDE DEF size
  <2> QED BY <1>1, <1>2
<1> QED
  BY <1>3 DEF Wrap

\* The widths are numbers.
LEMMA Widths == Int32Max \in Nat /\ Int64Max \in Nat /\ Int32Max < Int64Max
  BY BoxAssumption, NumberAssumption

\* The text: what is read is appended, and the character looked at is one.
TextOK == text \in Seq(Chars) /\ text # <<>>

LEMMA TextStays ==
  ASSUME TextOK, NEXT \/ UNCHANGED text
  PROVE  TextOK'
<1> USE BoxAssumption, NumberAssumption DEF Int32, Payloads, Words, Doubles
<1>1. CASE NEXT
  <2>1. PICK x \in Chars : text' = Append(text, x)
    BY <1>1 DEF NEXT
  <2> QED
    BY <2>1 DEF TextOK
<1>2. CASE UNCHANGED text
  BY <1>2 DEF TextOK
<1> QED
  BY <1>1, <1>2

LEMMA DigitIsInt ==
  ASSUME TextOK, IsDigit(c)
  PROVE  c.digit \in Int
<1> USE BoxAssumption, NumberAssumption DEF Int32, Payloads, Words, Doubles
<1>1. c \in Chars
  BY DEF TextOK, c, Last
<1>2. PICK d \in Digits : c = Digit(d)
  BY <1>1 DEF Chars, Char, Digit, IsDigit
<1> QED
  BY <1>2 DEF Digit

LEMMA Accumulated ==
  ASSUME TextOK, IsDigit(c), NEW max \in Nat, NEW n \in Int
  PROVE  Accumulate(n, max) \in -(max + 1) .. max
<1> USE BoxAssumption, NumberAssumption DEF Int32, Payloads, Words, Doubles
<1>1. n * 10 + c.digit \in Int
  BY DigitIsInt
<1> QED
  BY <1>1, WrapInRange DEF Accumulate

\* Init and every step keep the types of everything but the result.
NumbersOK ==
  /\ negative \in BOOLEAN /\ sign \in BOOLEAN
  /\ val \in Int64 /\ exp \in Int32 /\ exp2 \in Int32
  /\ type \in {"Int32", "Double"}

LEMMA Boxes ==
  ASSUME NEW i \in Int
  PROVE  Boxed(i).is = "Int32" => Boxed(i).word \in Words
<1> USE BoxAssumption, NumberAssumption DEF Int32, Payloads, Words, Doubles
<1>1. CASE i > Int32Max \/ i < -(Int32Max + 1)
  BY <1>1 DEF Boxed
<1>2. CASE ~(i > Int32Max \/ i < -(Int32Max + 1))
  <2>1. i \in Int32
    BY <1>2, Widths DEF Int32
  <2> QED
    BY <1>2, <2>1, IntegersUnboxed DEF Boxed
<1> QED
  BY <1>1, <1>2

ResultOK == result.is = "Int32" => result.word \in Words

\* Every reachable state of Number is well typed: val is an int64_t, the exponents
\* are ints, and what JSONInt_new makes of val is a word.
THEOREM Typing == Spec => []TypeOK
<1> USE BoxAssumption, NumberAssumption DEF Int32, Payloads, Words, Doubles
<1> USE Widths DEF Int32, Int64
<1> DEFINE IInv == TextOK /\ NumbersOK /\ ResultOK
<1>1. Init => IInv
  <2> SUFFICES ASSUME Init
               PROVE  IInv
    OBVIOUS
  <2>1. PICK x \in Chars : text = <<x>>
    BY DEF Init, Chars, Others
  <2>2. TextOK
    BY <2>1 DEF TextOK
  <2>3. NumbersOK
    <3>1. 0 \in Int64 /\ 0 \in Int32
      OBVIOUS
    <3> QED
      BY <3>1, Zenon DEF Init, NumbersOK
  <2>4. ResultOK
    BY DEF Init, ResultOK, None
  <2> QED
    BY <2>2, <2>3, <2>4
<1>2. IInv /\ [Next]_vars => IInv'
  <2> SUFFICES ASSUME IInv, [Next]_vars
               PROVE  IInv'
    OBVIOUS
  <2> USE DEF numbers, Goto
  <2>1. TextOK'
    <3>1. NEXT \/ UNCHANGED text
      BY DEF Next, vars, Minus, LeadingZero, IntegerDigit, IntegerEnd, Point, FractionDigit,
             FractionEnd, Exponent, Sign, NoSign, NeedDigit, ExponentDigit, ExponentEnd,
             Integer, Double
    <3> QED
      BY <3>1, TextStays
  <2>2. NumbersOK'
    <3> USE DEF NumbersOK
    <3>1. CASE Minus
      <4>1. negative' \in BOOLEAN
        BY <3>1, Zenon DEF Minus, Is
      <4> QED
        BY <3>1, <4>1 DEF Minus
    <3>2. CASE IntegerDigit
      BY <3>2, Accumulated DEF IntegerDigit
    <3>3. CASE FractionDigit
      <4>1. val' \in Int64
        BY <3>3, Accumulated DEF FractionDigit
      <4>2. exp' \in Int32
        BY <3>3, WrapInRange DEF FractionDigit
      <4> QED
        BY <3>3, <4>1, <4>2 DEF FractionDigit
    <3>4. CASE Sign
      <4>1. sign' \in BOOLEAN
        BY <3>4, Zenon DEF Sign
      <4> QED
        BY <3>4, <4>1 DEF Sign
    <3>5. CASE ExponentDigit
      <4>1. exp2' \in Int32
        <5>1. IsDigit(c) /\ exp2' = Accumulate(exp2, Int32Max)
          BY <3>5 DEF ExponentDigit
        <5>2. Int32Max \in Nat /\ exp2 \in Int
          OBVIOUS
        <5> QED
          BY <5>1, <5>2, Accumulated
      <4> QED
        BY <3>5, <4>1 DEF ExponentDigit
    <3>6. CASE ExponentEnd
      <4>1. exp + (IF sign THEN -exp2 ELSE exp2) \in Int
        OBVIOUS
      <4>2. exp' \in Int32
        BY <3>6, <4>1, WrapInRange DEF ExponentEnd
      <4> QED
        BY <3>6, <4>2 DEF ExponentEnd
    <3>7. CASE Point \/ Exponent
      BY <3>7 DEF Point, Exponent
    <3>8. CASE \/ LeadingZero \/ IntegerEnd \/ FractionEnd \/ NoSign \/ NeedDigit
               \/ Integer \/ Double
      BY <3>8 DEF LeadingZero, IntegerEnd, FractionEnd, NoSign, NeedDigit, Integer, Double
    <3>9. CASE UNCHANGED vars
      BY <3>9 DEF vars
    <3> QED
      BY <3>1, <3>2, <3>3, <3>4, <3>5, <3>6, <3>7, <3>8, <3>9 DEF Next
  <2>3. ResultOK'
    <3>1. CASE Integer
      <4>1. Signed \in Int
        BY WrapInRange DEF Signed, NumbersOK
      <4> QED
        BY <3>1, <4>1, Boxes DEF Integer, ResultOK
    <3>2. CASE Double
      <4>1. DoubleOf.is # "Int32"
        BY DEF DoubleOf
      <4> QED
        BY <3>2, <4>1 DEF Double, ResultOK
    <3>3. CASE NeedDigit
      BY <3>3 DEF NeedDigit, ResultOK
    <3>4. CASE UNCHANGED result
      BY <3>4 DEF ResultOK
    <3> QED
      BY <3>1, <3>2, <3>3, <3>4
         DEF Next, vars, Minus, LeadingZero, IntegerDigit, IntegerEnd, Point, FractionDigit,
             FractionEnd, Exponent, Sign, NoSign, ExponentDigit, ExponentEnd
  <2> QED
    BY <2>1, <2>2, <2>3
<1>3. IInv => TypeOK
  BY DEF TypeOK, TextOK, NumbersOK, ResultOK
<1> QED
  BY <1>1, <1>2, <1>3, PTL DEF Spec

-----------------------------------------------------------------------------
\* Wrapping around: the remainder is the only number of the width that differs by
\* a multiple of the modulus.
Modulus(max) == 2 * (max + 1)

\* Adding a multiple of the modulus changes nothing.
LEMMA RemainderUnique ==
  ASSUME NEW s \in Nat, s > 0, NEW r \in 0 .. s - 1, NEW q \in 0 .. s - 1,
         NEW k \in Int, r = q + k * s
  PROVE  r = q
<1>1. CASE k = 0
  BY <1>1
<1>2. CASE k >= 1
  <2>1. k * s >= s
    <3>1. k - 1 \in Nat /\ k = (k - 1) + 1
      BY <1>2
    <3>2. \A i, j \in Nat : (i + 1) * j = i * j + j /\ i * j >= 0
      OBVIOUS
    <3>3. k * s = (k - 1) * s + s /\ (k - 1) * s >= 0 /\ (k - 1) * s \in Int
      BY <3>1, <3>2
    <3> QED
      BY <3>3
  <2> QED
    BY <2>1
<1>3. CASE k <= -1
  <2>1. k * s <= -s
    <3>1. -k - 1 \in Nat
      BY <1>3
    <3>2. \A i, j \in Nat : (-i - 1) * j = -(i * j) - j /\ i * j >= 0
      OBVIOUS
    <3>3. -(-k - 1) - 1 = k
      OBVIOUS
    <3>4. k * s = -((-k - 1) * s) - s /\ (-k - 1) * s >= 0
      BY <3>1, <3>2, <3>3
    <3>5. (-k - 1) * s \in Int
      BY <3>1
    <3> QED
      BY <3>4, <3>5
  <2> QED
    BY <2>1
<1> QED
  BY <1>1, <1>2, <1>3

LEMMA WrapMoves ==
  ASSUME NEW max \in Nat, NEW n \in Int
  PROVE  \E k \in Int : Wrap(n, max) = n + k * Modulus(max)
<1> DEFINE s == Modulus(max)
           m == n + max + 1
<1>1. s \in Nat /\ s > 0 /\ m \in Int
  BY DEF Modulus
<1>2. Wrap(n, max) = (m % s) - (max + 1)
  BY DEF Wrap, Modulus
<1> HIDE DEF s
<1>3. \A i \in Int, j \in Nat : j > 0 => i \div j \in Int /\ i = j * (i \div j) + (i % j)
  OBVIOUS
<1>4. m \div s \in Int /\ m = s * (m \div s) + (m % s) /\ m % s \in Int
  BY <1>1, <1>3
<1>5. PICK k \in Int : k = m \div s
  BY <1>4
<1>6. s * k \in Int /\ (-k) * s = -(s * k)
  BY <1>1
<1>7. m % s = m - s * k
  BY <1>1, <1>4, <1>5, <1>6
<1>8. Wrap(n, max) = n + (-k) * s
  BY <1>1, <1>2, <1>6, <1>7
<1> QED
  BY <1>8 DEF s

LEMMA InWidthUnique ==
  ASSUME NEW max \in Nat, NEW i \in -(max + 1) .. max, NEW j \in -(max + 1) .. max,
         NEW k \in Int, i = j + k * Modulus(max)
  PROVE  i = j
<1> DEFINE s == Modulus(max)
           r == i + (max + 1)
           q == j + (max + 1)
<1>1. s \in Nat /\ s > 0 /\ r \in 0 .. s - 1 /\ q \in 0 .. s - 1
  BY DEF Modulus
<1>2. r = q + k * s
  <2>1. k * s \in Int
    BY <1>1
  <2> QED
    BY <2>1
<1> HIDE DEF s, r, q
<1>3. r = q
  BY <1>1, <1>2, RemainderUnique
<1> QED
  BY <1>3 DEF r, q

\* What has room in the width is kept.
LEMMA WrapKeeps ==
  ASSUME NEW max \in Nat, NEW n \in -(max + 1) .. max
  PROVE  Wrap(n, max) = n
<1>1. PICK k \in Int : Wrap(n, max) = n + k * Modulus(max)
  BY WrapMoves
<1>2. Wrap(n, max) \in -(max + 1) .. max
  BY WrapInRange
<1> QED
  BY <1>1, <1>2, InWidthUnique

\* Numbers that differ by a multiple of the modulus are wrapped to the same.
LEMMA WrapSame ==
  ASSUME NEW max \in Nat, NEW i \in Int, NEW j \in Int,
         NEW k \in Int, i = j + k * Modulus(max)
  PROVE  Wrap(i, max) = Wrap(j, max)
<1> DEFINE s == Modulus(max)
<1>1. PICK p \in Int : Wrap(i, max) = i + p * s
  BY WrapMoves
<1>2. PICK q \in Int : Wrap(j, max) = j + q * s
  BY WrapMoves
<1>3. s \in Int
  BY DEF Modulus
<1> HIDE DEF s
<1>4. i = j + k * s
  BY DEF s
<1>5. \A x, y, z \in Int : (x + y - z) * s = x * s + y * s - z * s
  BY <1>3
<1>6. (k + p - q) * s = k * s + p * s - q * s
  BY <1>5
<1>7. k * s \in Int /\ p * s \in Int /\ q * s \in Int
  BY <1>3
<1>8. Wrap(i, max) = Wrap(j, max) + (k + p - q) * s
  BY <1>1, <1>2, <1>4, <1>6, <1>7
<1>9. Wrap(i, max) \in -(max + 1) .. max /\ Wrap(j, max) \in -(max + 1) .. max
  BY WrapInRange
<1>10. k + p - q \in Int
  OBVIOUS
<1> QED
  BY <1>8, <1>9, <1>10, InWidthUnique DEF s

\* Wrapping early makes no difference to sums and products.
LEMMA WrapOfWrap ==
  ASSUME NEW max \in Nat, NEW n \in Int, NEW a \in Int, NEW b \in Int
  PROVE  Wrap(a * Wrap(n, max) + b, max) = Wrap(a * n + b, max)
<1> DEFINE s == Modulus(max)
<1>1. PICK k \in Int : Wrap(n, max) = n + k * s
  BY WrapMoves
<1>2. s \in Int
  BY DEF Modulus
<1> HIDE DEF s
<1>3. k * s \in Int /\ a * n \in Int /\ a * k \in Int
  BY <1>2
<1>4. a * (n + k * s) = a * n + a * (k * s) /\ a * (k * s) = (a * k) * s
  BY <1>2, <1>3
<1>5. a * Wrap(n, max) + b = (a * n + b) + (a * k) * s
  <2>1. (a * k) * s \in Int
    BY <1>2, <1>3
  <2> QED
    BY <1>1, <1>3, <1>4, <2>1
<1>6. a * Wrap(n, max) + b \in Int /\ a * n + b \in Int
  <2>1. Wrap(n, max) \in Int
    BY <1>1, <1>2, <1>3
  <2> QED
    BY <1>3, <2>1
<1> QED
  BY <1>3, <1>5, <1>6, WrapSame DEF s

-----------------------------------------------------------------------------
\* Digits are told apart from the other characters, and these from each other.
LEMMA OthersAreNoDigits ==
  ASSUME NEW s
  PROVE  ~IsDigit(Char(s))
  BY DEF IsDigit, Char

LEMMA CharsDiffer ==
  ASSUME NEW s, NEW u, Char(s) = Char(u)
  PROVE  s = u
<1>1. Char(s).other = s /\ Char(u).other = u
  BY DEF Char
<1> QED
  BY <1>1

LEMMA DigitsAreDigits ==
  ASSUME NEW x \in Chars, IsDigit(x)
  PROVE  x.digit \in 0 .. 9 /\ x.digit \in Int /\ (x = Digit(0) <=> x.digit = 0)
<1>1. PICK d \in Digits : x = Digit(d)
  BY DEF Chars, Char, IsDigit
<1>2. d \in 0 .. 9 /\ x.digit = d /\ Digit(0).digit = 0
  BY <1>1, NumberAssumption DEF Digit
<1> QED
  BY <1>1, <1>2 DEF Digit

LEMMA DigitZero == IsDigit(Digit(0))
  BY DEF IsDigit, Digit

DigitChars == {x \in Chars : IsDigit(x)}

-----------------------------------------------------------------------------
\* The number that digits stand for: that of the first ones, times ten, and the last.
LEMMA ValueDefined ==
  ASSUME NEW s \in Seq(DigitChars)
  PROVE  \E g : /\ ValueOf(s) = g[Len(s)] /\ g[0] = 0
                /\ \A i \in 1 .. Len(s) : g[i] = g[i - 1] * 10 + s[i].digit
<1> DEFINE n == Len(s)
           step == [p \in (1 .. n) \X Int |-> p[2] * 10 + s[p[1]].digit]
<1>1. n \in Nat
  OBVIOUS
<1>2. \A i \in 1 .. n : s[i].digit \in Int
  <2> SUFFICES ASSUME NEW i \in 1 .. n
               PROVE  s[i].digit \in Int
    OBVIOUS
  <2>1. s[i] \in Chars /\ IsDigit(s[i])
    BY DEF DigitChars
  <2> QED
    BY <2>1, DigitsAreDigits
<1> HIDE DEF n
<1>3. step \in [(1 .. n) \X Int -> Int]
  BY <1>2
<1>4. PICK f \in [0 .. n -> Int] : Follows(f, n, 0, step)
  <2> HIDE DEF step
  <2>1. 0 \in Int
    OBVIOUS
  <2> QED
    BY <1>1, <1>3, <2>1, RecursionDefines
<1>5. \A i \in 0 .. n : f[i] = IF i = 0 THEN 0 ELSE f[i - 1] * 10 + s[i].digit
  <2> SUFFICES ASSUME NEW i \in 0 .. n
               PROVE  f[i] = IF i = 0 THEN 0 ELSE f[i - 1] * 10 + s[i].digit
    OBVIOUS
  <2>1. CASE i = 0
    BY <1>4, <2>1 DEF Follows
  <2>2. CASE i \in 1 .. n
    <3>1. i - 1 \in 0 .. n /\ f[i - 1] \in Int
      BY <1>1, <2>2
    <3>2. f[i] = step[<<i, f[i - 1]>>]
      BY <1>4, <2>2 DEF Follows
    <3> QED
      BY <2>2, <3>1, <3>2
  <2> QED
    BY <1>1, <2>1, <2>2
<1>6. f = [i \in 0 .. n |-> IF i = 0 THEN 0 ELSE f[i - 1] * 10 + s[i].digit]
  BY <1>5
<1>7. f = [i \in 0 .. Len(s) |-> IF i = 0 THEN 0 ELSE f[i - 1] * 10 + s[i].digit]
  BY <1>6 DEF n
<1>8. \E g : /\ g = [i \in 0 .. Len(s) |-> IF i = 0 THEN 0 ELSE g[i - 1] * 10 + s[i].digit]
             /\ ValueOf(s) = g[Len(s)]
  BY <1>7, Zenon DEF ValueOf
<1>9. PICK g : /\ g = [i \in 0 .. n |-> IF i = 0 THEN 0 ELSE g[i - 1] * 10 + s[i].digit]
               /\ ValueOf(s) = g[n]
  BY <1>8 DEF n
<1>10. g[0] = 0 /\ \A i \in 1 .. n : g[i] = g[i - 1] * 10 + s[i].digit
  BY <1>1, <1>9
<1> QED
  BY <1>9, <1>10 DEF n

LEMMA DigitsOf ==
  ASSUME NEW s \in Seq(DigitChars), NEW i \in 1 .. Len(s)
  PROVE  s[i].digit \in Int
<1>1. s[i] \in Chars /\ IsDigit(s[i])
  BY DEF DigitChars
<1> QED
  BY <1>1, DigitsAreDigits

LEMMA ValueIsInt ==
  ASSUME NEW s \in Seq(DigitChars)
  PROVE  ValueOf(s) \in Int
<1>1. PICK g : /\ ValueOf(s) = g[Len(s)] /\ g[0] = 0
               /\ \A i \in 1 .. Len(s) : g[i] = g[i - 1] * 10 + s[i].digit
  BY ValueDefined
<1> DEFINE n == Len(s)
           K == {i \in 0 .. n : g[i] \in Int}
<1>2. n \in Nat /\ \A i \in 1 .. n : s[i].digit \in Int
  BY DigitsOf
<1> HIDE DEF n
<1>3. 0 \in K
  BY <1>1, <1>2
<1>4. ASSUME NEW i \in 0 .. n - 1, i \in K
      PROVE  i + 1 \in K
  <2>1. i + 1 \in 1 .. n /\ (i + 1) - 1 = i
    BY <1>2
  <2>2. g[i + 1] = g[i] * 10 + s[i + 1].digit /\ s[i + 1].digit \in Int
    BY <1>1, <1>2, <2>1 DEF n
  <2> QED
    BY <1>2, <1>4, <2>1, <2>2
<1>5. \A i \in 0 .. n : i \in K
  <2> HIDE DEF K
  <2> QED
    BY <1>2, <1>3, <1>4, InductionTo
<1> QED
  BY <1>1, <1>2, <1>5 DEF n

LEMMA ValueOfNone == ValueOf(<<>>) = 0
<1>1. <<>> \in Seq(DigitChars) /\ Len(<<>>) = 0
  OBVIOUS
<1>2. \E g : ValueOf(<<>>) = g[Len(<<>>)] /\ g[0] = 0
  BY <1>1, ValueDefined
<1> QED
  BY <1>1, <1>2

LEMMA ValueOfMore ==
  ASSUME NEW s \in Seq(DigitChars), NEW x \in DigitChars
  PROVE  /\ Append(s, x) \in Seq(DigitChars)
         /\ ValueOf(Append(s, x)) = ValueOf(s) * 10 + x.digit
<1> DEFINE t == Append(s, x)
           n == Len(s)
<1>1. n \in Nat /\ t \in Seq(DigitChars) /\ Len(t) = n + 1 /\ t[n + 1] = x
      /\ \A i \in 1 .. n : t[i] = s[i]
  OBVIOUS
<1> HIDE DEF t
<1>2. PICK f : /\ ValueOf(s) = f[n] /\ f[0] = 0
               /\ \A i \in 1 .. n : f[i] = f[i - 1] * 10 + s[i].digit
  BY ValueDefined
<1>3. PICK g : /\ ValueOf(t) = g[Len(t)] /\ g[0] = 0
               /\ \A i \in 1 .. Len(t) : g[i] = g[i - 1] * 10 + t[i].digit
  BY <1>1, ValueDefined
<1>4. \A i \in 1 .. n : s[i].digit \in Int /\ s[i] = t[i]
  BY <1>1, DigitsOf
<1>5. n + 1 \in 1 .. Len(t) /\ (n + 1) - 1 = n /\ \A i \in 1 .. n : i \in 1 .. Len(t)
  BY <1>1
<1>6. \A i \in 1 .. n : g[i] = g[i - 1] * 10 + t[i].digit
  BY <1>3, <1>5
<1> HIDE DEF n
<1>7. f[n] = g[n]
  <2> DEFINE K == {i \in 0 .. n : f[i] = g[i]}
  <2>1. 0 \in K
    BY <1>1, <1>2, <1>3
  <2>2. ASSUME NEW i \in 0 .. n - 1, i \in K
        PROVE  i + 1 \in K
    <3>1. i + 1 \in 1 .. n /\ (i + 1) - 1 = i
      BY <1>1
    <3>2. f[i + 1] = f[i] * 10 + s[i + 1].digit
      BY <1>2, <3>1
    <3>3. g[i + 1] = g[i] * 10 + s[i + 1].digit
      BY <1>4, <1>6, <3>1
    <3> QED
      BY <1>1, <2>2, <3>1, <3>2, <3>3
  <2>3. \A i \in 0 .. n : i \in K
    <3> HIDE DEF K
    <3> QED
      BY <1>1, <2>1, <2>2, InductionTo
  <2> QED
    BY <1>1, <2>3
<1>8. g[n + 1] = g[n] * 10 + x.digit
  BY <1>1, <1>3, <1>5
<1> QED
  BY <1>1, <1>2, <1>3, <1>7, <1>8 DEF t

LEMMA MarksDiffer ==
  /\ ~IsDigit(Char("-")) /\ ~IsDigit(Char("+")) /\ ~IsDigit(Char(".")) /\ ~IsDigit(Char("e"))
  /\ Char("-") # Char("+") /\ Char("-") # Char(".") /\ Char("-") # Char("e")
  /\ Char("+") # Char(".") /\ Char("+") # Char("e") /\ Char(".") # Char("e")
  BY OthersAreNoDigits, CharsDiffer

-----------------------------------------------------------------------------
\* The same syntax by the places where the first l characters of t are cut: the
\* integer part ends at b, the fraction at f.
DigitsIn(t, i, j) == \A k \in i .. j : IsDigit(t[k])

IsInt(t, a, b) ==
  /\ a = 1 => t[1] = Char("-")
  /\ DigitsIn(t, a + 1, b)
  /\ (b > a /\ (t[a + 1] # Digit(0) \/ b = a + 1)) \/ (a = 1 /\ b = 1)

IsFrac(t, b, f) == f = b \/ (f > b /\ t[b + 1] = Char(".") /\ DigitsIn(t, b + 2, f))

Signs == {Char("+"), Char("-")}

\* Where the digits of the exponent begin.
From(t, f) == IF t[f + 2] \in Signs THEN f + 3 ELSE f + 2

IsExp(t, f, l) == t[f + 1] = Char("e") /\ l >= From(t, f) /\ DigitsIn(t, From(t, f), l)

Cut(t, a, b, f, l) ==
  /\ a \in {0, 1} /\ b \in a .. l /\ f \in b .. l
  /\ IsInt(t, a, b) /\ IsFrac(t, b, f)
  /\ l = f \/ IsExp(t, f, l)

\* The character x behind them, with no exponent, belongs neither to the integer
\* part nor to the fraction.
Stops(t, a, b, f, x) ==
  /\ f = b => x # Char(".")
  /\ IsDigit(x) => f = b /\ b = a + 1 /\ t[a + 1] = Digit(0)

LEMMA CutNat ==
  ASSUME NEW t, NEW a, NEW b, NEW f, NEW l \in Nat, Cut(t, a, b, f, l)
  PROVE  a \in Nat /\ b \in Nat /\ f \in Nat /\ a <= b /\ b <= f /\ f <= l /\ l >= 1 /\ b >= 1
  BY DEF Cut, IsInt

\* The sign is the first character, or there is none.
LEMMA SignsAgree ==
  ASSUME NEW t, NEW a, NEW b, NEW f, NEW l \in Nat, Cut(t, a, b, f, l),
         NEW a2, NEW b2, NEW f2, NEW l2 \in Nat, Cut(t, a2, b2, f2, l2)
  PROVE  a = a2
<1>1. ASSUME NEW x, NEW y, NEW z, NEW m \in Nat, Cut(t, x, y, z, m)
      PROVE  x \in {0, 1} /\ (x = 1 <=> t[1] = Char("-"))
  <2>1. CASE x = 1
    BY <1>1, <2>1 DEF Cut, IsInt
  <2>2. CASE x = 0
    <3>1. IsDigit(t[1])
      BY <1>1, <2>2, CutNat DEF Cut, IsInt, DigitsIn
    <3> QED
      BY <2>2, <3>1, MarksDiffer
  <2> QED
    BY <1>1, <2>1, <2>2 DEF Cut
<1> QED
  BY <1>1

\* What follows the integer part within the text is a point or an "e".
LEMMA BehindInt ==
  ASSUME NEW t, NEW a, NEW b, NEW f, NEW l \in Nat, Cut(t, a, b, f, l), b < l
  PROVE  /\ t[b + 1] = IF f = b THEN Char("e") ELSE Char(".")
         /\ ~IsDigit(t[b + 1])
<1>1. CASE f = b
  <2>1. t[b + 1] = Char("e")
    BY <1>1 DEF Cut, IsExp
  <2> QED
    BY <1>1, <2>1, MarksDiffer
<1>2. CASE f # b
  <2>1. t[b + 1] = Char(".")
    BY <1>2 DEF Cut, IsFrac
  <2> QED
    BY <1>2, <2>1, MarksDiffer
<1> QED
  BY <1>1, <1>2

\* What follows the fraction within the text is an "e".
LEMMA BehindFrac ==
  ASSUME NEW t, NEW a, NEW b, NEW f, NEW l \in Nat, Cut(t, a, b, f, l), f < l
  PROVE  t[f + 1] = Char("e")
  BY DEF Cut, IsExp

LEMMA IntsAgree ==
  ASSUME NEW t, NEW a, NEW b, NEW f, NEW l \in Nat, Cut(t, a, b, f, l),
         NEW b2, NEW f2, NEW l2 \in Nat, Cut(t, a, b2, f2, l2), b < l
  PROVE  b2 <= b
<1> SUFFICES ASSUME b2 > b PROVE FALSE
  BY CutNat
<1>1. ~IsDigit(t[b + 1])
  BY BehindInt
<1>2. a \in Nat /\ b \in Nat /\ b2 \in Nat /\ a <= b
  BY CutNat
<1>3. b + 1 \in a + 1 .. b2
  BY <1>2
<1>4. IsDigit(t[b + 1])
  BY <1>3 DEF Cut, IsInt, DigitsIn
<1> QED
  BY <1>1, <1>4

LEMMA FracsAgree ==
  ASSUME NEW t, NEW a, NEW b, NEW f, NEW l \in Nat, Cut(t, a, b, f, l),
         NEW f2, NEW l2 \in Nat, Cut(t, a, b, f2, l2), f < l
  PROVE  f2 <= f
<1> SUFFICES ASSUME f2 > f PROVE FALSE
  BY CutNat
<1>1. t[f + 1] = Char("e")
  BY BehindFrac
<1>2. b \in Nat /\ f \in Nat /\ f2 \in Nat /\ b <= f
  BY CutNat
<1>3. t[b + 1] = Char(".") /\ DigitsIn(t, b + 2, f2)
  BY <1>2 DEF Cut, IsFrac
<1>4. CASE f = b
  BY <1>1, <1>3, <1>4, MarksDiffer
<1>5. CASE f > b
  <2>1. f + 1 \in b + 2 .. f2
    BY <1>2, <1>5
  <2>2. IsDigit(t[f + 1])
    BY <1>3, <2>1 DEF DigitsIn
  <2> QED
    BY <1>1, <2>2, MarksDiffer
<1> QED
  BY <1>2, <1>4, <1>5

\* A text can be cut in one way only.
LEMMA CutsAgree ==
  ASSUME NEW t, NEW l \in Nat, NEW a, NEW b, NEW f, Cut(t, a, b, f, l),
         NEW a2, NEW b2, NEW f2, Cut(t, a2, b2, f2, l)
  PROVE  a = a2 /\ b = b2 /\ f = f2
<1>1. a = a2
  BY SignsAgree
<1>2. /\ b \in Nat /\ f \in Nat /\ b2 \in Nat /\ f2 \in Nat
      /\ b <= l /\ b2 <= l /\ f <= l /\ f2 <= l
  BY CutNat
<1>3. b < l => b2 <= b
  BY <1>1, IntsAgree
<1>4. b2 < l => b <= b2
  BY <1>1, IntsAgree
<1>5. b = b2
  BY <1>2, <1>3, <1>4
<1>6. f < l => f2 <= f
  BY <1>1, <1>5, FracsAgree
<1>7. f2 < l => f <= f2
  BY <1>1, <1>5, FracsAgree
<1> QED
  BY <1>1, <1>2, <1>5, <1>6, <1>7

\* One character more is no number if it does not continue what was cut.
LEMMA CutEnds ==
  ASSUME NEW t, NEW l \in Nat, NEW a, NEW b, NEW f, Cut(t, a, b, f, l),
         \/ l = f /\ Stops(t, a, b, f, t[l + 1]) /\ t[l + 1] # Char("e")
         \/ l > f /\ ~IsDigit(t[l + 1]),
         NEW a2, NEW b2, NEW f2, Cut(t, a2, b2, f2, l + 1)
  PROVE  FALSE
<1> DEFINE x == t[l + 1]
<1>1. a = a2 /\ l + 1 \in Nat
  BY SignsAgree
<1>2. /\ a \in Nat /\ b \in Nat /\ f \in Nat /\ b2 \in Nat /\ f2 \in Nat /\ a <= b /\ b <= f
      /\ b <= l /\ f <= l /\ b2 <= l + 1 /\ b2 <= f2 /\ f2 <= l + 1 /\ a <= b2
  BY <1>1, CutNat
<1>3. b2 < l + 1 => b <= b2
  BY <1>1, IntsAgree
<1>4. b2 <= b
  <2>1. CASE b < l
    BY <1>1, <2>1, IntsAgree
  <2>2. CASE b = l
    <3> SUFFICES ASSUME b2 > b PROVE FALSE
      BY <1>2
    <3>1. b2 = l + 1 /\ f = l
      BY <1>2, <2>2
    <3>2. IsDigit(t[l + 1])
      BY <1>1, <1>2, <3>1 DEF Cut, IsInt, DigitsIn
    <3>3. b = a + 1 /\ t[a + 1] = Digit(0)
      BY <3>1, <3>2, <1>2 DEF Stops
    <3>4. b2 # a2 + 1 /\ b2 > a2 /\ ~(a2 = 1 /\ b2 = 1)
      BY <1>1, <1>2, <2>2, <3>1, <3>3
    <3>5. t[a2 + 1] # Digit(0)
      BY <3>4 DEF Cut, IsInt
    <3> QED
      BY <1>1, <3>3, <3>5
  <2> QED
    BY <1>2, <2>1, <2>2
<1>5. b = b2
  BY <1>2, <1>3, <1>4
<1>6. f2 < l + 1 => f <= f2
  BY <1>1, <1>5, FracsAgree
<1>7. f2 <= f
  <2>1. CASE f < l
    BY <1>1, <1>5, <2>1, FracsAgree
  <2>2. CASE f = l
    <3> SUFFICES ASSUME f2 > f PROVE FALSE
      BY <1>2
    <3>1. f2 = l + 1
      BY <1>2, <2>2
    <3>2. t[b + 1] = Char(".") /\ DigitsIn(t, b + 2, f2)
      BY <1>2, <1>5, <3>1 DEF Cut, IsFrac
    <3>3. CASE f = b
      BY <2>2, <3>2, <3>3 DEF Stops
    <3>4. CASE f > b
      <4>1. l + 1 \in b + 2 .. f2
        BY <1>2, <2>2, <3>1, <3>4
      <4>2. IsDigit(t[l + 1])
        BY <3>2, <4>1 DEF DigitsIn
      <4> QED
        BY <2>2, <3>4, <4>2 DEF Stops
    <3> QED
      BY <1>2, <3>3, <3>4
  <2> QED
    BY <1>2, <2>1, <2>2
<1>8. f = f2
  BY <1>2, <1>6, <1>7
<1>9. IsExp(t, f, l + 1)
  BY <1>2, <1>8 DEF Cut
<1>10. CASE l = f
  BY <1>9, <1>10 DEF IsExp
<1>11. CASE l > f
  <2>1. IsExp(t, f, l)
    BY <1>11 DEF Cut
  <2>2. From(t, f) <= l /\ From(t, f) \in Nat
    BY <1>2, <2>1 DEF IsExp, From
  <2>3. l + 1 \in From(t, f) .. l + 1
    BY <2>2
  <2>4. IsDigit(t[l + 1])
    BY <1>9, <2>3 DEF IsExp, DigitsIn
  <2> QED
    BY <1>2, <1>11, <2>4
<1> QED
  BY <1>2, <1>10, <1>11

Minuses(n) == [i \in 1 .. n |-> Char("-")]

LEMMA MinusIsChar == Char("-") \in Chars
<1>1. "-" \in Others
  BY Zenon DEF Others
<1> QED
  BY <1>1 DEF Chars

\* The places in what is cut out of a text.
LEMMA PieceOf ==
  ASSUME NEW S, NEW t \in Seq(S), NEW i \in Nat, NEW j \in Nat, i >= 1, i <= j + 1, j <= Len(t)
  PROVE  /\ SubSeq(t, i, j) \in Seq(S) /\ Len(SubSeq(t, i, j)) = j - i + 1
         /\ \A k \in 1 .. j - i + 1 : SubSeq(t, i, j)[k] = t[i + k - 1]
<1> DEFINE q == SubSeq(t, i, j)
<1>1. \A k \in i .. j : t[k] \in S
  OBVIOUS
<1>2. /\ q \in Seq(S) /\ Len(q) = IF i <= j THEN j - i + 1 ELSE 0
      /\ \A k \in 1 .. j - i + 1 : q[k] = t[i + k - 1]
  BY <1>1, SubSeqProperties
<1> HIDE DEF q
<1>3. Len(q) = j - i + 1
  BY <1>2
<1> QED
  BY <1>2, <1>3 DEF q

\* A part that is cut out of a text.
LEMMA PartIs ==
  ASSUME NEW t \in Seq(Chars), NEW c1 \in Nat, NEW j \in Nat, c1 >= 1, c1 <= j + 1, j <= Len(t),
         NEW s \in Seq(Chars), Len(s) = j - c1 + 1, \A k \in 1 .. Len(s) : t[(c1 - 1) + k] = s[k]
  PROVE  s = SubSeq(t, c1, j)
<1> DEFINE q == SubSeq(t, c1, j)
<1>1. /\ q \in Seq(Chars) /\ Len(q) = j - c1 + 1
      /\ \A k \in 1 .. j - c1 + 1 : q[k] = t[c1 + k - 1]
  BY PieceOf
<1> HIDE DEF q
<1>2. \A k \in 1 .. Len(s) : q[k] = s[k]
  <2> SUFFICES ASSUME NEW k \in 1 .. Len(s)
               PROVE  q[k] = s[k]
    OBVIOUS
  <2>1. k \in 1 .. j - c1 + 1 /\ c1 + k - 1 = (c1 - 1) + k
    OBVIOUS
  <2> QED
    BY <1>1, <2>1
<1>3. s = q
  BY <1>1, <1>2, SeqEqual
<1> QED
  BY <1>3 DEF q

LEMMA CutOut ==
  ASSUME NEW t \in Seq(Chars), NEW i \in Nat, NEW j \in Nat, i <= j, j <= Len(t)
  PROVE  /\ SubSeq(t, i + 1, j) \in Seq(Chars) /\ Len(SubSeq(t, i + 1, j)) = j - i
         /\ \A k \in 1 .. j - i : SubSeq(t, i + 1, j)[k] = t[i + k]
<1> DEFINE q == SubSeq(t, i + 1, j)
<1>1. i + 1 \in Nat /\ i + 1 >= 1 /\ i + 1 <= j + 1 /\ j - (i + 1) + 1 = j - i
  OBVIOUS
<1>2. /\ q \in Seq(Chars) /\ Len(q) = j - (i + 1) + 1
      /\ \A k \in 1 .. j - (i + 1) + 1 : q[k] = t[(i + 1) + k - 1]
  BY <1>1, PieceOf
<1> HIDE DEF q
<1>3. \A k \in 1 .. j - i : q[k] = t[i + k]
  <2> SUFFICES ASSUME NEW k \in 1 .. j - i
               PROVE  q[k] = t[i + k]
    OBVIOUS
  <2>1. k \in 1 .. j - (i + 1) + 1 /\ (i + 1) + k - 1 = i + k
    BY <1>1
  <2> QED
    BY <1>2, <2>1
<1> QED
  BY <1>1, <1>2, <1>3 DEF q

Written == [minus : {0, 1}, int : Seq(Chars), frac : Seq(Chars), exp : Seq(Chars)]

\* The syntax of the parts says where the text they make is cut.
LEMMA SyntaxCuts ==
  ASSUME NEW t \in Seq(Chars), NEW p \in Written, WellFormed(p, t, TRUE)
  PROVE  \E a, b, f : Cut(t, a, b, f, Len(t)) /\ p = PartsAt(t, a, b, f)
<1>1. PICK a \in {0, 1}, i \in Seq(Chars), r \in Seq(Chars), e \in Seq(Chars) :
         p = [minus |-> a, int |-> i, frac |-> r, exp |-> e]
  BY DEF Written
<1>2. p.minus = a /\ p.int = i /\ p.frac = r /\ p.exp = e
  BY <1>1
<1>3. PICK b \in Nat, f \in Nat, l \in Nat : b = a + Len(i) /\ f = b + Len(r) /\ l = f + Len(e)
  <2>1. a + Len(i) \in Nat /\ (a + Len(i)) + Len(r) \in Nat
        /\ ((a + Len(i)) + Len(r)) + Len(e) \in Nat
    OBVIOUS
  <2> QED
    BY <2>1, Zenon
<1>4. /\ t = Minuses(a) \o i \o r \o e
      /\ AllDigits(i) /\ ((i # <<>> /\ (i[1] # Digit(0) \/ Len(i) = 1)) \/ (i = <<>> /\ a = 1))
      /\ r = <<>> \/ (r[1] = Char(".") /\ AllDigits(Tail(r)))
      /\ e = <<>> \/ IsExponent(e)
  BY <1>2, Zenon DEF WellFormed, Minuses
<1> USE <1>3
<1> DEFINE m == Minuses(a)
<1>5. m \in Seq(Chars) /\ Len(m) = a /\ \A k \in 1 .. a : m[k] = Char("-")
  BY MinusIsChar DEF Minuses
<1> HIDE DEF m
<1>6. /\ l = Len(t)
      /\ \A k \in 1 .. a : t[k] = m[k]
      /\ \A k \in 1 .. Len(i) : t[a + k] = i[k]
      /\ \A k \in 1 .. Len(r) : t[b + k] = r[k]
      /\ \A k \in 1 .. Len(e) : t[f + k] = e[k]
  <2> DEFINE u == m \o i
             v == u \o r
  <2>1. ASSUME NEW x \in Seq(Chars), NEW y \in Seq(Chars)
        PROVE  /\ x \o y \in Seq(Chars) /\ Len(x \o y) = Len(x) + Len(y)
               /\ \A k \in 1 .. Len(x) : (x \o y)[k] = x[k]
               /\ \A k \in 1 .. Len(y) : (x \o y)[Len(x) + k] = y[k]
    OBVIOUS
  <2>2. u \in Seq(Chars) /\ Len(u) = Len(m) + Len(i)
        /\ (\A k \in 1 .. Len(m) : u[k] = m[k]) /\ (\A k \in 1 .. Len(i) : u[Len(m) + k] = i[k])
    BY <1>5, <2>1
  <2> HIDE DEF u
  <2>3. v \in Seq(Chars) /\ Len(v) = Len(u) + Len(r)
        /\ (\A k \in 1 .. Len(u) : v[k] = u[k]) /\ (\A k \in 1 .. Len(r) : v[Len(u) + k] = r[k])
    BY <2>1, <2>2
  <2>4. t = v \o e
    BY <1>4, Zenon DEF u, v, m
  <2> HIDE DEF v
  <2>5. t \in Seq(Chars) /\ Len(t) = Len(v) + Len(e)
        /\ (\A k \in 1 .. Len(v) : t[k] = v[k]) /\ (\A k \in 1 .. Len(e) : t[Len(v) + k] = e[k])
    <3>1. v \o e \in Seq(Chars) /\ Len(v \o e) = Len(v) + Len(e)
          /\ (\A k \in 1 .. Len(v) : (v \o e)[k] = v[k])
          /\ (\A k \in 1 .. Len(e) : (v \o e)[Len(v) + k] = e[k])
      BY <2>1, <2>3
    <3> QED
      BY <2>4, <3>1, Zenon
  <2>6. /\ Len(m) \in Nat /\ Len(i) \in Nat /\ Len(r) \in Nat /\ Len(e) \in Nat
        /\ Len(m) = a /\ Len(u) = b /\ Len(v) = f /\ a \in Nat /\ b \in Nat /\ f \in Nat
        /\ a <= b /\ b <= f /\ b = a + Len(i) /\ f = b + Len(r)
    BY <1>5, <2>2, <2>3
  <2>7. ASSUME NEW k \in 1 .. a
        PROVE  t[k] = m[k]
    <3>1. k \in 1 .. Len(m) /\ k \in 1 .. Len(u) /\ k \in 1 .. Len(v)
      BY <2>6
    <3> QED
      BY <2>2, <2>3, <2>5, <3>1
  <2>8. ASSUME NEW k \in 1 .. Len(i)
        PROVE  t[a + k] = i[k]
    <3>1. a + k \in 1 .. Len(u) /\ a + k \in 1 .. Len(v) /\ Len(m) = a
      BY <2>6
    <3> QED
      BY <2>2, <2>3, <2>5, <3>1
  <2>9. ASSUME NEW k \in 1 .. Len(r)
        PROVE  t[b + k] = r[k]
    <3>1. b + k \in 1 .. Len(v) /\ Len(u) = b
      BY <2>6
    <3> QED
      BY <2>3, <2>5, <3>1
  <2> QED
    BY <2>5, <2>6, <2>7, <2>8, <2>9
<1>7. Len(i) \in Nat /\ Len(r) \in Nat /\ Len(e) \in Nat
  OBVIOUS
<1>8. a \in Nat /\ a <= b /\ b <= f /\ f <= l
      /\ Len(i) = b - a /\ Len(r) = f - b /\ Len(e) = l - f
  BY <1>7
<1>9. i = SubSeq(t, a + 1, b) /\ r = SubSeq(t, b + 1, f) /\ e = SubSeq(t, f + 1, l)
  <2>1. a + 1 \in Nat /\ a + 1 >= 1 /\ a + 1 <= b + 1 /\ b <= Len(t) /\ Len(i) = b - (a + 1) + 1
        /\ (a + 1) - 1 = a
    BY <1>6, <1>8
  <2>2. b + 1 \in Nat /\ b + 1 >= 1 /\ b + 1 <= f + 1 /\ f <= Len(t) /\ Len(r) = f - (b + 1) + 1
        /\ (b + 1) - 1 = b
    BY <1>6, <1>8
  <2>3. f + 1 \in Nat /\ f + 1 >= 1 /\ f + 1 <= l + 1 /\ l <= Len(t) /\ Len(e) = l - (f + 1) + 1
        /\ (f + 1) - 1 = f
    <3>1. l = Len(t)
      BY <1>6
    <3>2. f + 1 <= l + 1 /\ l <= l /\ Len(e) = l - (f + 1) + 1 /\ (f + 1) - 1 = f /\ f + 1 >= 1
      BY <1>8
    <3> QED
      BY <3>1, <3>2
  <2>4. i = SubSeq(t, a + 1, b)
    <3>1. \A k \in 1 .. Len(i) : t[((a + 1) - 1) + k] = i[k]
      BY <1>6, <2>1
    <3> QED
      BY <2>1, <3>1, PartIs
  <2>5. r = SubSeq(t, b + 1, f)
    <3>1. \A k \in 1 .. Len(r) : t[((b + 1) - 1) + k] = r[k]
      BY <1>6, <2>2
    <3> HIDE <1>3
    <3> QED
      BY <2>2, <3>1, PartIs
  <2>6. e = SubSeq(t, f + 1, l)
    <3>1. \A k \in 1 .. Len(e) : t[((f + 1) - 1) + k] = e[k]
      BY <1>6, <2>3
    <3> QED
      BY <2>3, <3>1, PartIs
  <2> QED
    BY <2>4, <2>5, <2>6
<1>10. \A k \in a + 1 .. b : k - a \in 1 .. Len(i) /\ t[k] = i[k - a]
  <2> SUFFICES ASSUME NEW k \in a + 1 .. b
               PROVE  k - a \in 1 .. Len(i) /\ t[k] = i[k - a]
    OBVIOUS
  <2>1. k - a \in 1 .. Len(i) /\ a + (k - a) = k
    BY <1>8
  <2> QED
    BY <1>6, <2>1
<1>11. \A k \in b + 1 .. f : k - b \in 1 .. Len(r) /\ t[k] = r[k - b]
  <2> SUFFICES ASSUME NEW k \in b + 1 .. f
               PROVE  k - b \in 1 .. Len(r) /\ t[k] = r[k - b]
    OBVIOUS
  <2>1. k - b \in 1 .. Len(r) /\ b + (k - b) = k
    BY <1>8
  <2> QED
    BY <1>6, <2>1
<1>12. \A k \in f + 1 .. l : k - f \in 1 .. Len(e) /\ t[k] = e[k - f]
  <2> SUFFICES ASSUME NEW k \in f + 1 .. l
               PROVE  k - f \in 1 .. Len(e) /\ t[k] = e[k - f]
    OBVIOUS
  <2>1. k - f \in 1 .. Len(e) /\ f + (k - f) = k
    BY <1>8
  <2> QED
    BY <1>6, <2>1
<1>13. IsInt(t, a, b)
  <2>1. a = 1 => t[1] = Char("-")
    BY <1>5, <1>6
  <2>2. DigitsIn(t, a + 1, b)
    <3>1. AllDigits(i) /\ DOMAIN i = 1 .. Len(i)
      BY <1>4
    <3> QED
      BY <1>10, <3>1 DEF AllDigits, DigitsIn
  <2>3. CASE i # <<>> /\ (i[1] # Digit(0) \/ Len(i) = 1)
    <3>1. Len(i) > 0
      BY <2>3
    <3>2. b > a /\ a + 1 \in a + 1 .. b /\ (a + 1) - a = 1
      BY <1>8, <3>1
    <3>3. t[a + 1] = i[1]
      BY <1>10, <3>2
    <3>4. Len(i) = 1 => b = a + 1
      BY <1>8
    <3> QED
      BY <2>1, <2>2, <2>3, <3>2, <3>3, <3>4 DEF IsInt
  <2>4. CASE i = <<>> /\ a = 1
    <3>1. a = 1 /\ b = 1
      <4>1. a = 1 /\ Len(i) = 0
        BY <2>4
      <4> QED
        BY <1>8, <4>1
    <3> QED
      BY <2>1, <2>2, <3>1 DEF IsInt
  <2> QED
    BY <1>4, <2>3, <2>4, Zenon
<1>14. IsFrac(t, b, f)
  <2>1. CASE r = <<>>
    BY <1>8, <2>1 DEF IsFrac
  <2>2. CASE r # <<>>
    <3>1. r[1] = Char(".") /\ AllDigits(Tail(r))
      BY <1>4, <2>2, Zenon
    <3>2. Len(r) > 0 /\ f > b /\ b + 1 \in b + 1 .. f /\ (b + 1) - b = 1
      BY <1>8, <2>2
    <3>3. t[b + 1] = Char(".")
      BY <1>11, <3>1, <3>2
    <3>4. ASSUME NEW k \in b + 2 .. f
          PROVE  IsDigit(t[k])
      <4>1. k \in b + 1 .. f /\ k - b - 1 \in 1 .. Len(r) - 1 /\ (k - b - 1) + 1 = k - b
        BY <1>8
      <4>2. Tail(r) \in Seq(Chars) /\ Len(Tail(r)) = Len(r) - 1
            /\ \A j \in 1 .. Len(r) - 1 : Tail(r)[j] = r[j + 1]
            /\ DOMAIN Tail(r) = 1 .. Len(r) - 1
        BY <2>2
      <4>3. IsDigit(Tail(r)[k - b - 1])
        BY <3>1, <4>1, <4>2, Zenon DEF AllDigits
      <4>4. Tail(r)[k - b - 1] = r[k - b]
        BY <4>1, <4>2, Zenon
      <4> QED
        BY <1>11, <4>1, <4>3, <4>4, Zenon
    <3> QED
      BY <3>2, <3>3, <3>4 DEF IsFrac, DigitsIn
  <2> QED
    BY <2>1, <2>2
<1>15. l = f \/ IsExp(t, f, l)
  <2>1. CASE e = <<>>
    BY <1>8, <2>1
  <2>2. CASE e # <<>>
    <3>1. IsExponent(e)
      BY <1>4, <2>2, Zenon
    <3>2. e \in Seq(Chars) /\ Len(e) \in Nat /\ Len(e) > 1 /\ e[1] = Char("e") /\ Len(e) = l - f
          /\ e # <<>>
      BY <1>8, <3>1, <2>2 DEF IsExponent
    <3>3. f + 1 \in f + 1 .. l /\ f + 2 \in f + 1 .. l /\ (f + 1) - f = 1 /\ (f + 2) - f = 2
      BY <1>8, <3>2
    <3>4. t[f + 1] = Char("e") /\ t[f + 2] = e[2]
      BY <1>12, <3>2, <3>3
    <3>5. CASE e[2] \in Signs
      <4>1. From(t, f) = f + 3
        BY <3>4, <3>5 DEF From
      <4>2. ~AllDigits(Tail(e))
        <5>1. Tail(e)[1] = e[2] /\ 1 \in DOMAIN Tail(e)
          BY <3>2
        <5>2. ~IsDigit(e[2])
          BY <3>5, MarksDiffer DEF Signs
        <5> QED
          BY <5>1, <5>2 DEF AllDigits
      <4>3. Len(e) > 2 /\ AllDigits(SubSeq(e, 3, Len(e)))
        BY <3>1, <4>2 DEF IsExponent
      <4>4. ASSUME NEW k \in f + 3 .. l
            PROVE  IsDigit(t[k])
        <5> DEFINE s == SubSeq(e, 2 + 1, Len(e))
        <5>1. 2 \in Nat /\ 2 <= Len(e) /\ Len(e) <= Len(e)
          BY <3>2
        <5>2. /\ s \in Seq(Chars) /\ Len(s) = Len(e) - 2
              /\ \A j \in 1 .. Len(e) - 2 : s[j] = e[2 + j]
          BY <3>2, <5>1, CutOut
        <5>3. s = SubSeq(e, 3, Len(e))
          OBVIOUS
        <5> HIDE DEF s
        <5>4. k - f - 2 \in 1 .. Len(e) - 2 /\ 2 + (k - f - 2) = k - f /\ k \in f + 1 .. l
          BY <1>8, <3>2
        <5>5. IsDigit(s[k - f - 2])
          <6>1. DOMAIN s = 1 .. Len(e) - 2
            BY <5>2
          <6> QED
            BY <4>3, <5>3, <5>4, <6>1, Zenon DEF AllDigits
        <5>6. s[k - f - 2] = e[k - f]
          BY <5>2, <5>4
        <5> QED
          BY <1>12, <5>4, <5>5, <5>6, Zenon
      <4>5. l >= f + 3
        BY <1>8, <3>2, <4>3
      <4> QED
        BY <3>4, <4>1, <4>4, <4>5 DEF IsExp, DigitsIn
    <3>6. CASE e[2] \notin Signs
      <4>1. From(t, f) = f + 2
        BY <3>4, <3>6 DEF From
      <4>2. AllDigits(Tail(e))
        BY <3>1, <3>6 DEF IsExponent, Signs
      <4>3. ASSUME NEW k \in f + 2 .. l
            PROVE  IsDigit(t[k])
        <5>1. k \in f + 1 .. l /\ k - f - 1 \in 1 .. Len(e) - 1 /\ (k - f - 1) + 1 = k - f
          BY <1>8, <3>2
        <5>2. Tail(e) \in Seq(Chars) /\ Len(Tail(e)) = Len(e) - 1
              /\ \A j \in 1 .. Len(e) - 1 : Tail(e)[j] = e[j + 1]
              /\ DOMAIN Tail(e) = 1 .. Len(e) - 1
          BY <3>2
        <5>3. IsDigit(Tail(e)[k - f - 1])
          BY <4>2, <5>1, <5>2, Zenon DEF AllDigits
        <5>4. Tail(e)[k - f - 1] = e[k - f]
          BY <5>1, <5>2, Zenon
        <5> QED
          BY <1>12, <5>1, <5>3, <5>4, Zenon
      <4>4. l >= f + 2
        BY <1>8, <3>2
      <4> QED
        BY <3>4, <4>1, <4>3, <4>4 DEF IsExp, DigitsIn
    <3> QED
      BY <3>5, <3>6
  <2> QED
    BY <2>1, <2>2
<1>16. Cut(t, a, b, f, l)
  BY <1>8, <1>13, <1>14, <1>15 DEF Cut
<1>17. p = PartsAt(t, a, b, f)
  BY <1>6, <1>9, <1>1, Zenon DEF PartsAt
<1> QED
  BY <1>6, <1>16, <1>17

\* The parts of a text are the ones at the places where it is cut.
LEMMA PartsAreCuts ==
  ASSUME NEW t \in Seq(Chars), NEW p \in Parts(t), WellFormed(p, t, TRUE)
  PROVE  \E a, b, f : Cut(t, a, b, f, Len(t)) /\ p = PartsAt(t, a, b, f)
<1>1. PICK n \in {0, 1}, i \in 0 .. Len(t), f \in 0 .. Len(t) : p = PartsAt(t, n, i, f)
  BY DEF Parts
<1>2. Len(t) \in Nat /\ \A k \in 1 .. Len(t) : t[k] \in Chars
  OBVIOUS
<1>3. SubSeq(t, n + 1, i) \in Seq(Chars)
  BY <1>2, SubSeqProperties
<1>4. SubSeq(t, i + 1, f) \in Seq(Chars)
  BY <1>2, SubSeqProperties
<1>5. SubSeq(t, f + 1, Len(t)) \in Seq(Chars)
  BY <1>2, SubSeqProperties
<1>6. p \in Written
  BY <1>1, <1>3, <1>4, <1>5 DEF PartsAt, Written
<1> QED
  BY <1>6, SyntaxCuts

LEMMA PieceGrows ==
  ASSUME NEW S, NEW t \in Seq(S), NEW i \in Nat, NEW j \in Nat, i >= 1, i <= j + 1, j + 1 <= Len(t)
  PROVE  SubSeq(t, i, j + 1) = Append(SubSeq(t, i, j), t[j + 1])
<1> DEFINE q == SubSeq(t, i, j)
           r == SubSeq(t, i, j + 1)
<1>1. /\ q \in Seq(S) /\ Len(q) = j - i + 1 /\ \A k \in 1 .. j - i + 1 : q[k] = t[i + k - 1]
  <2>1. j <= Len(t)
    OBVIOUS
  <2> QED
    BY <2>1, PieceOf
<1>2. /\ r \in Seq(S) /\ Len(r) = j - i + 2 /\ \A k \in 1 .. j - i + 2 : r[k] = t[i + k - 1]
  <2>1. j + 1 \in Nat /\ i <= (j + 1) + 1 /\ (j + 1) - i + 1 = j - i + 2
    OBVIOUS
  <2> QED
    BY <2>1, PieceOf
<1> HIDE DEF q, r
<1>3. t[j + 1] \in S
  OBVIOUS
<1>4. Append(q, t[j + 1]) \in Seq(S) /\ Len(Append(q, t[j + 1])) = j - i + 2
  BY <1>1, <1>3
<1>5. \A k \in 1 .. j - i + 2 : Append(q, t[j + 1])[k] = r[k]
  <2> SUFFICES ASSUME NEW k \in 1 .. j - i + 2
               PROVE  Append(q, t[j + 1])[k] = r[k]
    OBVIOUS
  <2>1. CASE k = j - i + 2
    <3>1. i + k - 1 = j + 1 /\ k = Len(q) + 1
      BY <1>1, <2>1
    <3>2. Append(q, t[j + 1])[Len(q) + 1] = t[j + 1]
      BY <1>1, <1>3
    <3> QED
      BY <1>2, <3>1, <3>2
  <2>2. CASE k \in 1 .. j - i + 1
    <3>1. Append(q, t[j + 1])[k] = q[k]
      BY <1>1, <1>3, <2>2
    <3> QED
      BY <1>1, <1>2, <2>2, <3>1
  <2>3. k = j - i + 2 \/ k \in 1 .. j - i + 1
    OBVIOUS
  <2> QED
    BY <2>1, <2>2, <2>3
<1>6. r = Append(q, t[j + 1])
  BY <1>2, <1>4, <1>5, SeqEqual
<1> QED
  BY <1>6 DEF q, r

LEMMA PieceStays ==
  ASSUME NEW S, NEW t \in Seq(S), NEW y \in S, NEW i \in Nat, NEW j \in Nat,
         i >= 1, i <= j + 1, j <= Len(t)
  PROVE  SubSeq(Append(t, y), i, j) = SubSeq(t, i, j)
<1> DEFINE u == Append(t, y)
           q == SubSeq(t, i, j)
           r == SubSeq(u, i, j)
<1>1. u \in Seq(S) /\ Len(u) = Len(t) + 1 /\ \A k \in 1 .. Len(t) : u[k] = t[k]
  OBVIOUS
<1>2. /\ q \in Seq(S) /\ Len(q) = j - i + 1 /\ \A k \in 1 .. j - i + 1 : q[k] = t[i + k - 1]
  BY PieceOf
<1> HIDE DEF u
<1>3. /\ r \in Seq(S) /\ Len(r) = j - i + 1 /\ \A k \in 1 .. j - i + 1 : r[k] = u[i + k - 1]
  <2>1. j <= Len(u)
    BY <1>1
  <2> QED
    BY <1>1, <2>1, PieceOf
<1> HIDE DEF q, r
<1>4. \A k \in 1 .. j - i + 1 : q[k] = r[k]
  <2> SUFFICES ASSUME NEW k \in 1 .. j - i + 1
               PROVE  q[k] = r[k]
    OBVIOUS
  <2>1. i + k - 1 \in 1 .. Len(t)
    OBVIOUS
  <2> QED
    BY <1>1, <1>2, <1>3, <2>1
<1>5. q = r
  BY <1>2, <1>3, <1>4, SeqEqual
<1> QED
  BY <1>5 DEF q, r, u

LEMMA PieceOfDigits ==
  ASSUME NEW t \in Seq(Chars), NEW i \in Nat, NEW j \in Nat, i >= 1, i <= j + 1, j <= Len(t),
         DigitsIn(t, i, j)
  PROVE  SubSeq(t, i, j) \in Seq(DigitChars)
<1>1. \A k \in i .. j : t[k] \in DigitChars
  <2> SUFFICES ASSUME NEW k \in i .. j
               PROVE  t[k] \in DigitChars
    OBVIOUS
  <2>1. t[k] \in Chars
    OBVIOUS
  <2> QED
    BY <2>1 DEF DigitsIn, DigitChars
<1> QED
  BY <1>1, SubSeqProperties

-----------------------------------------------------------------------------
\* The digits before the exponent.
Mant(t, a, b, f) == SubSeq(t, a + 1, b) \o SubSeq(t, b + 2, f)

LEMMA PieceOfNone ==
  ASSUME NEW t, NEW i \in Nat, NEW j \in Nat, i > j
  PROVE  SubSeq(t, i, j) = <<>>
<1>1. \A k \in i .. j : t[k] \in {}
  OBVIOUS
<1>2. SubSeq(t, i, j) \in Seq({}) /\ Len(SubSeq(t, i, j)) = 0
  BY <1>1, SubSeqProperties
<1> QED
  BY <1>2

LEMMA MantOfInt ==
  ASSUME NEW t \in Seq(Chars), NEW a \in Nat, NEW b \in Nat, NEW f \in Nat,
         a <= b, b <= Len(t), f <= b + 1
  PROVE  Mant(t, a, b, f) = SubSeq(t, a + 1, b)
<1>1. SubSeq(t, b + 2, f) = <<>>
  BY PieceOfNone
<1>2. SubSeq(t, a + 1, b) \in Seq(Chars)
  BY PieceOf
<1> QED
  BY <1>1, <1>2 DEF Mant

LEMMA MantOfInts ==
  ASSUME NEW t \in Seq(Chars), NEW a \in Nat, NEW b \in Nat, a <= b, b + 1 <= Len(t)
  PROVE  Mant(t, a, b + 1, b + 1) = Append(Mant(t, a, b, b), t[b + 1])
<1>1. Mant(t, a, b + 1, b + 1) = SubSeq(t, a + 1, b + 1)
  <2>1. b + 1 \in Nat /\ a <= b + 1 /\ b + 1 <= (b + 1) + 1
    OBVIOUS
  <2> QED
    BY <2>1, MantOfInt
<1>2. Mant(t, a, b, b) = SubSeq(t, a + 1, b)
  <2>1. b <= Len(t) /\ b <= b + 1
    OBVIOUS
  <2> QED
    BY <2>1, MantOfInt
<1>3. SubSeq(t, a + 1, b + 1) = Append(SubSeq(t, a + 1, b), t[b + 1])
  <2>1. a + 1 \in Nat /\ a + 1 >= 1 /\ a + 1 <= b + 1
    OBVIOUS
  <2> QED
    BY <2>1, PieceGrows
<1> QED
  BY <1>1, <1>2, <1>3

LEMMA MantOfFrac ==
  ASSUME NEW t \in Seq(Chars), NEW a \in Nat, NEW b \in Nat, NEW f \in Nat,
         a <= b, b < f, f + 1 <= Len(t)
  PROVE  Mant(t, a, b, f + 1) = Append(Mant(t, a, b, f), t[f + 1])
<1> DEFINE p == SubSeq(t, a + 1, b)
           q == SubSeq(t, b + 2, f)
<1>1. p \in Seq(Chars)
  BY PieceOf
<1>2. q \in Seq(Chars)
  BY PieceOf
<1>3. SubSeq(t, b + 2, f + 1) = Append(q, t[f + 1])
  <2>1. b + 2 \in Nat /\ b + 2 >= 1 /\ b + 2 <= f + 1
    OBVIOUS
  <2> QED
    BY <2>1, PieceGrows
<1>4. t[f + 1] \in Chars
  OBVIOUS
<1> HIDE DEF p, q
<1>5. p \o Append(q, t[f + 1]) = Append(p \o q, t[f + 1])
  BY <1>1, <1>2, <1>4
<1> QED
  BY <1>3, <1>5 DEF Mant, p, q

LEMMA MantStays ==
  ASSUME NEW t \in Seq(Chars), NEW y \in Chars, NEW a \in Nat, NEW b \in Nat, NEW f \in Nat,
         a <= b, b <= f, f <= Len(t)
  PROVE  Mant(Append(t, y), a, b, f) = Mant(t, a, b, f)
<1>1. SubSeq(Append(t, y), a + 1, b) = SubSeq(t, a + 1, b)
  <2>1. a + 1 \in Nat /\ a + 1 >= 1 /\ a + 1 <= b + 1 /\ b <= Len(t)
    OBVIOUS
  <2> QED
    BY <2>1, PieceStays
<1>2. SubSeq(Append(t, y), b + 2, f) = SubSeq(t, b + 2, f)
  <2>1. CASE f = b
    <3>1. b + 2 \in Nat /\ b + 2 > f
      BY <2>1
    <3> QED
      BY <3>1, PieceOfNone
  <2>2. CASE f # b
    <3>1. b + 2 \in Nat /\ b + 2 >= 1 /\ b + 2 <= f + 1
      BY <2>2
    <3> QED
      BY <3>1, PieceStays
  <2> QED
    BY <2>1, <2>2
<1> QED
  BY <1>1, <1>2 DEF Mant

LEMMA MantIsDigits ==
  ASSUME NEW t \in Seq(Chars), NEW a \in Nat, NEW b \in Nat, NEW f \in Nat,
         a <= b, b <= f, f <= Len(t), IsFrac(t, b, f), DigitsIn(t, a + 1, b)
  PROVE  Mant(t, a, b, f) \in Seq(DigitChars)
<1>1. SubSeq(t, a + 1, b) \in Seq(DigitChars)
  <2>1. a + 1 \in Nat /\ a + 1 >= 1 /\ a + 1 <= b + 1 /\ b <= Len(t)
    OBVIOUS
  <2> QED
    BY <2>1, PieceOfDigits
<1>2. SubSeq(t, b + 2, f) \in Seq(DigitChars)
  <2>1. CASE f = b
    <3>1. b + 2 \in Nat /\ b + 2 > f
      BY <2>1
    <3>2. SubSeq(t, b + 2, f) = <<>>
      BY <3>1, PieceOfNone
    <3> QED
      BY <3>2
  <2>2. CASE f > b
    <3>1. b + 2 \in Nat /\ b + 2 >= 1 /\ b + 2 <= f + 1 /\ DigitsIn(t, b + 2, f)
      BY <2>2 DEF IsFrac
    <3> QED
      BY <3>1, PieceOfDigits
  <2> QED
    BY <2>1, <2>2
<1> QED
  BY <1>1, <1>2 DEF Mant

\* Where a text is cut is told by the characters that are cut.
LEMMA CutSame ==
  ASSUME NEW t, NEW u, NEW l \in Nat, \A k \in 1 .. l : u[k] = t[k],
         NEW a, NEW b, NEW f, Cut(t, a, b, f, l)
  PROVE  Cut(u, a, b, f, l)
<1>1. /\ a \in Nat /\ b \in Nat /\ f \in Nat /\ a <= b /\ b <= f /\ f <= l /\ l >= 1
  BY CutNat
<1>2. \A i \in Nat, j \in Nat : i >= 1 /\ j <= l /\ DigitsIn(t, i, j) => DigitsIn(u, i, j)
  BY <1>1 DEF DigitsIn
<1>3. IsInt(u, a, b)
  <2>1. IsInt(t, a, b)
    BY DEF Cut
  <2>2. DigitsIn(u, a + 1, b)
    BY <1>1, <1>2, <2>1 DEF IsInt
  <2>3. u[1] = t[1] /\ (b > a => u[a + 1] = t[a + 1])
    BY <1>1
  <2> QED
    BY <2>1, <2>2, <2>3 DEF IsInt
<1>4. IsFrac(u, b, f)
  <2>1. IsFrac(t, b, f)
    BY DEF Cut
  <2>2. f > b => u[b + 1] = t[b + 1]
    BY <1>1
  <2>3. DigitsIn(t, b + 2, f) => DigitsIn(u, b + 2, f)
    BY <1>1, <1>2
  <2> QED
    BY <2>1, <2>2, <2>3 DEF IsFrac
<1>5. l = f \/ IsExp(u, f, l)
  <2> SUFFICES ASSUME l # f
               PROVE  IsExp(u, f, l)
    OBVIOUS
  <2>1. IsExp(t, f, l)
    BY DEF Cut
  <2>2. From(t, f) \in Nat /\ From(t, f) >= f + 2 /\ From(t, f) <= l
    BY <1>1, <2>1 DEF IsExp, From
  <2>3. u[f + 1] = t[f + 1] /\ u[f + 2] = t[f + 2]
    BY <1>1, <2>2
  <2>4. From(u, f) = From(t, f)
    BY <2>3 DEF From
  <2>5. DigitsIn(u, From(t, f), l)
    <3>1. From(t, f) >= 1 /\ l <= l
      BY <1>1, <2>2
    <3> QED
      BY <1>2, <2>1, <2>2, <3>1 DEF IsExp
  <2> QED
    BY <2>1, <2>3, <2>4, <2>5 DEF IsExp
<1> QED
  BY <1>3, <1>4, <1>5 DEF Cut

LEMMA CutStays ==
  ASSUME NEW t \in Seq(Chars), NEW y \in Chars, NEW a, NEW b, NEW f, NEW l \in Nat,
         l <= Len(t), Cut(t, a, b, f, l)
  PROVE  Cut(Append(t, y), a, b, f, l)
<1>1. \A k \in 1 .. l : Append(t, y)[k] = t[k]
  OBVIOUS
<1> QED
  BY <1>1, CutSame

\* An "e" behind the fraction: the text can be cut only there.
LEMMA CutBeforeExponent ==
  ASSUME NEW t, NEW a, NEW b, NEW f \in Nat, Cut(t, a, b, f, f), t[f + 1] = Char("e"),
         NEW a2, NEW b2, NEW f2, NEW l \in Nat, Cut(t, a2, b2, f2, l), l > f
  PROVE  f2 = f
<1>1. a = a2
  BY SignsAgree
<1>2. /\ a \in Nat /\ b \in Nat /\ b2 \in Nat /\ f2 \in Nat /\ a <= b /\ b <= f
      /\ b2 <= f2 /\ f2 <= l /\ a <= b2
  BY <1>1, CutNat
<1>3. ~IsDigit(t[b + 1])
  <2>1. CASE b < f
    BY <2>1, BehindInt
  <2>2. CASE b = f
    BY <2>2, MarksDiffer
  <2> QED
    BY <1>2, <2>1, <2>2
<1>4. b2 <= b
  <2> SUFFICES ASSUME b2 > b PROVE FALSE
    BY <1>2
  <2>1. b + 1 \in a + 1 .. b2
    BY <1>2
  <2>2. IsDigit(t[b + 1])
    BY <1>1, <2>1 DEF Cut, IsInt, DigitsIn
  <2> QED
    BY <1>3, <2>2
<1>5. b2 < l => b <= b2
  BY <1>1, IntsAgree
<1>6. b = b2
  BY <1>2, <1>4, <1>5
<1>7. f2 <= f
  <2> SUFFICES ASSUME f2 > f PROVE FALSE
    BY <1>2
  <2>1. t[b + 1] = Char(".") /\ DigitsIn(t, b + 2, f2)
    BY <1>2, <1>6 DEF Cut, IsFrac
  <2>2. CASE f = b
    BY <2>1, <2>2, MarksDiffer
  <2>3. CASE f > b
    <3>1. f + 1 \in b + 2 .. f2
      BY <1>2, <2>3
    <3>2. IsDigit(t[f + 1])
      BY <2>1, <3>1 DEF DigitsIn
    <3> QED
      BY <3>2, MarksDiffer
  <2> QED
    BY <1>2, <2>2, <2>3
<1>8. f2 < l => f <= f2
  BY <1>1, <1>6, FracsAgree
<1> QED
  BY <1>2, <1>7, <1>8

\* No text is a number that ends behind its "e" or the sign after it.
LEMMA DigitIsMissing ==
  ASSUME NEW t, NEW a, NEW b, NEW f \in Nat, Cut(t, a, b, f, f), t[f + 1] = Char("e"),
         NEW l \in Nat,
         \/ l = f + 1 /\ t[f + 2] \notin Signs
         \/ l = f + 2 /\ t[f + 2] \in Signs,
         NEW a2, NEW b2, NEW f2, Cut(t, a2, b2, f2, l)
  PROVE  FALSE
<1>1. f2 = f
  BY CutBeforeExponent
<1>2. IsExp(t, f, l)
  BY <1>1 DEF Cut
<1> QED
  BY <1>2 DEF IsExp, From

-----------------------------------------------------------------------------
\* A text that is cut is a number, if only a lenient one.
LEMMA CutIsLenient ==
  ASSUME NEW t \in Seq(Chars), NEW a, NEW b, NEW f, Cut(t, a, b, f, Len(t))
  PROVE  IsLenient(t)
<1> DEFINE l == Len(t)
           m == Minuses(a)
           i == SubSeq(t, a + 1, b)
           r == SubSeq(t, b + 1, f)
           e == SubSeq(t, f + 1, l)
           p == PartsAt(t, a, b, f)
<1>1. /\ a \in {0, 1} /\ a \in Nat /\ b \in Nat /\ f \in Nat /\ l \in Nat
      /\ a <= b /\ b <= f /\ f <= l
  BY CutNat DEF Cut
<1>2. p \in Parts(t)
  <2>1. b \in 0 .. Len(t) /\ f \in 0 .. Len(t)
    BY <1>1
  <2> QED
    BY <1>1, <2>1 DEF Parts
<1>3. m \in Seq(Chars) /\ Len(m) = a /\ \A k \in 1 .. a : m[k] = Char("-")
  BY <1>1, MinusIsChar DEF Minuses
<1>4. i \in Seq(Chars) /\ Len(i) = b - a /\ \A k \in 1 .. b - a : i[k] = t[a + k]
  <2>1. b <= Len(t)
    BY <1>1
  <2> QED
    BY <1>1, <2>1, CutOut
<1>5. r \in Seq(Chars) /\ Len(r) = f - b /\ \A k \in 1 .. f - b : r[k] = t[b + k]
  <2>1. f <= Len(t)
    BY <1>1
  <2> QED
    BY <1>1, <2>1, CutOut
<1>6. e \in Seq(Chars) /\ Len(e) = l - f /\ \A k \in 1 .. l - f : e[k] = t[f + k]
  <2>1. f <= l /\ l <= Len(t)
    BY <1>1
  <2> QED
    BY <1>1, <2>1, CutOut
<1> HIDE DEF m, i, r, e, l
<1>7. t = m \o i \o r \o e
  <2> DEFINE u == m \o i
             v == u \o r
             w == v \o e
  <2>1. ASSUME NEW x \in Seq(Chars), NEW y \in Seq(Chars)
         PROVE  /\ x \o y \in Seq(Chars) /\ Len(x \o y) = Len(x) + Len(y)
                /\ \A k \in 1 .. Len(x) : (x \o y)[k] = x[k]
                /\ \A k \in 1 .. Len(y) : (x \o y)[Len(x) + k] = y[k]
    OBVIOUS
  <2>2. u \in Seq(Chars) /\ Len(u) = Len(m) + Len(i)
         /\ (\A k \in 1 .. Len(m) : u[k] = m[k]) /\ \A k \in 1 .. Len(i) : u[Len(m) + k] = i[k]
    BY <1>3, <1>4, <2>1
  <2>3. u \in Seq(Chars) /\ Len(u) = b /\ (\A k \in 1 .. a : u[k] = m[k])
        /\ \A k \in 1 .. b - a : u[a + k] = i[k]
    <3>1. Len(m) + Len(i) = b
      BY <1>1, <1>3, <1>4
    <3> QED
      BY <1>3, <1>4, <2>2, <3>1
  <2> HIDE DEF u
  <2>4. v \in Seq(Chars) /\ Len(v) = Len(u) + Len(r)
         /\ (\A k \in 1 .. Len(u) : v[k] = u[k]) /\ \A k \in 1 .. Len(r) : v[Len(u) + k] = r[k]
    BY <1>5, <2>3, <2>1
  <2>5. v \in Seq(Chars) /\ Len(v) = f /\ (\A k \in 1 .. b : v[k] = u[k])
        /\ \A k \in 1 .. f - b : v[b + k] = r[k]
    <3>1. Len(u) + Len(r) = f
      BY <1>1, <1>5, <2>3
    <3> QED
      BY <1>5, <2>3, <2>4, <3>1
  <2> HIDE DEF v
  <2>6. w \in Seq(Chars) /\ Len(w) = Len(v) + Len(e)
         /\ (\A k \in 1 .. Len(v) : w[k] = v[k]) /\ \A k \in 1 .. Len(e) : w[Len(v) + k] = e[k]
    BY <1>6, <2>5, <2>1
  <2>7. w \in Seq(Chars) /\ Len(w) = l /\ (\A k \in 1 .. f : w[k] = v[k])
        /\ \A k \in 1 .. l - f : w[f + k] = e[k]
    <3>1. Len(v) + Len(e) = l
      BY <1>1, <1>6, <2>5
    <3> QED
      BY <1>6, <2>5, <2>6, <3>1
  <2> HIDE DEF w
  <2>8. a = 1 => t[1] = Char("-")
    BY DEF Cut, IsInt
  <2>9. \A k \in 1 .. l : t[k] = w[k]
    <3> SUFFICES ASSUME NEW k \in 1 .. l
                 PROVE  t[k] = w[k]
      OBVIOUS
    <3>1. CASE k <= a
      <4>1. a = 1 /\ k = 1 /\ k \in 1 .. a /\ k \in 1 .. b /\ k \in 1 .. f
        BY <1>1, <3>1
      <4> QED
        BY <1>3, <2>3, <2>5, <2>7, <2>8, <4>1
    <3>2. CASE k > a /\ k <= b
      <4>1. k - a \in 1 .. b - a /\ a + (k - a) = k /\ k \in 1 .. b /\ k \in 1 .. f
        BY <1>1, <3>2
      <4>2. w[k] = u[k] /\ u[k] = i[k - a] /\ i[k - a] = t[k]
        BY <1>4, <2>3, <2>5, <2>7, <4>1
      <4> QED
        BY <4>2
    <3>3. CASE k > b /\ k <= f
      <4>1. k - b \in 1 .. f - b /\ b + (k - b) = k /\ k \in 1 .. f
        BY <1>1, <3>3
      <4>2. w[k] = v[k] /\ v[k] = r[k - b] /\ r[k - b] = t[k]
        BY <1>5, <2>5, <2>7, <4>1
      <4> QED
        BY <4>2
    <3>4. CASE k > f
      <4>1. k - f \in 1 .. l - f /\ f + (k - f) = k
        BY <1>1, <3>4
      <4>2. w[k] = e[k - f] /\ e[k - f] = t[k]
        BY <1>6, <2>7, <4>1
      <4> QED
        BY <4>2
    <3> QED
      BY <1>1, <3>1, <3>2, <3>3, <3>4
  <2>10. t = w
    <3>1. Len(t) = l
      BY DEF l
    <3> QED
      BY <2>7, <2>9, <3>1, SeqEqual
  <2> QED
    BY <2>10 DEF w, v, u
<1>8. AllDigits(i)
  <2>1. ASSUME NEW k \in 1 .. b - a
        PROVE  IsDigit(i[k])
    <3>1. a + k \in a + 1 .. b
      BY <1>1
    <3>2. IsDigit(t[a + k])
      BY <3>1 DEF Cut, IsInt, DigitsIn
    <3> QED
      BY <1>4, <3>2
  <2>2. DOMAIN i = 1 .. b - a
    BY <1>4
  <2> QED
    BY <2>1, <2>2, Zenon DEF AllDigits
<1>9. \/ i # <<>> /\ (i[1] # Digit(0) \/ Len(i) = 1)
      \/ i = <<>> /\ a = 1
  <2>1. CASE b > a /\ (t[a + 1] # Digit(0) \/ b = a + 1)
    <3>1. i # <<>> /\ 1 \in 1 .. b - a
      BY <1>1, <1>4, <2>1
    <3>2. i[1] = t[a + 1]
      BY <1>4, <3>1
    <3>3. b = a + 1 => Len(i) = 1
      BY <1>1, <1>4
    <3> QED
      BY <2>1, <3>1, <3>2, <3>3
  <2>2. CASE a = 1 /\ b = 1
    <3>1. Len(i) = 0
      BY <1>4, <2>2
    <3> QED
      BY <1>4, <2>2, <3>1
  <2> QED
    BY <2>1, <2>2 DEF Cut, IsInt
<1>10. r = <<>> \/ (r[1] = Char(".") /\ AllDigits(Tail(r)))
  <2>1. CASE f = b
    <3>1. Len(r) = 0
      BY <1>1, <1>5, <2>1
    <3> QED
      BY <1>5, <3>1
  <2>2. CASE f > b
    <3>1. t[b + 1] = Char(".") /\ DigitsIn(t, b + 2, f)
      BY <2>2, <1>1 DEF Cut, IsFrac
    <3>2. r[1] = Char(".")
      BY <1>1, <1>5, <2>2, <3>1
    <3>3. Len(Tail(r)) = f - b - 1 /\ DOMAIN Tail(r) = 1 .. f - b - 1
          /\ \A k \in 1 .. f - b - 1 : Tail(r)[k] = r[k + 1]
      BY <1>1, <1>5, <2>2
    <3>4. ASSUME NEW k \in 1 .. f - b - 1
          PROVE  IsDigit(Tail(r)[k])
      <4>1. k + 1 \in 1 .. f - b /\ b + (k + 1) \in b + 2 .. f
        BY <1>1
      <4>2. IsDigit(t[b + (k + 1)])
        BY <3>1, <4>1 DEF DigitsIn
      <4>3. r[k + 1] = t[b + (k + 1)]
        BY <1>5, <4>1
      <4> QED
        BY <3>3, <4>2, <4>3
    <3> QED
      BY <3>2, <3>3, <3>4, Zenon DEF AllDigits
  <2> QED
    BY <1>1, <2>1, <2>2
<1>11. e = <<>> \/ IsExponent(e)
  <2>1. CASE l = f
    <3>1. Len(e) = 0
      BY <1>1, <1>6, <2>1
    <3> QED
      BY <1>6, <3>1
  <2>2. CASE l # f
    <3>1. t[f + 1] = Char("e") /\ l >= From(t, f) /\ DigitsIn(t, From(t, f), l)
      BY <2>2 DEF Cut, IsExp, l
    <3>2. l >= f + 2
      BY <1>1, <3>1 DEF From
    <3>3. Len(e) > 1 /\ e[1] = Char("e") /\ e[2] = t[f + 2]
      BY <1>1, <1>6, <3>1, <3>2
    <3>4. CASE t[f + 2] \in Signs
      <4>1. DigitsIn(t, f + 3, l) /\ l >= f + 3
        BY <3>1, <3>4 DEF From
      <4> DEFINE s == SubSeq(e, 3, Len(e))
      <4>2. Len(e) \in Nat /\ Len(e) > 2
        BY <1>1, <1>6, <4>1
      <4>3. s \in Seq(Chars) /\ Len(s) = Len(e) - 2 /\ \A k \in 1 .. Len(e) - 2 : s[k] = e[2 + k]
        <5>1. /\ 3 <= Len(e) + 1 /\ Len(e) <= Len(e) /\ 3 \in Nat /\ 3 >= 1
              /\ Len(e) - 3 + 1 = Len(e) - 2
          BY <4>2
        <5>2. /\ s \in Seq(Chars) /\ Len(s) = Len(e) - 3 + 1
              /\ \A k \in 1 .. Len(e) - 3 + 1 : s[k] = e[3 + k - 1]
          BY <1>6, <4>2, <5>1, PieceOf
        <5> HIDE DEF s
        <5> QED
          BY <4>2, <5>1, <5>2
      <4> HIDE DEF s
      <4>4. ASSUME NEW k \in 1 .. Len(e) - 2
            PROVE  IsDigit(s[k])
        <5>1. 2 + k \in 1 .. l - f /\ f + (2 + k) \in f + 3 .. l
          BY <1>1, <1>6
        <5>2. IsDigit(t[f + (2 + k)])
          BY <4>1, <5>1 DEF DigitsIn
        <5>3. e[2 + k] = t[f + (2 + k)]
          BY <1>6, <5>1
        <5> QED
          BY <4>3, <5>2, <5>3
      <4>5. AllDigits(s)
        <5>1. DOMAIN s = 1 .. Len(e) - 2
          BY <4>3
        <5> QED
          BY <4>4, <5>1, Zenon DEF AllDigits
      <4>6. e[2] \in {Char("+"), Char("-")}
        BY <3>3, <3>4 DEF Signs
      <4> QED
        BY <3>3, <4>2, <4>5, <4>6 DEF IsExponent, s
    <3>5. CASE t[f + 2] \notin Signs
      <4>1. DigitsIn(t, f + 2, l)
        BY <3>1, <3>5 DEF From
      <4>2. Len(Tail(e)) = l - f - 1 /\ DOMAIN Tail(e) = 1 .. l - f - 1
            /\ \A k \in 1 .. l - f - 1 : Tail(e)[k] = e[k + 1]
        BY <1>1, <1>6, <3>2
      <4>3. ASSUME NEW k \in 1 .. l - f - 1
            PROVE  IsDigit(Tail(e)[k])
        <5>1. k + 1 \in 1 .. l - f /\ f + (k + 1) \in f + 2 .. l
          BY <1>1
        <5>2. IsDigit(t[f + (k + 1)])
          BY <4>1, <5>1 DEF DigitsIn
        <5>3. e[k + 1] = t[f + (k + 1)]
          BY <1>6, <5>1
        <5> QED
          BY <4>2, <5>2, <5>3
      <4>4. AllDigits(Tail(e))
        BY <4>2, <4>3, Zenon DEF AllDigits
      <4> QED
        BY <3>3, <4>4 DEF IsExponent
    <3> QED
      BY <3>4, <3>5
  <2> QED
    BY <2>1, <2>2
<1>12. p.minus = a /\ p.int = i /\ p.frac = r /\ p.exp = e
  BY DEF PartsAt, i, r, e, l
<1> HIDE DEF p
<1>13. WellFormed(p, t, TRUE)
  BY <1>7, <1>8, <1>9, <1>10, <1>11, <1>12, Zenon DEF WellFormed, m, Minuses
<1> QED
  BY <1>2, <1>13 DEF IsLenient

LEMMA Accumulates ==
  ASSUME NEW max \in Nat, NEW s \in Seq(DigitChars), NEW x \in DigitChars
  PROVE  Wrap(Wrap(ValueOf(s), max) * 10 + x.digit, max) = Wrap(ValueOf(Append(s, x)), max)
<1>1. x \in Chars /\ IsDigit(x)
  BY DEF DigitChars
<1>2. x.digit \in Int
  BY <1>1, DigitsAreDigits
<1>3. ValueOf(s) \in Int
  BY ValueIsInt
<1>4. Wrap(ValueOf(s), max) \in Int
  BY <1>3, WrapInRange
<1>5. Wrap(10 * Wrap(ValueOf(s), max) + x.digit, max) = Wrap(10 * ValueOf(s) + x.digit, max)
  <2> DEFINE v == ValueOf(s)
             d == x.digit
  <2>1. v \in Int /\ d \in Int
    BY <1>2, <1>3
  <2> HIDE DEF v, d
  <2>2. ASSUME NEW k \in Int
        PROVE  Wrap(k * Wrap(v, max) + d, max) = Wrap(k * v + d, max)
    BY <2>1, WrapOfWrap
  <2>3. Wrap(10 * Wrap(v, max) + d, max) = Wrap(10 * v + d, max)
    BY <2>2
  <2> QED
    BY <2>3 DEF v, d
<1>6. /\ Wrap(ValueOf(s), max) * 10 + x.digit = 10 * Wrap(ValueOf(s), max) + x.digit
      /\ ValueOf(s) * 10 + x.digit = 10 * ValueOf(s) + x.digit
  BY <1>2, <1>3, <1>4
<1>7. ValueOf(Append(s, x)) = ValueOf(s) * 10 + x.digit
  BY ValueOfMore
<1> QED
  BY <1>5, <1>6, <1>7

-----------------------------------------------------------------------------
\* The characters that have been taken; c is behind them.
Length == Len(text) - 1

\* The number's end was found; a digit is missing in its exponent.
Ended == pc = "value" \/ (pc = "done" /\ result.is # "error")

Missing == pc = "exponent digit" \/ (pc = "done" /\ result.is = "error")

\* Where the text is cut, at each place of parseNumber.
Shape(a, b, f) ==
  LET l == Length
  IN  /\ a <= b /\ b <= f /\ f <= l
      /\ pc = "minus" => l = 0 /\ (IsDigit(c) \/ c = Char("-"))
      /\ pc = "integer" => l = a /\ (a = 0 => IsDigit(c)) /\ (a = 1 => text[1] = Char("-"))
      /\ pc = "digits" => l = b /\ b > a /\ text[a + 1] # Digit(0)
      /\ pc = "point" => l = b /\ (IsDigit(c) => b = a + 1 /\ text[a + 1] = Digit(0))
      /\ pc \notin {"minus", "integer"} => Cut(text, a, b, f, f)
      /\ pc = "fraction" => l = f /\ f > b
      /\ pc = "exponent" => l = f /\ Stops(text, a, b, f, c)
      /\ pc = "sign" => l = f + 1 /\ text[f + 1] = Char("e")
      /\ Missing => /\ text[f + 1] = Char("e")
                    /\ \/ l = f + 1 /\ text[f + 2] \notin Signs
                       \/ l = f + 2 /\ text[f + 2] \in Signs
      /\ pc = "exponent digits" => l > f /\ IsExp(text, f, l)
      /\ Ended => \/ l = f /\ Stops(text, a, b, f, c) /\ c # Char("e")
                  \/ l > f /\ IsExp(text, f, l) /\ ~IsDigit(c)

\* The digits behind the point, and the number that the exponent's are.
Fractional(b, f) == IF f = b THEN 0 ELSE f - b - 1

Tens(t, f, l) == IF l = f THEN 0 ELSE ValueOf(SubSeq(t, From(t, f), l))

\* What the variables of parseNumber hold of it, in their widths.
Values(a, b, f) ==
  /\ val = Wrap(ValueOf(Mant(text, a, b, f)), Int64Max)
  /\ type = IF f = b /\ Length = f THEN "Int32" ELSE "Double"
  /\ exp = Wrap((IF Ended THEN Tens(text, f, Length) ELSE 0) - Fractional(b, f), Int32Max)
  /\ pc \notin {"value", "done"} =>
       exp2 = Wrap(IF pc = "exponent digits" THEN Tens(text, f, Length) ELSE 0, Int32Max)
  /\ sign => pc \in {"exponent digit", "done"} /\ c = Char("-")
  /\ pc = "done" => \/ result = [is |-> "error"]
                    \/ type = "Int32" /\ result = Boxed(Signed)
                    \/ type = "Double" /\ result = DoubleOf
  /\ pc # "done" => result = None

Places == {"minus", "integer", "digits", "point", "fraction", "exponent", "sign",
           "exponent digit", "exponent digits", "value", "done"}

\* The NUL has not been taken.
NoEnd == \A k \in 1 .. Length : text[k] # Char("end")

\* Where the digits begin: behind the sign.
First == IF negative THEN 1 ELSE 0

CutAt(b, f) == b \in Nat /\ f \in Nat /\ Shape(First, b, f) /\ Values(First, b, f)

\* The inductive invariant: some places where the text is cut are those that the
\* variables speak of.
Reading == pc \in Places /\ NoEnd /\ \E b, f : CutAt(b, f)

LEMMA TextIs ==
  ASSUME TextOK
  PROVE  /\ Length \in Nat /\ Len(text) = Length + 1 /\ c \in Chars /\ text[Length + 1] = c
         /\ First \in {0, 1} /\ First \in Nat
  BY DEF TextOK, Length, c, Last, First

LEMMA TextRead ==
  ASSUME TextOK, NEXT
  PROVE  \E y \in Chars : /\ text' = Append(text, y) /\ c' = y /\ Length' = Length + 1
                          /\ TextOK'
                          /\ \A k \in 1 .. Length + 1 : text'[k] = text[k]
<1>1. PICK y \in Chars : text' = Append(text, y)
  BY DEF NEXT
<1>2. TextOK' /\ Len(text') = Len(text) + 1 /\ text'[Len(text) + 1] = y
      /\ \A k \in 1 .. Len(text) : text'[k] = text[k]
  BY <1>1 DEF TextOK
<1>3. c' = y
  BY <1>2 DEF c, Last
<1>4. Length' = Length + 1
  BY <1>2, TextIs DEF Length
<1> QED
  BY <1>1, <1>2, <1>3, <1>4, TextIs

LEMMA TextSame ==
  ASSUME UNCHANGED text
  PROVE  c' = c /\ Length' = Length /\ (NoEnd => NoEnd')
  BY DEF c, Length, NoEnd

\* The NUL is not passed.
LEMMA NoEndStays ==
  ASSUME TextOK, NEXT, NoEnd, c # Char("end")
  PROVE  NoEnd'
<1>1. PICK y \in Chars : /\ Length' = Length + 1
                         /\ \A k \in 1 .. Length + 1 : text'[k] = text[k]
  BY TextRead
<1>2. Length \in Nat /\ text[Length + 1] = c
  BY TextIs
<1>3. ASSUME NEW k \in 1 .. Length + 1
      PROVE  text'[k] # Char("end")
  <2>1. k \in 1 .. Length \/ k = Length + 1
    BY <1>2
  <2> QED
    BY <1>1, <1>2, <2>1 DEF NoEnd
<1> QED
  BY <1>1, <1>3 DEF NoEnd

-----------------------------------------------------------------------------
\* Every step of parseNumber keeps the invariant: each names the places where the
\* text is cut when it is done.
LEMMA MantOfNone ==
  ASSUME NEW t \in Seq(Chars), NEW a \in Nat, a <= Len(t)
  PROVE  Mant(t, a, a, a) = <<>>
<1>1. SubSeq(t, a + 1, a) = <<>>
  BY PieceOfNone
<1>2. SubSeq(t, a + 2, a) = <<>>
  BY PieceOfNone
<1> QED
  BY <1>1, <1>2 DEF Mant

LEMMA MinusStep ==
  ASSUME TextOK, NoEnd, NEW b \in Nat, NEW f \in Nat, Shape(First, b, f), Values(First, b, f),
         Minus
  PROVE  Reading'
<1>1. /\ pc = "minus" /\ pc' = "integer" /\ negative' = (c = Char("-")) /\ result' = result
      /\ UNCHANGED <<val, exp, exp2, sign, type>>
      /\ IF c = Char("-") THEN NEXT ELSE UNCHANGED text
  BY DEF Minus, Goto, Is
<1>2. Length = 0 /\ First = 0 /\ b = 0 /\ f = 0 /\ (IsDigit(c) \/ c = Char("-"))
  BY <1>1, TextIs DEF Shape
<1>3. Mant(text, 0, 0, 0) = <<>>
  BY TextIs, MantOfNone DEF TextOK
<1>4. /\ val = Wrap(ValueOf(<<>>), Int64Max) /\ type = "Int32" /\ exp = Wrap(0 - 0, Int32Max)
      /\ exp2 = Wrap(0, Int32Max) /\ ~sign /\ result = None
  BY <1>1, <1>2, <1>3 DEF Values, Ended, Fractional
<1>5. CASE c = Char("-")
  <2>1. NEXT /\ First' = 1
    BY <1>1, <1>5 DEF First
  <2>2. PICK y \in Chars : /\ text' = Append(text, y) /\ c' = y /\ Length' = Length + 1
                           /\ TextOK'
                           /\ \A k \in 1 .. Length + 1 : text'[k] = text[k]
    BY <2>1, TextRead
  <2>3. text'[1] = Char("-") /\ Length' = 1
    BY <1>2, <1>5, <2>2, TextIs
  <2>4. Shape(1, 1, 1)'
    BY <1>1, <2>3 DEF Shape, Ended, Missing
  <2>5. Mant(text', 1, 1, 1) = <<>>
    <3>1. text' \in Seq(Chars) /\ 1 <= Len(text')
      BY <2>2, <2>3 DEF TextOK
    <3> QED
      BY <3>1, MantOfNone
  <2>6. Values(1, 1, 1)'
    BY <1>1, <1>4, <2>3, <2>5 DEF Values, Ended, Fractional
  <2>7. NoEnd'
    <3>1. c # Char("end")
      BY <1>5, CharsDiffer
    <3> QED
      BY <2>1, <3>1, NoEndStays
  <2> QED
    BY <1>1, <2>1, <2>4, <2>6, <2>7 DEF Reading, CutAt, Places
<1>6. CASE c # Char("-")
  <2>1. UNCHANGED text /\ First' = 0
    BY <1>1, <1>6 DEF First
  <2>2. Length' = 0 /\ c' = c /\ IsDigit(c) /\ NoEnd'
    BY <1>2, <1>6, <2>1, TextSame
  <2>3. Shape(0, 0, 0)'
    BY <1>1, <2>2 DEF Shape, Ended, Missing
  <2>4. Values(0, 0, 0)'
    BY <1>1, <1>3, <1>4, <2>1, <2>2 DEF Values, Ended, Fractional
  <2> QED
    BY <1>1, <2>1, <2>2, <2>3, <2>4 DEF Reading, CutAt, Places
<1> QED
  BY <1>5, <1>6

LEMMA LeadingZeroStep ==
  ASSUME TextOK, NoEnd, NEW b \in Nat, NEW f \in Nat, Shape(First, b, f), Values(First, b, f),
         LeadingZero
  PROVE  Reading'
<1>1. /\ pc = "integer" /\ pc' = "point" /\ c = Digit(0) /\ NEXT /\ result' = result
      /\ UNCHANGED <<negative, val, exp, exp2, sign, type>>
  BY DEF LeadingZero, Goto, numbers
<1>2. PICK a \in Nat : a = First /\ a \in {0, 1}
  BY TextIs
<1>3. Length = a /\ b = a /\ f = a /\ (a = 1 => text[1] = Char("-")) /\ First' = a
  <2>1. First' = First
    BY <1>1 DEF First
  <2> QED
    BY <1>1, <1>2, <2>1 DEF Shape
<1>4. PICK y \in Chars : /\ text' = Append(text, y) /\ c' = y /\ Length' = Length + 1
                         /\ TextOK'
                         /\ \A k \in 1 .. Length + 1 : text'[k] = text[k]
  BY <1>1, TextRead
<1>5. text'[a + 1] = Digit(0) /\ Length' = a + 1 /\ (a = 1 => text'[1] = Char("-"))
  BY <1>1, <1>3, <1>4, TextIs
<1>6. IsDigit(Digit(0)) /\ c # Char("end")
  BY <1>1, DigitZero, OthersAreNoDigits
<1>7. Cut(text', a, a + 1, a + 1, a + 1)
  <2>1. DigitsIn(text', a + 1, a + 1)
    BY <1>5, <1>6 DEF DigitsIn
  <2> QED
    BY <1>2, <1>5, <2>1 DEF Cut, IsInt, IsFrac
<1>8. Shape(a, a + 1, a + 1)'
  BY <1>1, <1>5, <1>7 DEF Shape, Ended, Missing
<1>9. val = Wrap(ValueOf(Mant(text', a, a + 1, a + 1)), Int64Max)
  <2>1. Mant(text, a, a, a) = <<>>
    <3>1. text \in Seq(Chars) /\ a <= Len(text)
      BY <1>3, TextIs DEF TextOK
    <3> QED
      BY <3>1, MantOfNone
  <2>2. Mant(text', a, a, a) = <<>>
    <3>1. text' \in Seq(Chars) /\ a <= Len(text')
      BY <1>4, <1>5 DEF TextOK, Length
    <3> QED
      BY <3>1, MantOfNone
  <2>3. Mant(text', a, a + 1, a + 1) = Append(<<>>, Digit(0))
    <3>1. text' \in Seq(Chars) /\ a <= a /\ a + 1 <= Len(text')
      BY <1>4, <1>5 DEF TextOK, Length
    <3> QED
      BY <1>5, <2>2, <3>1, MantOfInts
  <2>4. <<>> \in Seq(DigitChars) /\ Digit(0) \in DigitChars
    <3>1. Digit(0) \in Chars
      BY <1>1, TextIs
    <3> QED
      BY <1>6, <3>1 DEF DigitChars
  <2>5. ValueOf(Append(<<>>, Digit(0))) = 0 * 10 + Digit(0).digit
    BY <2>4, ValueOfMore, ValueOfNone
  <2>6. Digit(0).digit = 0
    BY DEF Digit
  <2>7. ValueOf(Append(<<>>, Digit(0))) = ValueOf(<<>>)
    BY <2>5, <2>6, ValueOfNone
  <2>8. val = Wrap(ValueOf(<<>>), Int64Max)
    BY <1>2, <1>3, <2>1 DEF Values
  <2> QED
    BY <2>3, <2>7, <2>8
<1>10. Values(a, a + 1, a + 1)'
  <2>1. /\ type = "Int32" /\ exp = Wrap(0 - 0, Int32Max) /\ exp2 = Wrap(0, Int32Max)
        /\ ~sign /\ result = None
    BY <1>1, <1>2, <1>3 DEF Values, Ended, Fractional
  <2> QED
    BY <1>1, <1>5, <1>9, <2>1 DEF Values, Ended, Fractional
<1>11. NoEnd'
  BY <1>1, <1>6, NoEndStays
<1> QED
  BY <1>1, <1>3, <1>8, <1>10, <1>11 DEF Reading, CutAt, Places

\* A digit that is read is one of the sequence's, and no NUL.
LEMMA DigitRead ==
  ASSUME TextOK, IsDigit(c)
  PROVE  c \in DigitChars /\ c # Char("end")
  BY TextIs, OthersAreNoDigits DEF DigitChars

LEMMA IntegerDigitStep ==
  ASSUME TextOK, NoEnd, NEW b \in Nat, NEW f \in Nat, Shape(First, b, f), Values(First, b, f),
         IntegerDigit
  PROVE  Reading'
<1>1. /\ pc = "digits" \/ (pc = "integer" /\ c # Digit(0))
      /\ pc' = "digits" /\ IsDigit(c) /\ NEXT /\ result' = result
      /\ val' = Wrap(val * 10 + c.digit, Int64Max)
      /\ UNCHANGED <<negative, exp, exp2, sign, type>>
  BY DEF IntegerDigit, Goto, Accumulate
<1>2. PICK a \in Nat : a = First /\ a \in {0, 1}
  BY TextIs
<1>3. /\ Length = b /\ f = b /\ a <= b /\ First' = a
      /\ pc = "digits" => Cut(text, a, b, b, b) /\ b > a /\ text[a + 1] # Digit(0)
      /\ pc = "integer" => b = a /\ (a = 1 => text[1] = Char("-"))
  <2>1. First' = First
    BY <1>1 DEF First
  <2>2. Length = b /\ f = b /\ a <= b
    <3>1. a <= b /\ b <= f /\ f <= Length /\ Length \in Nat
      BY <1>2, TextIs DEF Shape
    <3>2. Length = a \/ Length = b
      BY <1>1, <1>2 DEF Shape
    <3> QED
      BY <3>1, <3>2
  <2>3. pc \notin {"minus", "integer"} => Cut(text, a, b, b, b)
    BY <1>2, <2>2 DEF Shape
  <2> QED
    BY <1>1, <1>2, <2>1, <2>2, <2>3 DEF Shape
<1>4. PICK y \in Chars : /\ text' = Append(text, y) /\ c' = y /\ Length' = Length + 1
                         /\ TextOK'
                         /\ \A k \in 1 .. Length + 1 : text'[k] = text[k]
  BY <1>1, TextRead
<1>5. /\ Length' = b + 1 /\ text'[b + 1] = c
      /\ \A k \in 1 .. b + 1 : text'[k] = text[k]
  BY <1>3, <1>4, TextIs
<1>6. c \in DigitChars /\ c # Char("end")
  BY <1>1, DigitRead
<1>7. DigitsIn(text', a + 1, b + 1) /\ text'[a + 1] # Digit(0) /\ (a = 1 => text'[1] = Char("-"))
  <2>1. CASE pc = "digits"
    <3>1. DigitsIn(text, a + 1, b) /\ (a = 1 => text[1] = Char("-"))
      BY <1>3, <2>1 DEF Cut, IsInt
    <3>2. \A k \in a + 1 .. b + 1 : IsDigit(text'[k])
      <4> SUFFICES ASSUME NEW k \in a + 1 .. b + 1
                   PROVE  IsDigit(text'[k])
        OBVIOUS
      <4>1. k = b + 1 \/ (k \in a + 1 .. b /\ k \in 1 .. b + 1)
        OBVIOUS
      <4> QED
        BY <1>1, <1>5, <3>1, <4>1 DEF DigitsIn
    <3>3. a + 1 \in 1 .. b + 1 /\ 1 \in 1 .. b + 1
      BY <1>3
    <3> QED
      BY <1>3, <1>5, <2>1, <3>1, <3>2, <3>3 DEF DigitsIn
  <2>2. CASE pc = "integer" /\ c # Digit(0)
    <3>1. b = a /\ (a = 1 => text[1] = Char("-")) /\ 1 \in 1 .. b + 1
      BY <1>3, <2>2
    <3> QED
      BY <1>1, <1>5, <2>2, <3>1 DEF DigitsIn
  <2> QED
    BY <1>1, <2>1, <2>2
<1>8. Cut(text', a, b + 1, b + 1, b + 1)
  BY <1>2, <1>3, <1>7 DEF Cut, IsInt, IsFrac
<1>9. Shape(a, b + 1, b + 1)'
  <2>1. a <= b + 1 /\ b + 1 <= b + 1 /\ b + 1 > a
    BY <1>3
  <2> QED
    BY <1>1, <1>5, <1>7, <1>8, <2>1 DEF Shape, Ended, Missing
<1>10. val' = Wrap(ValueOf(Mant(text', a, b + 1, b + 1)), Int64Max)
  <2>1. text \in Seq(Chars) /\ b <= Len(text) /\ text' \in Seq(Chars) /\ b + 1 <= Len(text')
    BY <1>3, <1>4, <1>5, TextIs DEF TextOK, Length
  <2>2. Mant(text', a, b, b) = Mant(text, a, b, b)
    <3>1. b <= b
      OBVIOUS
    <3> QED
      BY <1>3, <1>4, <2>1, <3>1, MantStays
  <2>3. Mant(text', a, b + 1, b + 1) = Append(Mant(text, a, b, b), c)
    BY <1>3, <1>5, <2>1, <2>2, MantOfInts
  <2>4. Mant(text, a, b, b) \in Seq(DigitChars)
    <3>1. DigitsIn(text, a + 1, b)
      <4>1. CASE pc = "digits"
        BY <1>3, <4>1 DEF Cut, IsInt
      <4>2. CASE pc = "integer"
        BY <1>3, <4>2 DEF DigitsIn
      <4> QED
        BY <1>1, <4>1, <4>2
    <3>2. IsFrac(text, b, b) /\ b <= b
      BY DEF IsFrac
    <3> QED
      BY <1>3, <2>1, <3>1, <3>2, MantIsDigits
  <2>5. val = Wrap(ValueOf(Mant(text, a, b, b)), Int64Max)
    BY <1>2, <1>3 DEF Values
  <2> QED
    BY <1>1, <1>6, <2>3, <2>4, <2>5, Accumulates, Widths
<1>11. Values(a, b + 1, b + 1)'
  <2>1. /\ type = "Int32" /\ exp = Wrap(0 - 0, Int32Max) /\ exp2 = Wrap(0, Int32Max)
        /\ ~sign /\ result = None
    BY <1>1, <1>2, <1>3 DEF Values, Ended, Fractional
  <2> QED
    BY <1>1, <1>5, <1>10, <2>1 DEF Values, Ended, Fractional
<1>12. NoEnd'
  BY <1>1, <1>6, NoEndStays
<1> QED
  BY <1>1, <1>3, <1>9, <1>11, <1>12 DEF Reading, CutAt, Places

LEMMA IntegerEndStep ==
  ASSUME TextOK, NoEnd, NEW b \in Nat, NEW f \in Nat, Shape(First, b, f), Values(First, b, f),
         IntegerEnd
  PROVE  Reading'
<1>1. /\ pc \in {"integer", "digits"} /\ ~IsDigit(c) /\ pc' = "point" /\ result' = result
      /\ UNCHANGED <<text, negative, val, exp, exp2, sign, type>>
  BY DEF IntegerEnd, Goto, numbers
<1>2. PICK a \in Nat : a = First /\ a \in {0, 1}
  BY TextIs
<1>3. /\ Length = b /\ f = b /\ a <= b /\ First' = a
      /\ pc = "digits" => Cut(text, a, b, b, b)
      /\ pc = "integer" => b = a /\ (a = 1 => text[1] = Char("-")) /\ (a = 0 => IsDigit(c))
  <2>1. First' = First
    BY <1>1 DEF First
  <2>2. Length = b /\ f = b /\ a <= b
    <3>1. a <= b /\ b <= f /\ f <= Length /\ Length \in Nat
      BY <1>2, TextIs DEF Shape
    <3>2. Length = a \/ Length = b
      BY <1>1, <1>2 DEF Shape
    <3> QED
      BY <3>1, <3>2
  <2>3. pc = "digits" => Cut(text, a, b, b, b)
    BY <1>2, <2>2 DEF Shape
  <2> QED
    BY <1>1, <1>2, <2>1, <2>2, <2>3 DEF Shape
<1>4. c' = c /\ Length' = Length /\ NoEnd'
  BY <1>1, TextSame
<1>5. Cut(text, a, b, b, b)
  <2>1. CASE pc = "digits"
    BY <1>3, <2>1
  <2>2. CASE pc = "integer"
    <3>1. a = 1 /\ b = 1 /\ text[1] = Char("-")
      BY <1>1, <1>2, <1>3, <2>2
    <3> QED
      BY <3>1 DEF Cut, IsInt, IsFrac, DigitsIn
  <2> QED
    BY <1>1, <2>1, <2>2
<1>6. Shape(a, b, b)'
  BY <1>1, <1>3, <1>4, <1>5 DEF Shape, Ended, Missing
<1>7. Values(a, b, b)'
  BY <1>1, <1>2, <1>3, <1>4 DEF Values, Ended, Fractional
<1> QED
  BY <1>1, <1>3, <1>4, <1>6, <1>7 DEF Reading, CutAt, Places

LEMMA PointStep ==
  ASSUME TextOK, NoEnd, NEW b \in Nat, NEW f \in Nat, Shape(First, b, f), Values(First, b, f),
         Point
  PROVE  Reading'
<1>1. /\ pc = "point" /\ c = Char(".") /\ pc' = "fraction" /\ type' = "Double" /\ NEXT
      /\ UNCHANGED <<negative, val, exp, exp2, sign, result>>
  BY DEF Point, Goto, Is
<1>2. PICK a \in Nat : a = First /\ a \in {0, 1}
  BY TextIs
<1>3. /\ Length = b /\ f = b /\ a <= b /\ First' = a /\ Cut(text, a, b, b, b)
  <2>1. First' = First
    BY <1>1 DEF First
  <2> QED
    BY <1>1, <1>2, <2>1, TextIs DEF Shape
<1>4. PICK y \in Chars : /\ text' = Append(text, y) /\ c' = y /\ Length' = Length + 1
                         /\ TextOK'
                         /\ \A k \in 1 .. Length + 1 : text'[k] = text[k]
  BY <1>1, TextRead
<1>5. Length' = b + 1 /\ text'[b + 1] = Char(".") /\ b <= Len(text) /\ text \in Seq(Chars)
      /\ text' \in Seq(Chars) /\ b + 1 <= Len(text')
  BY <1>1, <1>3, <1>4, TextIs DEF TextOK, Length
<1>6. Cut(text', a, b, b + 1, b + 1)
  <2>1. Cut(text', a, b, b, b)
    BY <1>3, <1>4, <1>5, CutStays
  <2>2. DigitsIn(text', b + 2, b + 1)
    BY DEF DigitsIn
  <2> QED
    BY <1>2, <1>3, <1>5, <2>1, <2>2 DEF Cut, IsFrac
<1>7. Shape(a, b, b + 1)'
  BY <1>1, <1>3, <1>5, <1>6 DEF Shape, Ended, Missing
<1>8. Mant(text', a, b, b + 1) = Mant(text, a, b, b)
  <2>1. b <= b + 1 /\ b + 1 <= b + 1 /\ b <= Len(text') /\ b + 1 \in Nat /\ b <= b
    BY <1>5
  <2>2. Mant(text', a, b, b + 1) = SubSeq(text', a + 1, b)
    BY <1>3, <1>5, <2>1, MantOfInt
  <2>3. Mant(text', a, b, b) = SubSeq(text', a + 1, b)
    BY <1>3, <1>5, <2>1, MantOfInt
  <2>4. Mant(text', a, b, b) = Mant(text, a, b, b)
    BY <1>3, <1>4, <1>5, <2>1, MantStays
  <2> QED
    BY <2>2, <2>3, <2>4
<1>9. Values(a, b, b + 1)'
  <2>1. /\ exp = Wrap(0 - 0, Int32Max) /\ exp2 = Wrap(0, Int32Max) /\ ~sign /\ result = None
        /\ val = Wrap(ValueOf(Mant(text, a, b, b)), Int64Max)
    BY <1>1, <1>2, <1>3 DEF Values, Ended, Fractional
  <2>2. (b + 1) - b - 1 = 0 /\ b + 1 # b
    OBVIOUS
  <2> QED
    BY <1>1, <1>5, <1>8, <2>1, <2>2 DEF Values, Ended, Fractional
<1>10. NoEnd'
  <2>1. c # Char("end")
    BY <1>1, CharsDiffer
  <2> QED
    BY <1>1, <2>1, NoEndStays
<1> QED
  BY <1>1, <1>3, <1>7, <1>9, <1>10 DEF Reading, CutAt, Places

LEMMA FractionDigitStep ==
  ASSUME TextOK, NoEnd, NEW b \in Nat, NEW f \in Nat, Shape(First, b, f), Values(First, b, f),
         FractionDigit
  PROVE  Reading'
<1>1. /\ pc = "fraction" /\ pc' = pc /\ IsDigit(c) /\ NEXT /\ result' = result
      /\ val' = Wrap(val * 10 + c.digit, Int64Max) /\ exp' = Wrap(exp - 1, Int32Max)
      /\ UNCHANGED <<negative, exp2, sign, type>>
  BY DEF FractionDigit, Accumulate
<1>2. PICK a \in Nat : a = First /\ a \in {0, 1}
  BY TextIs
<1>3. Length = f /\ f > b /\ a <= b /\ First' = a /\ Cut(text, a, b, f, f)
  <2>1. First' = First
    BY <1>1 DEF First
  <2> QED
    BY <1>1, <1>2, <2>1 DEF Shape
<1>4. PICK y \in Chars : /\ text' = Append(text, y) /\ c' = y /\ Length' = Length + 1
                         /\ TextOK'
                         /\ \A k \in 1 .. Length + 1 : text'[k] = text[k]
  BY <1>1, TextRead
<1>5. Length' = f + 1 /\ text'[f + 1] = c /\ f <= Len(text) /\ text \in Seq(Chars)
      /\ text' \in Seq(Chars) /\ f + 1 <= Len(text')
  BY <1>1, <1>3, <1>4, TextIs DEF TextOK, Length
<1>6. c \in DigitChars /\ c # Char("end")
  BY <1>1, DigitRead
<1>7. Cut(text', a, b, f, f)
  BY <1>3, <1>4, <1>5, CutStays
<1>8. Cut(text', a, b, f + 1, f + 1)
  <2>1. text'[b + 1] = Char(".") /\ DigitsIn(text', b + 2, f)
    BY <1>3, <1>7 DEF Cut, IsFrac
  <2>2. \A k \in b + 2 .. f + 1 : IsDigit(text'[k])
    <3> SUFFICES ASSUME NEW k \in b + 2 .. f + 1
                 PROVE  IsDigit(text'[k])
      OBVIOUS
    <3>1. k = f + 1 \/ k \in b + 2 .. f
      OBVIOUS
    <3> QED
      BY <1>1, <1>5, <2>1, <3>1 DEF DigitsIn
  <2>3. IsFrac(text', b, f + 1)
    <3>1. f + 1 > b
      BY <1>3
    <3> QED
      BY <2>1, <2>2, <3>1 DEF IsFrac, DigitsIn
  <2>4. IsInt(text', a, b) /\ b \in a .. f + 1 /\ f + 1 \in b .. f + 1
    BY <1>3, <1>7 DEF Cut
  <2> QED
    BY <1>2, <2>3, <2>4 DEF Cut
<1>9. Shape(a, b, f + 1)'
  <2>1. b <= f + 1 /\ f + 1 <= f + 1 /\ f + 1 > b
    BY <1>3
  <2> QED
    BY <1>1, <1>3, <1>5, <1>8, <2>1 DEF Shape, Ended, Missing
<1>10. val' = Wrap(ValueOf(Mant(text', a, b, f + 1)), Int64Max)
  <2>1. a <= b /\ b <= f /\ b < f
    BY <1>3
  <2>2. Mant(text', a, b, f) = Mant(text, a, b, f)
    BY <1>4, <1>5, <2>1, MantStays
  <2>3. Mant(text', a, b, f + 1) = Append(Mant(text, a, b, f), c)
    BY <1>5, <2>1, <2>2, MantOfFrac
  <2>4. Mant(text, a, b, f) \in Seq(DigitChars)
    <3>1. DigitsIn(text, a + 1, b) /\ IsFrac(text, b, f)
      BY <1>3 DEF Cut, IsInt
    <3> QED
      BY <1>5, <2>1, <3>1, MantIsDigits
  <2>5. val = Wrap(ValueOf(Mant(text, a, b, f)), Int64Max)
    BY <1>2 DEF Values
  <2> QED
    BY <1>1, <1>6, <2>3, <2>4, <2>5, Accumulates, Widths
<1>11. exp' = Wrap(0 - Fractional(b, f + 1), Int32Max)
  <2>1. exp = Wrap(0 - Fractional(b, f), Int32Max)
    BY <1>1, <1>2 DEF Values, Ended
  <2>2. PICK n \in Int : n = 0 - Fractional(b, f) /\ n - 1 = 0 - Fractional(b, f + 1)
    <3>1. 0 - Fractional(b, f) \in Int /\ (0 - Fractional(b, f)) - 1 = 0 - Fractional(b, f + 1)
      BY <1>3 DEF Fractional
    <3> QED
      BY <3>1
  <2>3. Wrap(Wrap(n, Int32Max) - 1, Int32Max) = Wrap(n - 1, Int32Max)
    <3>1. Wrap(n, Int32Max) \in Int
      BY Widths, WrapInRange
    <3>2. Wrap(1 * Wrap(n, Int32Max) + (-1), Int32Max) = Wrap(1 * n + (-1), Int32Max)
      <4>1. 1 \in Int /\ -1 \in Int
        OBVIOUS
      <4> QED
        BY <4>1, Widths, WrapOfWrap
    <3>3. 1 * Wrap(n, Int32Max) + (-1) = Wrap(n, Int32Max) - 1 /\ 1 * n + (-1) = n - 1
      BY <3>1
    <3> QED
      BY <3>2, <3>3
  <2> QED
    BY <1>1, <2>1, <2>2, <2>3
<1>12. Values(a, b, f + 1)'
  <2>1. type = "Double" /\ exp2 = Wrap(0, Int32Max) /\ ~sign /\ result = None
    <3>1. f # b
      BY <1>3
    <3> QED
      BY <1>1, <1>2, <3>1 DEF Values, Ended
  <2>2. f + 1 # b
    BY <1>3
  <2> QED
    BY <1>1, <1>5, <1>10, <1>11, <2>1, <2>2 DEF Values, Ended
<1>13. NoEnd'
  BY <1>1, <1>6, NoEndStays
<1> QED
  BY <1>1, <1>3, <1>9, <1>12, <1>13 DEF Reading, CutAt, Places

LEMMA FractionEndStep ==
  ASSUME TextOK, NoEnd, NEW b \in Nat, NEW f \in Nat, Shape(First, b, f), Values(First, b, f),
         FractionEnd
  PROVE  Reading'
<1>1. /\ (pc = "fraction" /\ ~IsDigit(c)) \/ (pc = "point" /\ c # Char("."))
      /\ pc' = "exponent" /\ result' = result
      /\ UNCHANGED <<text, negative, val, exp, exp2, sign, type>>
  BY DEF FractionEnd, Goto, numbers, Is
<1>2. PICK a \in Nat : a = First /\ a \in {0, 1}
  BY TextIs
<1>3. /\ a <= b /\ b <= f /\ f = Length /\ First' = a /\ Cut(text, a, b, f, f)
      /\ Stops(text, a, b, f, c)
  <2>1. First' = First
    BY <1>1 DEF First
  <2>2. a <= b /\ b <= f /\ f <= Length /\ Length \in Nat /\ Cut(text, a, b, f, f)
    BY <1>1, <1>2, TextIs DEF Shape
  <2>3. CASE pc = "fraction" /\ ~IsDigit(c)
    <3>1. f = Length /\ f > b
      BY <1>2, <2>3 DEF Shape
    <3>2. Stops(text, a, b, f, c)
      BY <2>3, <3>1 DEF Stops
    <3> QED
      BY <1>2, <2>1, <2>2, <3>1, <3>2
  <2>4. CASE pc = "point" /\ c # Char(".")
    <3>1. Length = b /\ (IsDigit(c) => b = a + 1 /\ text[a + 1] = Digit(0))
      BY <1>2, <2>4 DEF Shape
    <3>2. f = b /\ f = Length
      BY <2>2, <3>1
    <3>3. Stops(text, a, b, f, c)
      BY <2>4, <3>1, <3>2 DEF Stops
    <3> QED
      BY <1>2, <2>1, <2>2, <3>2, <3>3
  <2> QED
    BY <1>1, <2>3, <2>4
<1>4. c' = c /\ Length' = Length /\ NoEnd'
  BY <1>1, TextSame
<1>5. Shape(a, b, f)'
  BY <1>1, <1>3, <1>4 DEF Shape, Ended, Missing
<1>6. Values(a, b, f)'
  BY <1>1, <1>2, <1>3, <1>4 DEF Values, Ended
<1> QED
  BY <1>1, <1>3, <1>4, <1>5, <1>6 DEF Reading, CutAt, Places

LEMMA ExponentStep ==
  ASSUME TextOK, NoEnd, NEW b \in Nat, NEW f \in Nat, Shape(First, b, f), Values(First, b, f),
         Exponent
  PROVE  Reading'
<1>1. /\ pc = "exponent" /\ c = Char("e") /\ pc' = "sign" /\ type' = "Double" /\ NEXT
      /\ UNCHANGED <<negative, val, exp, exp2, sign, result>>
  BY DEF Exponent, Goto, Is
<1>2. PICK a \in Nat : a = First /\ a \in {0, 1}
  BY TextIs
<1>3. a <= b /\ b <= f /\ f = Length /\ First' = a /\ Cut(text, a, b, f, f)
  <2>1. First' = First
    BY <1>1 DEF First
  <2> QED
    BY <1>1, <1>2, <2>1 DEF Shape
<1>4. PICK y \in Chars : /\ text' = Append(text, y) /\ c' = y /\ Length' = Length + 1
                         /\ TextOK'
                         /\ \A k \in 1 .. Length + 1 : text'[k] = text[k]
  BY <1>1, TextRead
<1>5. Length' = f + 1 /\ text'[f + 1] = Char("e") /\ f <= Len(text) /\ text \in Seq(Chars)
  BY <1>1, <1>3, <1>4, TextIs DEF TextOK, Length
<1>6. Cut(text', a, b, f, f) /\ Mant(text', a, b, f) = Mant(text, a, b, f)
  BY <1>3, <1>4, <1>5, CutStays, MantStays
<1>7. Shape(a, b, f)'
  <2>1. f <= f + 1
    OBVIOUS
  <2> QED
    BY <1>1, <1>3, <1>5, <1>6, <2>1 DEF Shape, Ended, Missing
<1>8. Values(a, b, f)'
  <2>1. f + 1 # f
    OBVIOUS
  <2> QED
    BY <1>1, <1>2, <1>5, <1>6, <2>1 DEF Values, Ended
<1>9. NoEnd'
  <2>1. c # Char("end")
    BY <1>1, CharsDiffer
  <2> QED
    BY <1>1, <2>1, NoEndStays
<1> QED
  BY <1>1, <1>3, <1>7, <1>8, <1>9 DEF Reading, CutAt, Places

LEMMA SignStep ==
  ASSUME TextOK, NoEnd, NEW b \in Nat, NEW f \in Nat, Shape(First, b, f), Values(First, b, f),
         Sign
  PROVE  Reading'
<1>1. /\ pc = "sign" /\ c \in Signs /\ pc' = "exponent digit" /\ sign' = (c' = Char("-")) /\ NEXT
      /\ UNCHANGED <<negative, val, exp, exp2, type, result>>
  BY DEF Sign, Goto, Is, Signs
<1>2. PICK a \in Nat : a = First /\ a \in {0, 1}
  BY TextIs
<1>3. /\ a <= b /\ b <= f /\ Length = f + 1 /\ First' = a /\ Cut(text, a, b, f, f)
      /\ text[f + 1] = Char("e")
  <2>1. First' = First
    BY <1>1 DEF First
  <2> QED
    BY <1>1, <1>2, <2>1 DEF Shape
<1>4. PICK y \in Chars : /\ text' = Append(text, y) /\ c' = y /\ Length' = Length + 1
                         /\ TextOK'
                         /\ \A k \in 1 .. Length + 1 : text'[k] = text[k]
  BY <1>1, TextRead
<1>5. Length' = f + 2 /\ text'[f + 1] = Char("e") /\ text'[f + 2] = c /\ f <= Len(text)
      /\ text \in Seq(Chars)
  <2>1. Length + 1 = f + 2 /\ f + 1 \in 1 .. Length + 1 /\ f + 2 \in 1 .. Length + 1
    BY <1>3
  <2>2. Len(text) = Length + 1 /\ text[Length + 1] = c
    BY TextIs
  <2>3. f <= Len(text) /\ text \in Seq(Chars)
    BY <2>1, <2>2 DEF TextOK
  <2> QED
    BY <1>3, <1>4, <2>1, <2>2, <2>3
<1>6. Cut(text', a, b, f, f) /\ Mant(text', a, b, f) = Mant(text, a, b, f)
  BY <1>3, <1>4, <1>5, CutStays, MantStays
<1>7. Shape(a, b, f)'
  <2>1. f <= f + 2
    OBVIOUS
  <2> QED
    BY <1>1, <1>3, <1>5, <1>6, <2>1 DEF Shape, Ended, Missing
<1>8. Values(a, b, f)'
  <2>1. f + 1 # f /\ f + 2 # f
    OBVIOUS
  <2> QED
    BY <1>1, <1>2, <1>3, <1>5, <1>6, <2>1 DEF Values, Ended
<1>9. NoEnd'
  <2>1. c # Char("end")
    BY <1>1, CharsDiffer DEF Signs
  <2> QED
    BY <1>1, <2>1, NoEndStays
<1> QED
  BY <1>1, <1>3, <1>7, <1>8, <1>9 DEF Reading, CutAt, Places

LEMMA NoSignStep ==
  ASSUME TextOK, NoEnd, NEW b \in Nat, NEW f \in Nat, Shape(First, b, f), Values(First, b, f),
         NoSign
  PROVE  Reading'
<1>1. /\ pc = "sign" /\ c \notin Signs /\ pc' = "exponent digit" /\ result' = result
      /\ UNCHANGED <<text, negative, val, exp, exp2, sign, type>>
  BY DEF NoSign, Goto, numbers, Is, Signs
<1>2. PICK a \in Nat : a = First /\ a \in {0, 1}
  BY TextIs
<1>3. /\ a <= b /\ b <= f /\ Length = f + 1 /\ First' = a /\ Cut(text, a, b, f, f)
      /\ text[f + 1] = Char("e") /\ text[f + 2] = c
  <2>1. First' = First
    BY <1>1 DEF First
  <2>2. Length = f + 1
    BY <1>1 DEF Shape
  <2>3. text[f + 2] = c
    BY <2>2, TextIs
  <2> QED
    BY <1>1, <1>2, <2>1, <2>2, <2>3 DEF Shape
<1>4. c' = c /\ Length' = Length /\ NoEnd'
  BY <1>1, TextSame
<1>5. Shape(a, b, f)'
  <2>1. f <= f + 1
    OBVIOUS
  <2> QED
    BY <1>1, <1>3, <1>4, <2>1 DEF Shape, Ended, Missing
<1>6. Values(a, b, f)'
  BY <1>1, <1>2, <1>3, <1>4 DEF Values, Ended
<1> QED
  BY <1>1, <1>3, <1>4, <1>5, <1>6 DEF Reading, CutAt, Places

LEMMA NeedDigitStep ==
  ASSUME TextOK, NoEnd, NEW b \in Nat, NEW f \in Nat, Shape(First, b, f), Values(First, b, f),
         NeedDigit
  PROVE  Reading'
<1>1. /\ pc = "exponent digit" /\ pc' = "done" /\ result' = [is |-> "error"]
      /\ UNCHANGED <<text, negative, val, exp, exp2, sign, type>>
  BY DEF NeedDigit, numbers
<1>2. PICK a \in Nat : a = First /\ a \in {0, 1}
  BY TextIs
<1>3. First' = a /\ c' = c /\ Length' = Length /\ NoEnd' /\ result'.is = "error"
  <2>1. First' = First
    BY <1>1 DEF First
  <2> QED
    BY <1>1, <1>2, <2>1, TextSame
<1>4. Shape(a, b, f)'
  BY <1>1, <1>2, <1>3 DEF Shape, Ended, Missing
<1>5. Values(a, b, f)'
  BY <1>1, <1>2, <1>3 DEF Values, Ended
<1> QED
  BY <1>1, <1>3, <1>4, <1>5 DEF Reading, CutAt, Places

LEMMA ExponentDigitStep ==
  ASSUME TextOK, NoEnd, NEW b \in Nat, NEW f \in Nat, Shape(First, b, f), Values(First, b, f),
         ExponentDigit
  PROVE  Reading'
<1>1. /\ pc \in {"exponent digit", "exponent digits"} /\ IsDigit(c) /\ pc' = "exponent digits"
      /\ exp2' = Wrap(exp2 * 10 + c.digit, Int32Max) /\ NEXT
      /\ UNCHANGED <<negative, val, exp, sign, type, result>>
  BY DEF ExponentDigit, Goto, Accumulate
<1>2. PICK a \in Nat : a = First /\ a \in {0, 1}
  BY TextIs
<1>3. PICK l \in Nat : l = Length
  BY TextIs
<1> DEFINE g == From(text, f)
<1>4. /\ a <= b /\ b <= f /\ f < l /\ First' = a /\ Cut(text, a, b, f, f)
      /\ text[f + 1] = Char("e") /\ g <= l + 1 /\ g >= f + 2 /\ g \in Nat
      /\ DigitsIn(text, g, l)
      /\ exp2 = Wrap(ValueOf(SubSeq(text, g, l)), Int32Max)
  <2>1. First' = First
    BY <1>1 DEF First
  <2>2. a <= b /\ b <= f /\ Cut(text, a, b, f, f)
    BY <1>1, <1>2 DEF Shape
  <2>3. CASE pc = "exponent digit"
    <3>1. /\ text[f + 1] = Char("e")
          /\ \/ l = f + 1 /\ text[f + 2] \notin Signs
             \/ l = f + 2 /\ text[f + 2] \in Signs
      BY <1>3, <2>3 DEF Shape, Missing
    <3>2. g = l + 1 /\ f < l /\ g >= f + 2
      BY <3>1 DEF From
    <3>3. DigitsIn(text, g, l)
      BY <3>2 DEF DigitsIn
    <3>4. SubSeq(text, g, l) = <<>>
      BY <3>2, PieceOfNone
    <3>5. exp2 = Wrap(0, Int32Max)
      BY <2>3 DEF Values
    <3> QED
      <4>1. exp2 = Wrap(ValueOf(SubSeq(text, g, l)), Int32Max)
        BY <3>4, <3>5, ValueOfNone
      <4>2. g <= l + 1 /\ g \in Nat
        BY <3>2
      <4> QED
        BY <1>2, <2>1, <2>2, <3>1, <3>2, <3>3, <4>1, <4>2
  <2>4. CASE pc = "exponent digits"
    <3>1. f < l /\ IsExp(text, f, l)
      BY <1>3, <2>4 DEF Shape
    <3>2. text[f + 1] = Char("e") /\ g <= l /\ DigitsIn(text, g, l)
      BY <3>1 DEF IsExp
    <3>3. g >= f + 2 /\ g \in Nat /\ g <= l + 1
      BY <3>2 DEF From
    <3>4. exp2 = Wrap(ValueOf(SubSeq(text, g, l)), Int32Max)
      <4>1. exp2 = Wrap(Tens(text, f, l), Int32Max)
        BY <1>3, <2>4 DEF Values
      <4>2. l # f
        BY <3>1
      <4> QED
        BY <4>1, <4>2 DEF Tens
    <3> QED
      BY <1>2, <2>1, <2>2, <3>1, <3>2, <3>3, <3>4
  <2> QED
    BY <1>1, <2>3, <2>4
<1>5. PICK y \in Chars : /\ text' = Append(text, y) /\ c' = y /\ Length' = Length + 1
                         /\ TextOK'
                         /\ \A k \in 1 .. Length + 1 : text'[k] = text[k]
  BY <1>1, TextRead
<1>6. /\ Length' = l + 1 /\ text'[l + 1] = c /\ Len(text) = l + 1
      /\ text \in Seq(Chars) /\ text' \in Seq(Chars) /\ l + 1 <= Len(text')
      /\ \A k \in 1 .. l + 1 : text'[k] = text[k]
  BY <1>3, <1>5, TextIs DEF TextOK, Length
<1>7. c \in DigitChars /\ c # Char("end")
  BY <1>1, DigitRead
<1>8. Cut(text', a, b, f, f) /\ Mant(text', a, b, f) = Mant(text, a, b, f)
  <2>1. f <= Len(text)
    BY <1>4, <1>6
  <2> QED
    BY <1>4, <1>5, <1>6, <2>1, CutStays, MantStays
<1>9. From(text', f) = g
  <2>1. f + 2 \in 1 .. l + 1
    BY <1>4
  <2>2. text'[f + 2] = text[f + 2]
    BY <1>6, <2>1
  <2> QED
    BY <2>2 DEF From
<1> HIDE DEF g
<1>10. IsExp(text', f, l + 1)
  <2>1. text'[f + 1] = Char("e")
    BY <1>4, <1>6
  <2>2. ASSUME NEW k \in g .. l + 1
        PROVE  IsDigit(text'[k])
    <3>1. k = l + 1 \/ k \in g .. l
      BY <1>4
    <3>2. k \in 1 .. l + 1
      BY <1>4
    <3> QED
      BY <1>1, <1>4, <1>6, <3>1, <3>2 DEF DigitsIn
  <2> QED
    BY <1>4, <1>9, <2>1, <2>2 DEF IsExp, DigitsIn
<1>11. Shape(a, b, f)'
  <2>1. f <= l + 1 /\ l + 1 > f
    BY <1>4
  <2> QED
    BY <1>1, <1>4, <1>6, <1>8, <1>10, <2>1 DEF Shape, Ended, Missing
<1>12. exp2' = Wrap(Tens(text', f, l + 1), Int32Max)
  <2>1. l <= Len(text) /\ l + 1 <= Len(text') /\ g >= 1
    BY <1>4, <1>6
  <2>2. SubSeq(text', g, l) = SubSeq(text, g, l)
    BY <1>4, <1>5, <1>6, <2>1, PieceStays
  <2>3. SubSeq(text', g, l + 1) = Append(SubSeq(text, g, l), c)
    BY <1>4, <1>6, <2>1, <2>2, PieceGrows
  <2>4. SubSeq(text, g, l) \in Seq(DigitChars)
    BY <1>4, <1>6, <2>1, PieceOfDigits
  <2>5. exp2' = Wrap(ValueOf(SubSeq(text', g, l + 1)), Int32Max)
    BY <1>1, <1>4, <1>7, <2>3, <2>4, Accumulates, Widths
  <2>6. l + 1 # f
    BY <1>4
  <2> QED
    BY <1>9, <2>5, <2>6 DEF Tens
<1>13. Values(a, b, f)'
  <2>1. ~sign
    BY <1>1, OthersAreNoDigits DEF Values
  <2>2. l # f /\ l + 1 # f
    BY <1>4
  <2>3. /\ val = Wrap(ValueOf(Mant(text, a, b, f)), Int64Max) /\ type = "Double"
        /\ exp = Wrap(0 - Fractional(b, f), Int32Max) /\ result = None
    BY <1>1, <1>2, <1>3, <2>2 DEF Values, Ended
  <2> QED
    BY <1>1, <1>6, <1>8, <1>12, <2>1, <2>2, <2>3 DEF Values, Ended
<1>14. NoEnd'
  BY <1>1, <1>7, NoEndStays
<1> QED
  BY <1>1, <1>4, <1>11, <1>13, <1>14 DEF Reading, CutAt, Places

\* The written power of ten is added to that of the fraction.
LEMMA PowersAdd ==
  ASSUME NEW max \in Nat, NEW m \in Int, NEW n \in Int
  PROVE  Wrap(Wrap(0 - m, max) + Wrap(n, max), max) = Wrap(n - m, max)
<1>1. Wrap(0 - m, max) \in Int /\ Wrap(n, max) \in Int
  BY WrapInRange
<1>2. PICK p \in Int : p = Wrap(0 - m, max)
  BY <1>1
<1>3. Wrap(1 * Wrap(n, max) + p, max) = Wrap(1 * n + p, max)
  <2>1. 1 \in Int
    OBVIOUS
  <2> QED
    BY <2>1, WrapOfWrap
<1>4. Wrap(1 * Wrap(0 - m, max) + n, max) = Wrap(1 * (0 - m) + n, max)
  <2>1. 1 \in Int /\ 0 - m \in Int
    OBVIOUS
  <2> QED
    BY <2>1, WrapOfWrap
<1>5. /\ 1 * Wrap(n, max) + p = p + Wrap(n, max) /\ 1 * n + p = 1 * p + n
      /\ 1 * (0 - m) + n = n - m
  BY <1>1
<1> QED
  BY <1>2, <1>3, <1>4, <1>5

LEMMA ExponentEndStep ==
  ASSUME TextOK, NoEnd, NEW b \in Nat, NEW f \in Nat, Shape(First, b, f), Values(First, b, f),
         ExponentEnd
  PROVE  Reading'
<1>1. /\ \/ pc = "exponent" /\ c # Char("e") /\ exp' = exp
         \/ /\ pc = "exponent digits" /\ ~IsDigit(c)
            /\ exp' = Wrap(exp + (IF sign THEN -exp2 ELSE exp2), Int32Max)
      /\ pc' = "value" /\ result' = result
      /\ UNCHANGED <<text, negative, val, exp2, sign, type>>
  BY DEF ExponentEnd, Goto, Is
<1>2. PICK a \in Nat : a = First /\ a \in {0, 1}
  BY TextIs
<1>3. PICK l \in Nat : l = Length
  BY TextIs
<1>4. First' = a /\ c' = c /\ Length' = l /\ NoEnd'
  <2>1. First' = First
    BY <1>1 DEF First
  <2> QED
    BY <1>1, <1>2, <1>3, <2>1, TextSame
<1>5. /\ a <= b /\ b <= f /\ f <= l /\ Cut(text, a, b, f, f)
      /\ val = Wrap(ValueOf(Mant(text, a, b, f)), Int64Max)
      /\ type = IF f = b /\ l = f THEN "Int32" ELSE "Double"
      /\ exp = Wrap(0 - Fractional(b, f), Int32Max) /\ ~sign /\ result = None
  BY <1>1, <1>2, <1>3 DEF Shape, Values, Ended
<1>6. /\ \/ l = f /\ Stops(text, a, b, f, c) /\ c # Char("e")
         \/ l > f /\ IsExp(text, f, l) /\ ~IsDigit(c)
      /\ exp' = Wrap(Tens(text, f, l) - Fractional(b, f), Int32Max)
  <2>1. CASE pc = "exponent" /\ c # Char("e") /\ exp' = exp
    <3>1. l = f /\ Stops(text, a, b, f, c)
      BY <1>2, <1>3, <2>1 DEF Shape
    <3> QED
      BY <1>5, <2>1, <3>1 DEF Tens
  <2>2. CASE /\ pc = "exponent digits" /\ ~IsDigit(c)
             /\ exp' = Wrap(exp + (IF sign THEN -exp2 ELSE exp2), Int32Max)
    <3>1. l > f /\ IsExp(text, f, l)
      BY <1>3, <2>2 DEF Shape
    <3>2. exp2 = Wrap(Tens(text, f, l), Int32Max)
      BY <1>3, <2>2 DEF Values
    <3>3. Tens(text, f, l) \in Int
      <4> DEFINE g == From(text, f)
      <4>1. g \in Nat /\ g >= 1 /\ g <= l + 1 /\ DigitsIn(text, g, l)
        BY <3>1 DEF IsExp, From
      <4> HIDE DEF g
      <4>2. text \in Seq(Chars) /\ l <= Len(text)
        BY <1>3, TextIs DEF TextOK
      <4>3. SubSeq(text, g, l) \in Seq(DigitChars)
        BY <4>1, <4>2, PieceOfDigits
      <4>4. ValueOf(SubSeq(text, g, l)) \in Int
        BY <4>3, ValueIsInt
      <4> QED
        BY <4>4 DEF Tens, g
    <3>4. Fractional(b, f) \in Int
      BY DEF Fractional
    <3>5. exp' = Wrap(exp + exp2, Int32Max)
      BY <1>5, <2>2
    <3> QED
      BY <1>5, <2>2, <3>1, <3>2, <3>3, <3>4, <3>5, PowersAdd, Widths
  <2> QED
    BY <1>1, <2>1, <2>2
<1>7. Shape(a, b, f)'
  BY <1>1, <1>4, <1>5, <1>6 DEF Shape, Ended, Missing
<1>8. Values(a, b, f)'
  BY <1>1, <1>4, <1>5, <1>6 DEF Values, Ended
<1> QED
  BY <1>1, <1>4, <1>7, <1>8 DEF Reading, CutAt, Places

LEMMA ValueStep ==
  ASSUME TextOK, NoEnd, NEW b \in Nat, NEW f \in Nat, Shape(First, b, f), Values(First, b, f),
         Integer \/ Double
  PROVE  Reading'
<1>1. /\ pc = "value" /\ pc' = "done"
      /\ UNCHANGED <<text, negative, val, exp, exp2, sign, type>>
      /\ \/ type = "Int32" /\ result' = Boxed(Signed)
         \/ type = "Double" /\ result' = DoubleOf
  BY DEF Integer, Double, numbers
<1>2. PICK a \in Nat : a = First /\ a \in {0, 1}
  BY TextIs
<1>3. First' = a /\ c' = c /\ Length' = Length /\ NoEnd' /\ Signed' = Signed /\ DoubleOf' = DoubleOf
  <2>1. First' = First
    BY <1>1 DEF First
  <2>2. Signed' = Signed
    BY <1>1 DEF Signed
  <2>3. DoubleOf' = DoubleOf
    BY <1>1 DEF DoubleOf
  <2> QED
    BY <1>1, <1>2, <2>1, <2>2, <2>3, TextSame
<1>4. result'.is # "error"
  <2>1. Boxed(Signed).is # "error"
    BY DEF Boxed
  <2>2. DoubleOf.is # "error"
    BY DEF DoubleOf
  <2> QED
    BY <1>1, <2>1, <2>2
<1>5. Shape(a, b, f)'
  BY <1>1, <1>2, <1>3, <1>4 DEF Shape, Ended, Missing
<1>6. Values(a, b, f)'
  <2>1. \/ type' = "Int32" /\ result' = Boxed(Signed)'
        \/ type' = "Double" /\ result' = DoubleOf'
    <3>1. Boxed(Signed)' = Boxed(Signed)
      BY <1>3 DEF Boxed
    <3> QED
      BY <1>1, <1>3, <3>1
  <2>2. ~sign
    BY <1>1 DEF Values
  <2> QED
    BY <1>1, <1>2, <1>3, <1>4, <2>1, <2>2 DEF Values, Ended
<1> QED
  BY <1>1, <1>3, <1>5, <1>6 DEF Reading, CutAt, Places

\* The invariant holds at first and in every step.
LEMMA ReadingStarts ==
  ASSUME Init
  PROVE  Reading
<1>1. PICK x \in Chars : text = <<x>> /\ (IsDigit(x) \/ x = Char("-"))
  <2>1. PICK x \in {Digit(d) : d \in Digits} \cup {Char("-")} : text = <<x>>
    BY DEF Init
  <2>2. x \in Chars
    BY <2>1, MinusIsChar DEF Chars
  <2>3. IsDigit(x) \/ x = Char("-")
    BY <2>1 DEF IsDigit, Digit
  <2> QED
    BY <2>1, <2>2, <2>3
<1>2. /\ pc = "minus" /\ ~negative /\ val = 0 /\ exp = 0 /\ exp2 = 0 /\ ~sign /\ type = "Int32"
      /\ result = None
  BY DEF Init
<1>3. c = x /\ Length = 0 /\ First = 0 /\ text \in Seq(Chars)
  BY <1>1, <1>2 DEF c, Last, Length, First
<1>4. Shape(0, 0, 0)
  BY <1>1, <1>2, <1>3 DEF Shape, Ended, Missing
<1>5. Values(0, 0, 0)
  <2>1. Mant(text, 0, 0, 0) = <<>>
    <3>1. 0 <= Len(text)
      BY <1>3
    <3> QED
      BY <1>3, <3>1, MantOfNone
  <2>2. ASSUME NEW max \in Nat
        PROVE  Wrap(0, max) = 0
    <3>1. 0 \in -(max + 1) .. max
      OBVIOUS
    <3> QED
      BY <3>1, WrapKeeps
  <2>3. Wrap(0, Int32Max) = 0 /\ Wrap(0, Int64Max) = 0 /\ 0 - 0 = 0
    BY <2>2, Widths
  <2> QED
    BY <1>2, <1>3, <2>1, <2>3, ValueOfNone DEF Values, Ended, Fractional
<1>6. NoEnd
  BY <1>3 DEF NoEnd
<1> QED
  BY <1>2, <1>3, <1>4, <1>5, <1>6 DEF Reading, CutAt, Places

LEMMA ReadingGoesOn ==
  ASSUME TextOK, Reading, [Next]_vars
  PROVE  Reading'
<1>1. PICK b \in Nat, f \in Nat : Shape(First, b, f) /\ Values(First, b, f)
  BY DEF Reading, CutAt
<1>2. NoEnd
  BY DEF Reading
<1>3. CASE Minus
  BY <1>1, <1>2, <1>3, MinusStep
<1>4. CASE LeadingZero
  BY <1>1, <1>2, <1>4, LeadingZeroStep
<1>5. CASE IntegerDigit
  BY <1>1, <1>2, <1>5, IntegerDigitStep
<1>6. CASE IntegerEnd
  BY <1>1, <1>2, <1>6, IntegerEndStep
<1>7. CASE Point
  BY <1>1, <1>2, <1>7, PointStep
<1>8. CASE FractionDigit
  BY <1>1, <1>2, <1>8, FractionDigitStep
<1>9. CASE FractionEnd
  BY <1>1, <1>2, <1>9, FractionEndStep
<1>10. CASE Exponent
  BY <1>1, <1>2, <1>10, ExponentStep
<1>11. CASE Sign
  BY <1>1, <1>2, <1>11, SignStep
<1>12. CASE NoSign
  BY <1>1, <1>2, <1>12, NoSignStep
<1>13. CASE NeedDigit
  BY <1>1, <1>2, <1>13, NeedDigitStep
<1>14. CASE ExponentDigit
  BY <1>1, <1>2, <1>14, ExponentDigitStep
<1>15. CASE ExponentEnd
  BY <1>1, <1>2, <1>15, ExponentEndStep
<1>16. CASE Integer \/ Double
  BY <1>1, <1>2, <1>16, ValueStep
<1>17. CASE UNCHANGED vars
  <2>1. UNCHANGED <<text, pc, negative, val, exp, exp2, sign, type, result>>
    BY <1>17 DEF vars, numbers
  <2>2. /\ c' = c /\ Length' = Length /\ NoEnd' /\ First' = First
        /\ Ended' = Ended /\ Missing' = Missing
    BY <1>2, <2>1, TextSame DEF First, Ended, Missing
  <2>3. Signed' = Signed /\ DoubleOf' = DoubleOf /\ Boxed(Signed)' = Boxed(Signed)
    BY <2>1 DEF Signed, DoubleOf, Boxed
  <2>4. PICK a \in Nat : a = First
    BY TextIs
  <2>5. Shape(a, b, f)'
    <3>1. Shape(a, b, f)
      BY <1>1, <2>4
    <3>2. text' = text /\ pc' = pc /\ result' = result
      BY <2>1
    <3>3. CASE pc \in {"minus", "integer"}
      BY <3>1, <3>2, <3>3, <2>2 DEF Shape, Ended, Missing
    <3>4. CASE pc \in {"digits", "point", "fraction"}
      BY <3>1, <3>2, <3>4, <2>2 DEF Shape, Ended, Missing
    <3>5. CASE pc \in {"exponent", "sign"}
      BY <3>1, <3>2, <3>5, <2>2 DEF Shape, Ended, Missing
    <3>6. CASE pc \in {"exponent digit", "exponent digits"}
      BY <3>1, <3>2, <3>6, <2>2 DEF Shape, Ended, Missing
    <3>7. CASE pc \in {"value", "done"}
      BY <3>1, <3>2, <3>7, <2>2 DEF Shape, Ended, Missing
    <3> QED
      BY <3>3, <3>4, <3>5, <3>6, <3>7 DEF Reading, Places
  <2>6. Values(a, b, f)'
    BY <1>1, <2>1, <2>2, <2>3, <2>4 DEF Values
  <2>7. pc' \in Places
    BY <2>1 DEF Reading
  <2> QED
    BY <2>2, <2>4, <2>5, <2>6, <2>7 DEF Reading, CutAt
<1> QED
  BY <1>3, <1>4, <1>5, <1>6, <1>7, <1>8, <1>9, <1>10, <1>11, <1>12, <1>13, <1>14, <1>15,
     <1>16, <1>17 DEF Next

LEMMA AlwaysReading == Spec => [](TypeOK /\ Reading)
<1>1. Init => Reading
  BY ReadingStarts
<1>2. TypeOK /\ Reading /\ [Next]_vars => Reading'
  BY ReadingGoesOn DEF TypeOK, TextOK
<1> QED
  BY <1>1, <1>2, Typing, PTL DEF Spec

-----------------------------------------------------------------------------
LEMMA TakenIs ==
  ASSUME TextOK
  PROVE  /\ Taken \in Seq(Chars) /\ Len(Taken) = Length /\ text = Append(Taken, c)
         /\ \A k \in 1 .. Length : Taken[k] = text[k]
<1>1. /\ Length \in Nat /\ Len(text) = Length + 1 /\ c \in Chars /\ text[Length + 1] = c
      /\ text \in Seq(Chars)
  BY TextIs DEF TextOK
<1>2. Taken = SubSeq(text, 1, Length)
  BY DEF Taken, Length
<1>3. Taken \in Seq(Chars) /\ Len(Taken) = Length /\ \A k \in 1 .. Length : Taken[k] = text[k]
  <2> DEFINE q == SubSeq(text, 1, Length)
  <2>1. 1 \in Nat /\ 1 >= 1 /\ 1 <= Length + 1 /\ Length <= Len(text)
    BY <1>1
  <2>2. /\ q \in Seq(Chars) /\ Len(q) = Length - 1 + 1
        /\ \A k \in 1 .. Length - 1 + 1 : q[k] = text[1 + k - 1]
    BY <1>1, <2>1, PieceOf
  <2> HIDE DEF q
  <2>3. q \in Seq(Chars) /\ Len(q) = Length /\ \A k \in 1 .. Length : q[k] = text[k]
    BY <1>1, <2>2
  <2> QED
    BY <1>2, <2>3 DEF q
<1>4. text = Append(Taken, c)
  <2>1. Append(Taken, c) \in Seq(Chars) /\ Len(Append(Taken, c)) = Length + 1
        /\ Append(Taken, c)[Length + 1] = c
        /\ \A k \in 1 .. Length : Append(Taken, c)[k] = Taken[k]
    BY <1>1, <1>3
  <2>2. \A k \in 1 .. Length + 1 : text[k] = Append(Taken, c)[k]
    <3> SUFFICES ASSUME NEW k \in 1 .. Length + 1
                 PROVE  text[k] = Append(Taken, c)[k]
      OBVIOUS
    <3>1. k = Length + 1 \/ k \in 1 .. Length
      BY <1>1
    <3> QED
      BY <1>1, <1>3, <2>1, <3>1
  <2> QED
    BY <1>1, <2>1, <2>2, SeqEqual
<1> QED
  BY <1>3, <1>4

\* When parseNumber is done, what it took is cut where the invariant says.
LEMMA TakenCut ==
  ASSUME TextOK, NEW b \in Nat, NEW f \in Nat, Shape(First, b, f), Ended
  PROVE  Cut(text, First, b, f, Length) /\ Cut(Taken, First, b, f, Length)
<1>1. Cut(text, First, b, f, f)
  <2>1. pc \notin {"minus", "integer"}
    BY DEF Ended
  <2> QED
    BY <2>1 DEF Shape
<1>2. Length = f \/ (Length > f /\ IsExp(text, f, Length))
  BY DEF Shape
<1>3. Length \in Nat /\ First \in {0, 1} /\ First \in Nat
  BY TextIs
<1>4. Cut(text, First, b, f, Length)
  BY <1>1, <1>2, <1>3 DEF Cut
<1> QED
  BY <1>3, <1>4, TakenIs, CutSame

\* The parts of a number are those at the places where it is cut.
LEMMA PartsAreThere ==
  ASSUME NEW t \in Seq(Chars), IsLenient(t), NEW l \in Nat, l = Len(t)
  PROVE  \E a, b, f : Cut(t, a, b, f, l) /\ PartsOf(t) = PartsAt(t, a, b, f)
<1>1. PartsOf(t) \in Parts(t) /\ WellFormed(PartsOf(t), t, TRUE)
  BY Zenon DEF IsLenient, PartsOf
<1>2. PICK p \in Parts(t) : p = PartsOf(t) /\ WellFormed(p, t, TRUE)
  BY <1>1
<1>3. \E a, b, f : Cut(t, a, b, f, Len(t)) /\ p = PartsAt(t, a, b, f)
  BY <1>2, PartsAreCuts
<1> QED
  BY <1>2, <1>3

LEMMA NumbersAreLenient ==
  ASSUME NEW t, IsNumber(t)
  PROVE  IsLenient(t)
<1>1. PICK p \in Parts(t) : WellFormed(p, t, FALSE)
  BY Zenon DEF IsNumber
<1>2. WellFormed(p, t, TRUE)
  BY <1>1, Zenon DEF WellFormed
<1> QED
  BY <1>2, Zenon DEF IsLenient

\* An error is raised for no number.
LEMMA NumbersEnd ==
  ASSUME TextOK, NEW b \in Nat, NEW f \in Nat, Shape(First, b, f), Done, IsNumber(Taken)
  PROVE  Ended /\ PartsOf(Taken) = PartsAt(Taken, First, b, f)
<1>1. Length \in Nat /\ Taken \in Seq(Chars) /\ Length = Len(Taken)
      /\ \A k \in 1 .. Length : text[k] = Taken[k]
  BY TextIs, TakenIs
<1>2. IsLenient(Taken)
  BY NumbersAreLenient
<1>3. PICK a2, b2, f2 : /\ Cut(Taken, a2, b2, f2, Length)
                        /\ PartsOf(Taken) = PartsAt(Taken, a2, b2, f2)
  BY <1>1, <1>2, PartsAreThere
<1>4. Ended
  <2> SUFFICES ASSUME ~Ended PROVE FALSE
    OBVIOUS
  <2>1. Missing /\ pc = "done"
    BY DEF Done, Ended, Missing
  <2>2. Cut(text, First, b, f, f)
    BY <2>1 DEF Shape
  <2>3. /\ text[f + 1] = Char("e")
        /\ \/ Length = f + 1 /\ text[f + 2] \notin Signs
           \/ Length = f + 2 /\ text[f + 2] \in Signs
    BY <2>1 DEF Shape
  <2>4. Cut(text, a2, b2, f2, Length)
    BY <1>1, <1>3, CutSame
  <2> QED
    BY <1>1, <2>2, <2>3, <2>4, DigitIsMissing
<1>5. Cut(Taken, First, b, f, Length)
  BY <1>4, TakenCut
<1>6. First = a2 /\ b = b2 /\ f = f2
  BY <1>1, <1>3, <1>5, CutsAgree
<1> QED
  BY <1>3, <1>4, <1>6

-----------------------------------------------------------------------------
\* The longest number is taken: the invariant's cut is one of a number, and no cut
\* reaches one character farther.
LEMMA LongestTaken ==
  ASSUME TypeOK, Reading
  PROVE  TakesLongestNumber
<1>1. PICK b \in Nat, f \in Nat : Shape(First, b, f) /\ Values(First, b, f)
  BY DEF Reading, CutAt
<1>2. TextOK
  BY DEF TypeOK, TextOK
<1>3. \A i \in 1 .. Len(text) - 1 : text[i] # Char("end")
  BY DEF Reading, NoEnd, Length
<1>4. ASSUME Done, result.is # "error"
      PROVE  IsLenient(Taken) /\ ~IsLenient(text)
  <2>1. Ended /\ pc = "done"
    BY <1>4 DEF Done, Ended
  <2>2. Cut(text, First, b, f, Length) /\ Cut(Taken, First, b, f, Length)
    BY <1>1, <1>2, <2>1, TakenCut
  <2>3. IsLenient(Taken)
    BY <1>2, <2>2, TakenIs, CutIsLenient
  <2>4. ASSUME IsLenient(text)
        PROVE  FALSE
    <3>1. Length \in Nat /\ Length + 1 \in Nat /\ Length + 1 = Len(text) /\ text[Length + 1] = c
          /\ text \in Seq(Chars)
      BY <1>2, TextIs DEF TextOK
    <3>2. PICK a2, b2, f2 : Cut(text, a2, b2, f2, Length + 1)
      BY <2>4, <3>1, PartsAreThere
    <3>3. \/ /\ Length = f /\ Stops(text, First, b, f, text[Length + 1])
             /\ text[Length + 1] # Char("e")
          \/ Length > f /\ ~IsDigit(text[Length + 1])
      BY <1>1, <2>1, <3>1 DEF Shape
    <3> QED
      BY <2>2, <3>1, <3>2, <3>3, CutEnds
  <2> QED
    BY <2>3, <2>4
<1> QED
  BY <1>3, <1>4 DEF TakesLongestNumber

-----------------------------------------------------------------------------
\* The digits of a number's parts, and the power of ten they are multiplied with.
LEMMA PartsMean ==
  ASSUME NEW t \in Seq(Chars), NEW a \in Nat, NEW b \in Nat, NEW f \in Nat,
         NEW l \in Nat, l = Len(t), Cut(t, a, b, f, l), NEW p, p = PartsAt(t, a, b, f)
  PROVE  /\ p.minus = a /\ (p.frac = <<>> <=> f = b) /\ (p.exp = <<>> <=> f = l)
         /\ Mantissa(p) = ValueOf(Mant(t, a, b, f))
         /\ ~IsNegative(p) => Scale(p) = Tens(t, f, l) - Fractional(b, f)
<1>1. a <= b /\ b <= f /\ f <= l /\ a \in {0, 1}
  BY CutNat DEF Cut
<1> DEFINE r == SubSeq(t, b + 1, f)
           e == SubSeq(t, f + 1, l)
<1>2. p.minus = a /\ p.int = SubSeq(t, a + 1, b) /\ p.frac = r /\ p.exp = e
  BY DEF PartsAt
<1>3. r \in Seq(Chars) /\ Len(r) = f - b /\ \A k \in 1 .. f - b : r[k] = t[b + k]
  BY <1>1, CutOut
<1>4. e \in Seq(Chars) /\ Len(e) = l - f /\ \A k \in 1 .. l - f : e[k] = t[f + k]
  <2>1. l <= Len(t)
    OBVIOUS
  <2> QED
    BY <1>1, <2>1, CutOut
<1> HIDE DEF r, e
<1>5. (r = <<>> <=> f = b) /\ (e = <<>> <=> f = l)
  BY <1>1, <1>3, <1>4
<1>6. ASSUME NEW s \in Seq(Chars), NEW i \in Nat, NEW j \in Nat, i <= j, j <= l, Len(s) = j - i,
             \A k \in 1 .. j - i : s[k] = t[i + k], NEW g \in Nat, g >= 1, g <= j - i + 1
      PROVE  SubSeq(s, g, Len(s)) = SubSeq(t, i + g, j)
  <2> DEFINE q == SubSeq(s, g, Len(s))
             u == SubSeq(t, i + g, j)
  <2>1. /\ q \in Seq(Chars) /\ Len(q) = j - i - g + 1
        /\ \A k \in 1 .. j - i - g + 1 : q[k] = s[g + k - 1]
    <3>1. Len(s) \in Nat /\ g <= Len(s) + 1 /\ Len(s) <= Len(s) /\ Len(s) - g + 1 = j - i - g + 1
      BY <1>6
    <3>2. /\ q \in Seq(Chars) /\ Len(q) = Len(s) - g + 1
          /\ \A k \in 1 .. Len(s) - g + 1 : q[k] = s[g + k - 1]
      BY <1>6, <3>1, PieceOf
    <3> HIDE DEF q
    <3> QED
      BY <3>1, <3>2
  <2>2. /\ u \in Seq(Chars) /\ Len(u) = j - i - g + 1
        /\ \A k \in 1 .. j - i - g + 1 : u[k] = t[i + g + k - 1]
    <3>1. /\ i + g \in Nat /\ i + g >= 1 /\ i + g <= j + 1 /\ j <= Len(t)
          /\ j - (i + g) + 1 = j - i - g + 1
      BY <1>6
    <3>2. /\ u \in Seq(Chars) /\ Len(u) = j - (i + g) + 1
          /\ \A k \in 1 .. j - (i + g) + 1 : u[k] = t[(i + g) + k - 1]
      BY <1>6, <3>1, PieceOf
    <3> HIDE DEF u
    <3> QED
      BY <3>1, <3>2
  <2> HIDE DEF q, u
  <2>3. \A k \in 1 .. j - i - g + 1 : q[k] = u[k]
    <3> SUFFICES ASSUME NEW k \in 1 .. j - i - g + 1
                 PROVE  q[k] = u[k]
      OBVIOUS
    <3>1. g + k - 1 \in 1 .. j - i /\ i + (g + k - 1) = i + g + k - 1
      BY <1>6
    <3> QED
      BY <1>6, <2>1, <2>2, <3>1
  <2>4. q = u
    BY <2>1, <2>2, <2>3, SeqEqual
  <2> QED
    BY <2>4 DEF q, u
<1>7. Mantissa(p) = ValueOf(Mant(t, a, b, f))
  <2>1. SubSeq(r, 2, Len(r)) = SubSeq(t, b + 2, f)
    <3>1. CASE f = b
      <4>1. 2 > Len(r) /\ Len(r) \in Nat /\ b + 2 > f
        BY <1>3, <3>1
      <4>2. SubSeq(r, 2, Len(r)) = <<>>
        BY <4>1, PieceOfNone
      <4>3. SubSeq(t, b + 2, f) = <<>>
        BY <4>1, PieceOfNone
      <4> QED
        BY <4>2, <4>3
    <3>2. CASE f # b
      <4>1. PICK g \in Nat : g = 2
        OBVIOUS
      <4>2. g >= 1 /\ g <= f - b + 1
        BY <1>1, <3>2, <4>1
      <4>3. SubSeq(r, g, Len(r)) = SubSeq(t, b + g, f)
        BY <1>1, <1>3, <1>6, <4>2
      <4> QED
        BY <4>1, <4>3
    <3> QED
      BY <3>1, <3>2
  <2> QED
    BY <1>2, <2>1 DEF Mantissa, Mant
<1>8. ASSUME ~IsNegative(p)
      PROVE  Power(p) = Tens(t, f, l)
  <2>1. CASE f = l
    <3>1. e = <<>>
      BY <1>5, <2>1
    <3>2. SubSeq(e, 2, Len(e)) = <<>>
      BY <3>1, PieceOfNone
    <3>3. Power(p) = ValueOf(SubSeq(e, 2, Len(e)))
      BY <1>2, <1>8, <3>1 DEF Power, IsSigned
    <3> QED
      BY <2>1, <3>2, <3>3, ValueOfNone DEF Tens
  <2>2. CASE f # l
    <3>1. IsExp(t, f, l) /\ e # <<>>
      BY <1>5, <2>2 DEF Cut
    <3>2. l >= f + 2 /\ l >= From(t, f)
      BY <1>1, <3>1 DEF IsExp, From
    <3>3. e[2] = t[f + 2]
      BY <1>4, <3>2
    <3>4. IsSigned(p) <=> t[f + 2] \in Signs
      BY <1>2, <3>1, <3>3 DEF IsSigned, Signs
    <3>5. PICK g \in Nat : g = (IF IsSigned(p) THEN 3 ELSE 2)
      OBVIOUS
    <3>6. f + g = From(t, f) /\ g >= 1 /\ g <= l - f + 1
      BY <3>2, <3>4, <3>5 DEF From
    <3>7. SubSeq(e, g, Len(e)) = SubSeq(t, f + g, l)
      BY <1>1, <1>4, <1>6, <3>6
    <3>8. Power(p) = ValueOf(SubSeq(e, g, Len(e)))
      BY <1>2, <1>8, <3>5 DEF Power
    <3> QED
      BY <2>2, <3>6, <3>7, <3>8 DEF Tens
  <2> QED
    BY <2>1, <2>2
<1>9. ~IsNegative(p) => Scale(p) = Tens(t, f, l) - Fractional(b, f)
  <2>1. (IF p.frac = <<>> THEN 0 ELSE Len(p.frac) - 1) = Fractional(b, f)
    BY <1>2, <1>3, <1>5 DEF Fractional
  <2> QED
    BY <1>8, <2>1 DEF Scale
<1> QED
  BY <1>2, <1>5, <1>7, <1>9

LEMMA ValueInt ==
  ASSUME NEW t \in Seq(Chars), NEW a \in Nat, NEW b \in Nat, NEW f \in Nat,
         NEW l \in Nat, l = Len(t), Cut(t, a, b, f, l)
  PROVE  ValueOf(Mant(t, a, b, f)) \in Int
<1>1. a <= b /\ b <= f /\ f <= l
  BY CutNat
<1>2. IsFrac(t, b, f) /\ DigitsIn(t, a + 1, b)
  BY DEF Cut, IsInt
<1>3. Mant(t, a, b, f) \in Seq(DigitChars)
  BY <1>1, <1>2, MantIsDigits
<1> QED
  BY <1>3, ValueIsInt

LEMMA WrapOfMinus ==
  ASSUME NEW max \in Nat, NEW n \in Int
  PROVE  Wrap(-Wrap(n, max), max) = Wrap(-n, max)
<1>1. Wrap(n, max) \in Int
  BY WrapInRange
<1>2. Wrap((-1) * Wrap(n, max) + 0, max) = Wrap((-1) * n + 0, max)
  <2>1. -1 \in Int /\ 0 \in Int
    OBVIOUS
  <2> QED
    BY <2>1, WrapOfWrap
<1>3. (-1) * Wrap(n, max) + 0 = -Wrap(n, max) /\ (-1) * n + 0 = -n
  BY <1>1
<1> QED
  BY <1>2, <1>3

\* What is returned for a number, by its parts.
LEMMA NumberRead ==
  ASSUME TypeOK, Reading, Done, IsNumber(Taken)
  PROVE  LET p == PartsOf(Taken)
         IN  /\ negative = (p.minus = 1) /\ p.minus \in {0, 1}
             /\ Mantissa(p) \in Int /\ val = Wrap(Mantissa(p), Int64Max)
             /\ p.frac = <<>> /\ p.exp = <<>> => result = Boxed(Signed)
             /\ p.frac # <<>> \/ p.exp # <<>> => result = DoubleOf
             /\ ~IsNegative(p) => exp = Wrap(Scale(p), Int32Max)
<1>1. PICK b \in Nat, f \in Nat : Shape(First, b, f) /\ Values(First, b, f)
  BY DEF Reading, CutAt
<1>2. TextOK /\ negative \in BOOLEAN
  BY DEF TypeOK, TextOK
<1>3. Ended /\ PartsOf(Taken) = PartsAt(Taken, First, b, f) /\ pc = "done"
  BY <1>1, <1>2, NumbersEnd DEF Done
<1>4. PICK p : p = PartsOf(Taken)
  OBVIOUS
<1>5. PICK l \in Nat : l = Length
  BY <1>2, TextIs
<1>6. Cut(Taken, First, b, f, l) /\ Taken \in Seq(Chars) /\ l = Len(Taken) /\ First \in Nat
      /\ First \in {0, 1} /\ text = Append(Taken, c) /\ c \in Chars
  BY <1>1, <1>2, <1>3, <1>5, TakenCut, TakenIs, TextIs
<1>7. First <= b /\ b <= f /\ f <= l
  BY <1>6, CutNat
<1>8. /\ p.minus = First /\ (p.frac = <<>> <=> f = b) /\ (p.exp = <<>> <=> f = l)
      /\ Mantissa(p) = ValueOf(Mant(Taken, First, b, f))
      /\ ~IsNegative(p) => Scale(p) = Tens(Taken, f, l) - Fractional(b, f)
  BY <1>3, <1>4, <1>6, PartsMean
<1>9. Mantissa(p) \in Int
  BY <1>6, <1>8, ValueInt
<1>10. Mant(text, First, b, f) = Mant(Taken, First, b, f)
  BY <1>6, <1>7, MantStays
<1>11. Tens(text, f, l) = Tens(Taken, f, l)
  <2>1. CASE l = f
    BY <2>1 DEF Tens
  <2>2. CASE l # f
    <3>1. IsExp(Taken, f, l)
      BY <1>6, <2>2 DEF Cut
    <3>2. PICK g \in Nat : g = From(Taken, f) /\ g >= f + 2 /\ g <= l
      BY <1>7, <3>1 DEF IsExp, From
    <3>3. text[f + 2] = Taken[f + 2]
      <4>1. f + 2 \in 1 .. l
        BY <3>2
      <4> QED
        BY <1>6, <4>1
    <3>4. From(text, f) = g
      BY <3>2, <3>3 DEF From
    <3>5. SubSeq(text, g, l) = SubSeq(Taken, g, l)
      <4>1. g >= 1 /\ g <= l + 1 /\ l <= Len(Taken)
        BY <1>6, <3>2
      <4> QED
        BY <1>6, <4>1, PieceStays
    <3> QED
      BY <2>2, <3>2, <3>4, <3>5 DEF Tens
  <2> QED
    BY <2>1, <2>2
<1>12. /\ val = Wrap(Mantissa(p), Int64Max)
       /\ type = IF f = b /\ l = f THEN "Int32" ELSE "Double"
       /\ exp = Wrap(Tens(text, f, l) - Fractional(b, f), Int32Max)
  BY <1>1, <1>3, <1>5, <1>8, <1>10 DEF Values
<1>13. \/ type = "Int32" /\ result = Boxed(Signed)
       \/ type = "Double" /\ result = DoubleOf
  <2>1. result.is # "error"
    BY <1>3 DEF Ended
  <2> QED
    BY <1>1, <1>3, <2>1 DEF Values
<1>14. negative = (p.minus = 1)
  BY <1>2, <1>8 DEF First
<1>15. p.frac = <<>> /\ p.exp = <<>> => type = "Int32"
  BY <1>8, <1>12
<1>16. p.frac # <<>> \/ p.exp # <<>> => type = "Double"
  BY <1>8, <1>12
<1>17. ~IsNegative(p) => exp = Wrap(Scale(p), Int32Max)
  BY <1>8, <1>11, <1>12
<1> QED
  BY <1>4, <1>6, <1>8, <1>9, <1>12, <1>13, <1>14, <1>15, <1>16, <1>17

LEMMA IntegersRead ==
  ASSUME TypeOK, Reading
  PROVE  IntegersExact
<1> SUFFICES ASSUME Done, IsNumber(Taken),
                    NEW p, p = PartsOf(Taken), p.frac = <<>>, p.exp = <<>>,
                    NEW n, n = (IF p.minus = 1 THEN -Mantissa(p) ELSE Mantissa(p)), n \in Int64
             PROVE  IF n \in Int32 THEN result.is = "Int32" /\ toInt32(result.word) = n
                                   ELSE result = [is |-> "Int64", val |-> n]
  BY DEF IntegersExact
<1>1. /\ negative = (p.minus = 1) /\ Mantissa(p) \in Int
      /\ val = Wrap(Mantissa(p), Int64Max) /\ result = Boxed(Signed)
  BY NumberRead
<1>2. n \in -(Int64Max + 1) .. Int64Max
  BY DEF Int64
<1>3. Signed = n
  <2>1. CASE p.minus = 1
    <3>1. n = -Mantissa(p) /\ negative
      BY <1>1, <2>1
    <3>2. Signed = Wrap(-Wrap(Mantissa(p), Int64Max), Int64Max)
      BY <1>1, <3>1 DEF Signed
    <3>3. Signed = Wrap(n, Int64Max)
      BY <1>1, <3>1, <3>2, Widths, WrapOfMinus
    <3> QED
      BY <1>2, <3>3, Widths, WrapKeeps
  <2>2. CASE p.minus # 1
    <3>1. n = Mantissa(p) /\ ~negative
      BY <1>1, <2>2
    <3>2. Signed = Wrap(n, Int64Max)
      BY <1>1, <3>1 DEF Signed
    <3> QED
      BY <1>2, <3>2, Widths, WrapKeeps
  <2> QED
    BY <2>1, <2>2
<1>4. CASE n \in Int32
  <2>1. ~(n > Int32Max \/ n < -(Int32Max + 1))
    BY <1>2, <1>4, Widths DEF Int32
  <2>2. result = [is |-> "Int32", word |-> ValueI(n)]
    BY <1>1, <1>3, <2>1 DEF Boxed
  <2> QED
    BY <1>4, <2>2, IntegersUnboxed
<1>5. CASE n \notin Int32
  <2>1. n > Int32Max \/ n < -(Int32Max + 1)
    BY <1>2, <1>5, Widths DEF Int32
  <2> QED
    BY <1>1, <1>3, <1>5, <2>1 DEF Boxed
<1> QED
  BY <1>4, <1>5

LEMMA DoublesRead ==
  ASSUME TypeOK, Reading
  PROVE  DoublesExact
<1> SUFFICES ASSUME Done, IsNumber(Taken),
                    NEW p, p = PartsOf(Taken), p.frac # <<>> \/ p.exp # <<>>, ~IsNegative(p),
                    NEW m, m = Mantissa(p), m \in Int64,
                    NEW s, s = Scale(p), s \in -(Powers - 1) .. Powers - 1
             PROVE  result = [is |-> "Double", mantissa |-> IF p.minus = 1 THEN -m ELSE m,
                              exponent |-> s]
  BY Zenon DEF DoublesExact
<1>1. /\ negative = (p.minus = 1) /\ val = Wrap(m, Int64Max) /\ result = DoubleOf
      /\ exp = Wrap(s, Int32Max)
  BY NumberRead
<1>2. val = m
  <2>1. m \in -(Int64Max + 1) .. Int64Max
    BY DEF Int64
  <2> QED
    BY <1>1, <2>1, Widths, WrapKeeps
<1>3. Powers \in Nat /\ Powers <= Int32Max /\ Int32Max \in Nat
  BY NumberAssumption, Widths
<1>4. exp = s
  <2>1. s \in -(Int32Max + 1) .. Int32Max
    BY <1>3
  <2> QED
    BY <1>1, <1>3, <2>1, WrapKeeps
<1>5. s \in Int /\ ~(s < -Powers) /\ (IF s < 0 THEN -s ELSE s) < Powers
  BY <1>3
<1> QED
  BY <1>1, <1>2, <1>4, <1>5 DEF DoubleOf

\* Whatever the widths and the text: parseNumber reads an integer that int64_t has
\* room for exactly, JSONInt_new boxes it by its size, and it is unboxed to itself.
THEOREM IntegersReadExactly == Spec => []IntegersExact
<1>1. TypeOK /\ Reading => IntegersExact
  BY IntegersRead
<1> QED
  BY <1>1, AlwaysReading, PTL

\* Whatever the widths and the text: parseNumber computes a double from the mantissa
\* and the power of ten that are written, within the widths of int64_t and the table
\* and with no minus in the exponent.
THEOREM DoublesReadExactly == Spec => []DoublesExact
<1>1. TypeOK /\ Reading => DoublesExact
  BY DoublesRead
<1> QED
  BY <1>1, AlwaysReading, PTL

\* Whatever the text: parseNumber takes the longest number it begins with, by the
\* lenient syntax, and reads one character more, none beyond the NUL.
THEOREM LongestNumberTaken == Spec => []TakesLongestNumber
<1>1. TypeOK /\ Reading => TakesLongestNumber
  BY LongestTaken
<1> QED
  BY <1>1, AlwaysReading, PTL
=============================================================================
