------------------------------- MODULE NumBox -------------------------------
(***************************************************************************)
(* knumbox.h: a JSON value in a word of 64 bits.  A word is the 17 bits of *)
(* TagMask and the 47 bits below them.  A value that is no double has a    *)
(* tag above TagBase, which no double has but NaNs no computation yields.  *)
(***************************************************************************)
EXTENDS Integers

CONSTANTS
  Int32Max,     \* 2^31 - 1
  PayloadSize,  \* 2^TagBitShift, 2^47
  TagBase       \* TagBaseMask, 0x1fff0: the four bits below are the type's

ASSUME BoxAssumption ==
  /\ Int32Max \in Nat \ {0}
  /\ PayloadSize \in Nat /\ 2 * (Int32Max + 1) <= PayloadSize
  /\ TagBase \in Nat \ {0}

Int32 == -(Int32Max + 1) .. Int32Max

Payloads == 0 .. PayloadSize - 1

Words == [tag : 0 .. TagBase + 15, val : Payloads]

\* enum NumBoxTag, and kjson_type, whose values are the same.
Flags == [Double |-> 0, String |-> 1, Int32 |-> 2, Object |-> 3, Boolean |-> 4, Array |-> 5,
          Null |-> 6, UString |-> 9, Int64 |-> 11, Error |-> 15]

\* Values that are a pointer: ValueO, ValueS, ValueU, ValueA, ValueIO, ValueE.
Pointers == {"Object", "String", "UString", "Array", "Int64", "Error"}

TAG(t) == TagBase + Flags[t]

\* The pointers of a process fit below the tag.
ValueP(t, pointer) == [tag |-> TAG(t), val |-> pointer]

\* The int's two's complement in the lower 32 bits.
ValueI(i) == [tag |-> TAG("Int32"), val |-> IF i < 0 THEN i + 2 * (Int32Max + 1) ELSE i]

ValueB(b) == [tag |-> TAG("Boolean"), val |-> IF b THEN 1 ELSE 0]

ValueN == [tag |-> TAG("Null"), val |-> 0]

\* The words of doubles.  Above TagBase there are only NaNs.
Doubles == [tag : 0 .. TagBase, val : Payloads]

\* JSON_NOP, which the getters return for what is not there; also the double 0.0.
NOP == [tag |-> 0, val |-> 0]

IsDouble(v) == v.tag <= TAG("Double")

\* JSON_type.
TypeOf(v) == IF IsDouble(v) THEN Flags["Double"] ELSE v.tag - TagBase

toInt32(v) == IF v.val > Int32Max THEN v.val - 2 * (Int32Max + 1) ELSE v.val

toPtr(v) == v.val

toBool(v) == v.val # 0

\* JSON_isValid.
IsValid(v) == v # NOP
=============================================================================
