------------------------------- MODULE Strings -------------------------------
(***************************************************************************)
(* The life of one string: it is parsed out of a text, or made by the      *)
(* program, written by JSON_toString, and freed.  Characters are bytes,    *)
(* buffers are those of kstring_builder.h over karray.h.                   *)
(*                                                                         *)
(* The text is chosen while it is read, a character or an escape at a      *)
(* time.  A value is the element of an array, a key the only one of an     *)
(* object.                                                                 *)
(***************************************************************************)
EXTENDS Integers, Sequences, SequencesExt, FiniteSetsExt

CONSTANTS
  Raw,         \* the characters in texts, as sequences of bytes
  Escapes,     \* the bytes that are written with a backslash in texts
  CodePoints,  \* what follows \u in texts
  Made,        \* the bytes of the strings the program makes
  InlineSize,  \* JSONSTRING_INLINE_SIZE, 16
  MaxPieces    \* bound: the characters and escapes in a text

Quote == 34
Backslash == 92
TAB == 9
LF == 10
U == 117

\* What parseEscape makes of the character after the backslash.
Unescaped == [x \in {34, 92, 47, 98, 102, 110, 114, 116} |->
                CASE x = 98 -> 8 [] x = 102 -> 12 [] x = 110 -> LF
                  [] x = 114 -> 13 [] x = 116 -> TAB [] OTHER -> x]

\* The character that JSONUString_toString writes behind a backslash.
Letter == [b \in {Unescaped[x] : x \in DOMAIN Unescaped} |->
             CHOOSE x \in DOMAIN Unescaped : Unescaped[x] = b]

\* Bytes of which skip_unescaped has a mark in its table.
Marked == {Quote, Backslash, TAB, LF}

ASSUME StringsAssumption ==
  /\ Raw \subseteq Seq(0 .. 255 \ {Quote, Backslash}) \ {<<>>}
  /\ Made \subseteq Seq(0 .. 255)
  /\ Escapes \subseteq DOMAIN Letter
  /\ \A v \in CodePoints : v \in Nat /\ v < 65536
  /\ InlineSize \in Nat /\ MaxPieces \in Nat

VARIABLES
  pc,      \* where the parser or the writer is
  role,    \* "value" or "key"
  text,    \* the bytes between the quotes that were read
  pieces,  \* bound: how many characters and escapes they are
  sb,      \* the string_builder in use
  heap,    \* the buffers that are allocated
  value,   \* the JSONString, of kind String or UString
  next     \* JSONUString_toString's s

vars == <<pc, role, text, pieces, sb, heap, value, next>>
-----------------------------------------------------------------------------
\* m, doubled until it is n or more.
Doubled(m, n) ==
  LET from[p \in Nat \ {0}] == IF p < n THEN from[2 * p] ELSE p
  IN  from[m]

\* ARRAY_ensureSize: the capacity is doubled as often as needed.
Ensured(b, n) == [b EXCEPT !.capacity = Doubled(@, Len(b.list) + n)]

\* ARRAY_add grows one element early, to 1 << LOG2(capacity * 2 + 1), the power
\* of two above twice the capacity.
Add(b, x) ==
  [list |-> Append(b.list, x),
   capacity |-> IF Len(b.list) + 1 >= b.capacity
                  THEN Doubled(1, 2 * b.capacity + 1)
                  ELSE b.capacity]

AddAll(b, bytes) ==
  LET after[k \in 0 .. Len(bytes)] ==
        IF k = 0 THEN b ELSE Add(after[k - 1], bytes[k])
  IN  after[Len(bytes)]

\* string_builder_add_no_check and string_builder_add_string_no_check.
NoCheck(b, bytes) == [b EXCEPT !.list = @ \o bytes]

\* string_builder_add_string.
AddString(b, bytes) == NoCheck(Ensured(b, Len(bytes)), bytes)

\* string_builder_init.
NewBuilder == [list |-> <<>>, capacity |-> 4]

NoValue == [kind |-> "none", bytes |-> <<>>]

Init == /\ pc = "unescaped" /\ role \in {"value", "key"}
        /\ text = <<>> /\ pieces = 0
        /\ sb = NewBuilder /\ heap = {}
        /\ value = NoValue /\ next = 1

\* The text goes on with these bytes.
Read(bytes) == /\ pieces < MaxPieces
               /\ pieces' = pieces + 1
               /\ text' = text \o bytes

Goto(label) == pc' = label

\* longjmp.  Nothing is freed on the way.
Throw == pc' = "error"

\* JSONString_new: longer strings have a buffer of their own.
StringNew(bytes) == /\ value' = [kind |-> "String", bytes |-> bytes]
                    /\ heap' = IF Len(bytes) > InlineSize THEN heap \cup {"string"} ELSE heap
-----------------------------------------------------------------------------
\* A turn of skip_unescaped's loop.
SkipUnescaped == /\ pc = "unescaped"
                 /\ \E r \in Raw : Head(r) \notin Marked /\ Read(r)
                 /\ UNCHANGED <<pc, role, sb, heap, value, next>>

\* The fast path: the closing quote comes before any escape.
FastPath == /\ pc = "unescaped"
            /\ StringNew(text)
            /\ Goto("made")
            /\ UNCHANGED <<role, text, pieces, sb, next>>

\* A tab or line feed that is not escaped is refused, before the first escape.
ThrowControl == /\ pc = "unescaped"
                /\ \E b \in {TAB, LF} : Read(<<b>>)
                /\ Throw
                /\ UNCHANGED <<role, sb, heap, value, next>>

\* string_builder_init, with what was read so far.
Begun == AddString(NewBuilder, text)

FirstEscape == /\ pc = "unescaped"
               /\ heap' = heap \cup {"builder"}
               /\ sb' = Begun
               /\ Goto("escape")
               /\ UNCHANGED <<role, text, pieces, value, next>>

\* "Unexpected Token at middle of JSONString": the text is at its end.
ThrowUnclosed == /\ pc = "unescaped"
                 /\ heap' = heap \cup {"builder"}
                 /\ sb' = Begun
                 /\ Throw
                 /\ UNCHANGED <<role, text, pieces, value, next>>

\* parseEscape.
ParseEscape == /\ pc = "escape"
               /\ \E b \in Escapes : /\ Read(<<Backslash, Letter[b]>>)
                                     /\ sb' = Add(sb, b)
               /\ Goto("loop")
               /\ UNCHANGED <<role, heap, value, next>>

\* Mutation: the builder is not disposed of.
ThrowEscapeKept == /\ pc = "escape"
                   /\ Throw
                   /\ UNCHANGED <<role, text, pieces, sb, heap, value, next>>

\* "Illegal escape token", and the end of the text.
ThrowEscape == /\ pc = "escape"
               /\ heap' = heap \ {"builder"}
               /\ Throw
               /\ UNCHANGED <<role, text, pieces, sb, value, next>>

\* Mutation: the second of three bytes loses a bit.
EncodedNarrow(v) ==
  IF v <= 127 THEN <<v>>
  ELSE IF v <= 2047 THEN <<192 + v \div 64, 128 + (v % 64)>>
  ELSE <<224 + v \div 4096, 128 + ((v \div 64) % 32), 128 + (v % 64)>>

\* writeUnicode.  Four digits are at most 0xffff: half of a surrogate pair is
\* written like any other.
Encoded(v) ==
  IF v <= 127 THEN <<v>>
  ELSE IF v <= 2047 THEN <<192 + v \div 64, 128 + (v % 64)>>
  ELSE <<224 + v \div 4096, 128 + ((v \div 64) % 64), 128 + (v % 64)>>

Sixteens == <<1, 16, 256, 4096, 65536, 1048576>>

\* n hexadecimal digits of v.
Hex(v, n) == [k \in 1 .. n |-> LET d == (v \div Sixteens[n - k + 1]) % 16
                               IN  IF d < 10 THEN 48 + d ELSE 87 + d]

\* parseUnicode, with four calls of toHex.
ParseUnicode == /\ pc = "escape"
                /\ \E v \in CodePoints : /\ Read(<<Backslash, U>> \o Hex(v, 4))
                                         /\ sb' = AddAll(sb, Encoded(v))
                /\ Goto("loop")
                /\ UNCHANGED <<role, heap, value, next>>

\* "invalid hex digit".
ThrowHex == /\ pc = "escape"
            /\ Read(<<Backslash, U>>)
            /\ Throw
            /\ UNCHANGED <<role, sb, heap, value, next>>

NextEscape == /\ pc = "loop"
              /\ Goto("escape")
              /\ UNCHANGED <<role, text, pieces, sb, heap, value, next>>

\* The other characters, tabs and line feeds too.
Loop == /\ pc = "loop"
        /\ \E r \in Raw : /\ Read(r)
                          /\ sb' = AddAll(sb, r)
        /\ UNCHANGED <<pc, role, heap, value, next>>

\* The closing quote, or the end of the text: JSONUString_new.  The NUL counts
\* in the length that decides whether the buffer is kept.
UStringNew == /\ pc = "loop"
              /\ value' = [kind |-> "UString", bytes |-> sb.list]
              /\ sb' = Add(sb, 0)
              /\ heap' = IF Len(sb.list) + 1 <= InlineSize THEN heap \ {"builder"} ELSE heap
              /\ Goto("made")
              /\ UNCHANGED <<role, text, pieces, next>>

\* JSONString_new, called by the program.
Make == /\ pc = "unescaped" /\ pieces = 0
        /\ \E bytes \in Made : text' = bytes /\ StringNew(bytes)
        /\ Goto("made")
        /\ UNCHANGED <<role, pieces, sb, next>>
-----------------------------------------------------------------------------
\* JSON_toString: a key, whatever its kind, is written by the same function as
\* a String.
AsItIs == role = "key" \/ value.kind = "String"

\* '[' or '{'.
Opened == Add(NewBuilder, IF role = "key" THEN 123 ELSE 91)

\* _JSONString_toString.
WriteAsItIs == /\ pc = "made" /\ AsItIs
               /\ heap' = heap \cup {"output"}
               /\ sb' = NoCheck(Ensured(Opened, Len(value.bytes) + 2),
                                <<Quote>> \o value.bytes \o <<Quote>>)
               /\ Goto("close")
               /\ UNCHANGED <<role, text, pieces, value, next>>

\* JSONUString_toString, up to its loop.
WriteQuote == /\ pc = "made" /\ ~AsItIs
              /\ heap' = heap \cup {"output"}
              /\ sb' = NoCheck(Ensured(Opened, Len(value.bytes) + 2), <<Quote>>)
              /\ Goto("write")
              /\ UNCHANGED <<role, text, pieces, value, next>>

byte == value.bytes[next]

\* Mutation: there is room for the string itself only.
RoomNone(b) == b

\* The room that is made at each turn of the loop.
Room(b) == Ensured(b, 8)

Writing == pc = "write" /\ next <= Len(value.bytes)

WriteCharacter ==
  /\ Writing /\ byte < 128
  /\ sb' = NoCheck(Room(sb), IF byte \in DOMAIN Letter THEN <<Backslash, Letter[byte]>>
                                                       ELSE <<byte>>)
  /\ next' = next + 1
  /\ UNCHANGED <<pc, role, text, pieces, heap, value>>

\* Mutation: 0xc2 begins no sequence.
SizeAboveC2(b) == IF b \in 195 .. 223 THEN 2
                  ELSE IF b \in 224 .. 239 THEN 3
                  ELSE IF b \in 240 .. 244 THEN 4
                  ELSE 0

\* utf8_check_size: 0 for a byte that begins no sequence.
Size(b) == IF b \in 194 .. 223 THEN 2
           ELSE IF b \in 224 .. 239 THEN 3
           ELSE IF b \in 240 .. 244 THEN 4
           ELSE 0

\* The bytes of the sequence at next, as far as there are any.
Sequence == SubSeq(value.bytes, next, Min({next + Size(byte) - 1, Len(value.bytes)}))

Continued == \A k \in 2 .. Len(Sequence) : Sequence[k] \in 128 .. 191

\* The value toUTF8 takes from them: five, four or three bits of the first byte,
\* and six of each that follows.
Decoded ==
  LET v[k \in 0 .. Len(Sequence)] ==
        IF k = 0 THEN 0
        ELSE IF k = 1 THEN byte % (<<64, 32, 16, 8>>)[Size(byte)]
        ELSE v[k - 1] * 64 + (Sequence[k] % 64)
  IN  v[Len(Sequence)]

\* libtoa_put_hex32_lower: four digits, as its caller expects, or as many as
\* there are.
HexOf(v) == Hex(v, IF v < 65536 THEN 4 ELSE IF v < 1048576 THEN 5 ELSE 6)

\* Mutation: the end of the string is not looked at.
AdvancedPast == next + Size(byte)

\* Where toUTF8 leaves s: nowhere else for a byte that begins no sequence.
Advanced == next + Len(Sequence)

\* A byte that begins no sequence is written over and over.  Bound: only once.
WriteSequence ==
  /\ Writing /\ byte >= 128 /\ Continued
  /\ LET again == Sequence = <<>> /\ IsSuffix(<<Backslash, U>> \o HexOf(0), sb.list)
     IN  sb' = IF again THEN sb
               ELSE NoCheck(Ensured(NoCheck(Room(sb), <<Backslash, U>>), 8), HexOf(Decoded))
  /\ next' = Advanced
  /\ UNCHANGED <<pc, role, text, pieces, heap, value>>

\* toUTF8 returns null for what does not continue the sequence, and the loop
\* goes on there.
WriteFault == /\ Writing /\ byte >= 128 /\ ~Continued
              /\ Goto("fault")
              /\ UNCHANGED <<role, text, pieces, sb, heap, value, next>>

WriteEnd == /\ pc = "write" /\ next > Len(value.bytes)
            /\ sb' = NoCheck(sb, <<Quote>>)
            /\ Goto("close")
            /\ UNCHANGED <<role, text, pieces, heap, value, next>>

\* ':' and the member's value, here null; ']' or '}'; string_builder_tostring.
Close == /\ pc = "close"
         /\ sb' = Add(Add(IF role = "key"
                            THEN AddString(Add(sb, 58), <<110, U, 108, 108>>) ELSE sb,
                          IF role = "key" THEN 125 ELSE 93),
                      0)
         /\ Goto("written")
         /\ UNCHANGED <<role, text, pieces, heap, value, next>>

\* The program frees what was written; _JSONString_free, for the last reference.
Free == /\ pc = "written"
        /\ heap' = IF Len(value.bytes) > InlineSize
                     THEN heap \ {"output", "string", "builder"} ELSE heap \ {"output"}
        /\ Goto("freed")
        /\ UNCHANGED <<role, text, pieces, sb, value, next>>

Parse == \/ SkipUnescaped \/ FastPath \/ ThrowControl \/ FirstEscape \/ ThrowUnclosed
         \/ ParseEscape \/ ThrowEscape \/ ParseUnicode \/ ThrowHex
         \/ NextEscape \/ Loop \/ UStringNew

Write == \/ WriteAsItIs \/ WriteQuote \/ WriteCharacter \/ WriteSequence
         \/ WriteFault \/ WriteEnd \/ Close

Done == pc \in {"freed", "error", "fault"} /\ UNCHANGED vars

Next == Parse \/ Make \/ Write \/ Free \/ Done

Spec == Init /\ [][Next]_vars /\ WF_vars(Write)
-----------------------------------------------------------------------------
\* What a JSON string means (RFC 4627): the UTF-16 code units that its characters
\* and escapes stand for, with Bad for a byte that is no part of one.  Nothing
\* here follows the C code.
Bad == -1

\* The first bytes of UTF-8 sequences of n bytes, the bits that mark them, and
\* the least value that needs n bytes.
Leads == <<0 .. 127, 194 .. 223, 224 .. 239, 240 .. 244>>
Marks == <<0, 192, 224, 240>>
Least == <<0, 128, 2048, 65536>>

Number(base, digits) == FoldLeft(LAMBDA v, d : v * base + d, 0, digits)

\* What t[i] and the n - 1 bytes behind it encode.
CodePoint(t, i, n) ==
  Number(64, [k \in 1 .. n |-> t[i + k - 1] - IF k = 1 THEN Marks[n] ELSE 128])

IsCharacter(t, i, n) ==
  /\ t[i] \in Leads[n] /\ t[i] >= 32 /\ t[i] \notin {Quote, Backslash}
  /\ i + n - 1 <= Len(t)
  /\ \A k \in i + 1 .. i + n - 1 : t[k] \in 128 .. 191
  /\ LET v == CodePoint(t, i, n)
     IN  v >= Least[n] /\ v <= 1114111 /\ v \notin 55296 .. 57343

Units(v) == IF v < 65536 THEN <<v>>
            ELSE <<55296 + (v - 65536) \div 1024, 56320 + (v % 1024)>>

HexDigits == [d \in (48 .. 57) \cup (65 .. 70) \cup (97 .. 102) |->
                IF d < 58 THEN d - 48 ELSE IF d < 71 THEN d - 55 ELSE d - 87]

IsUnicode(t, i) == /\ i + 5 <= Len(t) /\ t[i] = Backslash /\ t[i + 1] = U
                   /\ \A k \in 2 .. 5 : t[i + k] \in DOMAIN HexDigits

IsEscape(t, i) == i < Len(t) /\ t[i] = Backslash /\ t[i + 1] \in DOMAIN Unescaped

Meaning(t) ==
  LET from[i \in 1 .. Len(t) + 1] ==
        IF i > Len(t) THEN <<>>
        ELSE IF IsUnicode(t, i)
          THEN <<Number(16, [k \in 1 .. 4 |-> HexDigits[t[i + k + 1]]])>> \o from[i + 6]
        ELSE IF IsEscape(t, i) THEN <<Unescaped[t[i + 1]]>> \o from[i + 2]
        ELSE IF \E n \in 1 .. 4 : IsCharacter(t, i, n)
          THEN LET n == CHOOSE n \in 1 .. 4 : IsCharacter(t, i, n)
               IN  Units(CodePoint(t, i, n)) \o from[i + n]
        ELSE <<Bad>> \o from[i + 1]
  IN  from[1]

WellFormed(t) == Bad \notin ToSet(Meaning(t))

\* What was written between the string's quotes.
Body == SubSeq(sb.list, 3, Len(sb.list) - IF role = "key" THEN 8 ELSE 3)

\* Strings for which the writer has no form: those that need an escape but are
\* written as they are; control characters without a letter; and, of a UString,
\* characters beyond 0xffff.
Unwritable ==
  IF AsItIs THEN Backslash \in ToSet(value.bytes) \/ ~WellFormed(value.bytes)
  ELSE \E b \in ToSet(value.bytes) : (b < 32 /\ b \notin DOMAIN Letter) \/ b >= 240
-----------------------------------------------------------------------------
\* Buffers and the strings in them hold bytes.
TypeOK ==
  /\ pc \in {"unescaped", "escape", "loop", "made", "write", "close", "written",
             "freed", "error", "fault"}
  /\ role \in {"value", "key"}
  /\ text \in Seq(0 .. 255) /\ sb.list \in Seq(0 .. 255) /\ sb.capacity \in Nat
  /\ pieces \in 0 .. MaxPieces
  /\ heap \subseteq {"string", "builder", "output"}
  /\ value.kind \in {"none", "String", "UString"} /\ value.bytes \in Seq(0 .. 255)
  /\ next \in 1 .. Len(value.bytes) + 1

\* Reading a string and writing it again keeps its meaning, unless the writer has
\* no form for it: escapes, their encoding as UTF-8 and its decoding, and the
\* halves of surrogate pairs agree.
MeaningKept ==
  pc = "written" /\ WellFormed(text) /\ ~Unwritable => Meaning(Body) = Meaning(text)

\* The bytes that the writers add without a check have room, the closing quote
\* included: each turn of the loop makes it for the largest form of a character
\* and what comes after it.
WithinCapacity == Len(sb.list) <= sb.capacity

\* No buffer stays allocated when a string is freed or parsing it failed, but in
\* three cases: a UString of exactly InlineSize bytes, whose buffer is neither
\* inline nor freed; an invalid hex digit; a text that ends before the closing
\* quote.  And what freeing a string frees was allocated.
BuffersReleased ==
  /\ pc = "freed" /\ heap # {} => value.kind = "UString" /\ Len(value.bytes) = InlineSize
  /\ pc = "error" /\ heap # {} =>
       Backslash \notin ToSet(text) \/ IsSuffix(<<Backslash, U>>, text)
  /\ pc = "made" /\ Len(value.bytes) > InlineSize => heap # {}

\* Writing a string that was well formed in the text comes to an end.
WriterEnds == pc = "made" /\ WellFormed(text) ~> pc = "written"
=============================================================================
