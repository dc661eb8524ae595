---------------------------- MODULE Strings_proofs ----------------------------
(***************************************************************************)
(* Theorems about Strings, for all characters, escapes and lengths.        *)
(***************************************************************************)
EXTENDS Strings, Recursion

Positive == Nat \ {0}

\* The recursion that doubles a number until it is n or more.
IsDoubling(f, n) == f = [p \in Positive |-> IF p < n THEN f[2 * p] ELSE p]

\* ... defines something: from n on, then from n - 1 on, and so on.
LEMMA DoublingDefines ==
  ASSUME NEW n \in Nat
  PROVE  \E f : IsDoubling(f, n)
<1> DEFINE Up(d) == {p \in Positive : p + d >= n}
           Agrees(f, d) == \A p \in Up(d) : f[p] = IF p < n THEN f[2 * p] ELSE p
           K == {d \in 0 .. n : \E f \in [Positive -> Positive] : Agrees(f, d)}
<1>1. 0 \in K
  <2> DEFINE f == [p \in Positive |-> p]
  <2>1. f \in [Positive -> Positive] /\ Agrees(f, 0)
    BY DEF Positive
  <2> HIDE DEF f
  <2> QED
    BY <2>1
<1>2. ASSUME NEW d \in 0 .. n - 1, d \in K
      PROVE  d + 1 \in K
  <2>1. PICK f \in [Positive -> Positive] : Agrees(f, d)
    BY <1>2
  <2> DEFINE g == [p \in Positive |-> IF p \in Up(d) THEN f[p] ELSE f[2 * p]]
  <2>2. \A p \in Positive : 2 * p \in Positive /\ (p \in Up(d + 1) => 2 * p \in Up(d))
    BY DEF Positive
  <2>3. g \in [Positive -> Positive]
    BY <2>2
  <2>4. \A p \in Up(d) : g[p] = f[p]
    OBVIOUS
  <2>5. \A p \in Positive \ Up(d) : g[p] = f[2 * p] /\ p < n
    BY DEF Positive
  <2> HIDE DEF g
  <2>6. Agrees(g, d + 1)
    <3> SUFFICES ASSUME NEW p \in Up(d + 1)
                 PROVE  g[p] = IF p < n THEN g[2 * p] ELSE p
      OBVIOUS
    <3>1. p \in Positive /\ 2 * p \in Up(d) /\ g[2 * p] = f[2 * p]
      BY <2>2, <2>4
    <3>2. CASE p \in Up(d)
      <4>1. g[p] = f[p] /\ f[p] = IF p < n THEN f[2 * p] ELSE p
        BY <2>1, <2>4, <3>2
      <4> QED
        BY <4>1, <3>1
    <3>3. CASE p \notin Up(d)
      <4>1. g[p] = f[2 * p] /\ p < n
        BY <2>5, <3>1, <3>3
      <4> QED
        BY <4>1, <3>1
    <3> QED
      BY <3>2, <3>3
  <2> QED
    BY <2>3, <2>6
<1>3. n \in K
  <2> HIDE DEF K
  <2> QED
    BY <1>1, <1>2, InductionTo
<1>4. PICK f \in [Positive -> Positive] : Agrees(f, n)
  BY <1>3
<1>5. \A p \in Positive : p \in Up(n)
  BY DEF Positive
<1>6. f = [p \in Positive |-> IF p < n THEN f[2 * p] ELSE p]
  <2> DEFINE h == [p \in Positive |-> IF p < n THEN f[2 * p] ELSE p]
  <2>1. \A p \in Positive : f[p] = h[p]
    BY <1>4, <1>5
  <2>2. f = [p \in Positive |-> f[p]] /\ h = [p \in Positive |-> h[p]]
    OBVIOUS
  <2> HIDE DEF h
  <2>3. [p \in Positive |-> f[p]] = [p \in Positive |-> h[p]]
    BY <2>1
  <2>4. f = h
    BY <2>2, <2>3
  <2> QED
    BY <2>4 DEF h
<1> QED
  BY <1>6 DEF IsDoubling

LEMMA DoubledIs ==
  ASSUME NEW m, NEW n \in Nat
  PROVE  \E f : IsDoubling(f, n) /\ Doubled(m, n) = f[m]
<1> DEFINE F == CHOOSE f : f = [p \in Nat \ {0} |-> IF p < n THEN f[2 * p] ELSE p]
<1>1. \E f : f = [p \in Nat \ {0} |-> IF p < n THEN f[2 * p] ELSE p]
  BY DoublingDefines DEF IsDoubling, Positive
<1>2. F = [p \in Nat \ {0} |-> IF p < n THEN F[2 * p] ELSE p]
  BY <1>1
<1>3. Doubled(m, n) = F[m]
  BY Zenon DEF Doubled
<1> HIDE DEF F
<1> QED
  BY <1>2, <1>3 DEF IsDoubling, Positive

\* A number is doubled until it is n or more.
LEMMA DoubledEnough ==
  ASSUME NEW m \in Positive, NEW n \in Nat
  PROVE  Doubled(m, n) \in Positive /\ Doubled(m, n) >= n
<1>1. PICK f : IsDoubling(f, n) /\ Doubled(m, n) = f[m]
  BY DoubledIs
<1> DEFINE K == {d \in 0 .. n : \A p \in Positive : p + d >= n => f[p] \in Positive /\ f[p] >= n}
<1>2. \A p \in Positive : f[p] = IF p < n THEN f[2 * p] ELSE p
  BY <1>1 DEF IsDoubling
<1>3. 0 \in K
  BY <1>2 DEF Positive
<1>4. ASSUME NEW d \in 0 .. n - 1, d \in K
      PROVE  d + 1 \in K
  <2> SUFFICES ASSUME NEW p \in Positive, p + (d + 1) >= n
               PROVE  f[p] \in Positive /\ f[p] >= n
    OBVIOUS
  <2>1. 2 * p \in Positive /\ 2 * p + d >= n
    BY DEF Positive
  <2>2. f[2 * p] \in Positive /\ f[2 * p] >= n
    BY <1>4, <2>1
  <2> QED
    BY <1>2, <2>2 DEF Positive
<1>5. n \in K
  <2> HIDE DEF K
  <2> QED
    BY <1>3, <1>4, InductionTo
<1> QED
  BY <1>1, <1>5 DEF Positive
-----------------------------------------------------------------------------
Byte == 0 .. 255

LEMMA ByteIs == \A x : x \in Byte <=> x \in Int /\ x >= 0 /\ x <= 255
  BY DEF Byte

Builders == [list : Seq(Byte), capacity : Positive]

\* What a string_builder holds has room in its buffer.
Fits(b) == Len(b.list) <= b.capacity

LEMMA EnsuredFits ==
  ASSUME NEW b \in Builders, NEW n \in Nat
  PROVE  /\ Ensured(b, n) \in Builders
         /\ Ensured(b, n).list = b.list
         /\ Len(b.list) + n <= Ensured(b, n).capacity
<1>1. Len(b.list) + n \in Nat /\ b.capacity \in Positive
  BY DEF Builders
<1>2. /\ Doubled(b.capacity, Len(b.list) + n) \in Positive
      /\ Doubled(b.capacity, Len(b.list) + n) >= Len(b.list) + n
  BY <1>1, DoubledEnough
<1> QED
  BY <1>1, <1>2 DEF Ensured, Builders, Positive

LEMMA AddFits ==
  ASSUME NEW b \in Builders, Fits(b), NEW x \in Byte
  PROVE  /\ Add(b, x) \in Builders /\ Fits(Add(b, x))
         /\ Add(b, x).list = Append(b.list, x)
<1>1. /\ 2 * b.capacity + 1 \in Nat /\ 1 \in Positive /\ b.capacity \in Positive
      /\ b.list \in Seq(Byte)
  BY DEF Builders, Positive
<1>2. /\ Doubled(1, 2 * b.capacity + 1) \in Positive
      /\ Doubled(1, 2 * b.capacity + 1) >= 2 * b.capacity + 1
  BY <1>1, DoubledEnough
<1>3. Append(b.list, x) \in Seq(Byte) /\ Len(Append(b.list, x)) = Len(b.list) + 1
  BY <1>1
<1>4. Len(b.list) \in Nat
  BY <1>1
<1> QED
  BY <1>1, <1>2, <1>3, <1>4 DEF Add, Builders, Fits, Positive

LEMMA NoCheckAppends ==
  ASSUME NEW b \in Builders, NEW bytes \in Seq(Byte)
  PROVE  /\ NoCheck(b, bytes) \in Builders
         /\ NoCheck(b, bytes).list = b.list \o bytes
         /\ NoCheck(b, bytes).capacity = b.capacity
         /\ Len(NoCheck(b, bytes).list) = Len(b.list) + Len(bytes)
<1>1. b.list \in Seq(Byte) /\ b.capacity \in Positive
  BY DEF Builders
<1>2. b.list \o bytes \in Seq(Byte) /\ Len(b.list \o bytes) = Len(b.list) + Len(bytes)
  BY <1>1
<1> HIDE DEF Byte
<1> QED
  BY <1>1, <1>2 DEF NoCheck, Builders

\* What is shorter than the room there is leaves room for a byte.
LEMMA NoCheckFits ==
  ASSUME NEW b \in Builders, NEW bytes \in Seq(Byte), NEW room \in Nat,
         Len(b.list) + room <= b.capacity, Len(bytes) < room
  PROVE  /\ NoCheck(b, bytes) \in Builders /\ Fits(NoCheck(b, bytes))
         /\ Len(NoCheck(b, bytes).list) + 1 <= NoCheck(b, bytes).capacity
<1> DEFINE c == NoCheck(b, bytes)
<1>1. /\ c \in Builders /\ c.capacity = b.capacity
      /\ Len(c.list) = Len(b.list) + Len(bytes)
  BY NoCheckAppends
<1> HIDE DEF c
<1>2. Len(b.list) \in Nat /\ Len(bytes) \in Nat /\ b.capacity \in Nat
  BY DEF Builders, Positive
<1>3. \A k, l, m \in Nat : k + room <= m /\ l < room => k + l <= m /\ (k + l) + 1 <= m
  OBVIOUS
<1>4. Len(b.list) + Len(bytes) <= b.capacity /\ (Len(b.list) + Len(bytes)) + 1 <= b.capacity
  BY <1>2, <1>3
<1>5. Len(c.list) <= c.capacity /\ Len(c.list) + 1 <= c.capacity
  BY <1>1, <1>4
<1> QED
  BY <1>1, <1>5 DEF c, Fits

LEMMA AddStringFits ==
  ASSUME NEW b \in Builders, NEW bytes \in Seq(Byte)
  PROVE  /\ AddString(b, bytes) \in Builders /\ Fits(AddString(b, bytes))
         /\ AddString(b, bytes).list = b.list \o bytes
<1>1. Len(bytes) \in Nat
  OBVIOUS
<1>2. /\ Ensured(b, Len(bytes)) \in Builders
      /\ Ensured(b, Len(bytes)).list = b.list
      /\ Len(b.list) + Len(bytes) <= Ensured(b, Len(bytes)).capacity
  BY <1>1, EnsuredFits
<1> DEFINE e == Ensured(b, Len(bytes))
<1> HIDE DEF e
<1>3. /\ NoCheck(e, bytes) \in Builders
      /\ NoCheck(e, bytes).list = e.list \o bytes
      /\ NoCheck(e, bytes).capacity = e.capacity
      /\ Len(NoCheck(e, bytes).list) = Len(e.list) + Len(bytes)
  BY <1>2, NoCheckAppends DEF e
<1> QED
  BY <1>2, <1>3 DEF AddString, Fits, e

LEMMA NewBuilderFits == NewBuilder \in Builders /\ Fits(NewBuilder) /\ NewBuilder.list = <<>>
  BY DEF NewBuilder, Builders, Fits, Positive

\* An element is appended to what two sequences make, or to the second of them.
LEMMA AppendToConcat ==
  \A u, v \in Seq(Byte) : \A x \in Byte : Append(u \o v, x) = u \o Append(v, x)
<1> SUFFICES ASSUME NEW u \in Seq(Byte), NEW v \in Seq(Byte), NEW x \in Byte
             PROVE  Append(u \o v, x) = u \o Append(v, x)
  OBVIOUS
<1> DEFINE w == <<x>>
<1>1. w \in Seq(Byte) /\ u \o v \in Seq(Byte)
  OBVIOUS
<1>2. Append(u \o v, x) = (u \o v) \o w /\ Append(v, x) = v \o w
  BY <1>1, AppendIsConcat
<1> HIDE DEF w
<1>3. (u \o v) \o w = u \o (v \o w)
  <2> DEFINE l == (u \o v) \o w
             r == u \o (v \o w)
  <2>1. l \in Seq(Byte) /\ r \in Seq(Byte) /\ Len(l) = Len(r)
    BY <1>1
  <2>2. \A i \in 1 .. Len(l) : l[i] = r[i]
    BY <1>1
  <2> HIDE DEF l, r
  <2>3. l = r
    BY <2>1, <2>2, SeqEqual
  <2> QED
    BY <2>3 DEF l, r
<1> QED
  BY <1>2, <1>3, Zenon

LEMMA AddAllFits ==
  ASSUME NEW b \in Builders, Fits(b), NEW bytes \in Seq(Byte)
  PROVE  /\ AddAll(b, bytes) \in Builders /\ Fits(AddAll(b, bytes))
         /\ AddAll(b, bytes).list = b.list \o bytes
<1> DEFINE n == Len(bytes)
           B == {x \in Builders : Fits(x)}
           step == [p \in (1 .. n) \X B |-> Add(p[2], bytes[p[1]])]
<1>1. n \in Nat /\ b \in B
  OBVIOUS
<1>2. step \in [(1 .. n) \X B -> B]
  BY AddFits
<1>3. PICK f \in [0 .. n -> B] : Follows(f, n, b, step)
  <2> HIDE DEF step, B, n
  <2> QED
    BY <1>1, <1>2, RecursionDefines
<1>4. f = [k \in 0 .. Len(bytes) |-> IF k = 0 THEN b ELSE Add(f[k - 1], bytes[k])]
  <2>1. \A k \in 0 .. n : f[k] = IF k = 0 THEN b ELSE Add(f[k - 1], bytes[k])
    <3> SUFFICES ASSUME NEW k \in 0 .. n
                 PROVE  f[k] = IF k = 0 THEN b ELSE Add(f[k - 1], bytes[k])
      OBVIOUS
    <3>1. CASE k = 0
      BY <1>3, <3>1 DEF Follows
    <3>2. CASE k \in 1 .. n
      <4>1. k - 1 \in 0 .. n /\ f[k - 1] \in B
        BY <3>2
      <4>2. f[k] = step[<<k, f[k - 1]>>]
        BY <1>3, <3>2 DEF Follows
      <4> QED
        BY <3>2, <4>1, <4>2
    <3> QED
      BY <3>1, <3>2
  <2> QED
    BY <2>1
<1>5. \E g : /\ g = [k \in 0 .. Len(bytes) |-> IF k = 0 THEN b ELSE Add(g[k - 1], bytes[k])]
             /\ AddAll(b, bytes) = g[Len(bytes)]
  BY <1>4, Zenon DEF AddAll
<1>6. PICK g : /\ g = [k \in 0 .. Len(bytes) |-> IF k = 0 THEN b ELSE Add(g[k - 1], bytes[k])]
               /\ AddAll(b, bytes) = g[Len(bytes)]
  BY <1>5
<1> DEFINE K == {k \in 0 .. n : /\ g[k] \in Builders /\ Fits(g[k])
                                /\ g[k].list = b.list \o SubSeq(bytes, 1, k)}
<1>7. 0 \in K
  BY <1>6 DEF Builders
<1>8. ASSUME NEW k \in 0 .. n - 1, k \in K
      PROVE  k + 1 \in K
  <2>1. g[k + 1] = Add(g[k], bytes[k + 1]) /\ bytes[k + 1] \in Byte
    BY <1>6
  <2>2. /\ g[k + 1] \in Builders /\ Fits(g[k + 1])
        /\ g[k + 1].list = Append(b.list \o SubSeq(bytes, 1, k), bytes[k + 1])
    BY <1>8, <2>1, AddFits
  <2>3. b.list \in Seq(Byte)
    BY DEF Builders
  <2>4. SubSeq(bytes, 1, k) \in Seq(Byte)
        /\ SubSeq(bytes, 1, k + 1) = Append(SubSeq(bytes, 1, k), bytes[k + 1])
    OBVIOUS
  <2>5. \A u, v \in Seq(Byte) : \A x \in Byte : Append(u \o v, x) = u \o Append(v, x)
    BY AppendToConcat
  <2>6. Append(b.list \o SubSeq(bytes, 1, k), bytes[k + 1])
          = b.list \o Append(SubSeq(bytes, 1, k), bytes[k + 1])
    BY <2>1, <2>3, <2>4, <2>5
  <2>7. g[k + 1].list = b.list \o SubSeq(bytes, 1, k + 1)
    BY <2>2, <2>4, <2>6
  <2>8. n \in Nat
    BY <1>1
  <2> HIDE DEF n
  <2>9. k + 1 \in 0 .. n
    BY <2>8
  <2> QED
    BY <2>2, <2>7, <2>9, Zenon
<1>9. n \in K
  <2> HIDE DEF K
  <2>1. n \in Nat
    BY <1>1
  <2> HIDE DEF n
  <2>2. \A i \in 0 .. n : i \in K
    BY <1>7, <1>8, <2>1, InductionTo
  <2> QED
    BY <2>1, <2>2
<1>10. SubSeq(bytes, 1, n) = bytes
  OBVIOUS
<1> QED
  BY <1>6, <1>9, <1>10
-----------------------------------------------------------------------------
\* Characters and what is written for them are bytes.
LEMMA LettersAreBytes ==
  \A b \in DOMAIN Letter : b \in Byte /\ Letter[b] \in Byte
<1>1. \A x \in DOMAIN Unescaped : x \in Byte /\ Unescaped[x] \in Byte
  BY DEF Unescaped, Byte, TAB, LF
<1>2. DOMAIN Letter = {Unescaped[x] : x \in DOMAIN Unescaped}
  BY DEF Letter
<1> SUFFICES ASSUME NEW b \in DOMAIN Letter
             PROVE  b \in Byte /\ Letter[b] \in Byte
  OBVIOUS
<1>3. Letter[b] = CHOOSE x \in DOMAIN Unescaped : Unescaped[x] = b
  BY <1>2 DEF Letter
<1>4. \E x \in DOMAIN Unescaped : Unescaped[x] = b
  BY <1>2
<1>5. Letter[b] \in DOMAIN Unescaped /\ Unescaped[Letter[b]] = b
  BY <1>3, <1>4
<1> QED
  BY <1>1, <1>5

LEMMA EncodedInBytes ==
  ASSUME NEW v \in Nat, v < 65536
  PROVE  Encoded(v) \in Seq(Byte)
<1>1. ASSUME NEW a \in Byte, NEW b \in Byte, NEW d \in Byte
      PROVE  <<a>> \in Seq(Byte) /\ <<a, b>> \in Seq(Byte) /\ <<a, b, d>> \in Seq(Byte)
  BY <1>1
<1>2. v <= 127 => v \in Byte
  BY ByteIs
<1>3. v <= 2047 => 192 + v \div 64 \in Byte
  BY ByteIs
<1>4. 224 + v \div 4096 \in Byte
  BY ByteIs
<1>5. \A x \in Int : 128 + (x % 64) \in Byte
  BY ByteIs
<1>6. v \in Int /\ v \div 64 \in Int
  OBVIOUS
<1>7. 128 + ((v \div 64) % 64) \in Byte /\ 128 + (v % 64) \in Byte
  BY <1>5, <1>6
<1>8. v <= 127 => <<v>> \in Seq(Byte)
  BY <1>1, <1>2
<1>9. v <= 2047 => <<192 + v \div 64, 128 + (v % 64)>> \in Seq(Byte)
  BY <1>1, <1>3, <1>7
<1>10. <<224 + v \div 4096, 128 + ((v \div 64) % 64), 128 + (v % 64)>> \in Seq(Byte)
  BY <1>1, <1>4, <1>7
<1> QED
  BY <1>8, <1>9, <1>10 DEF Encoded

LEMMA HexInBytes ==
  ASSUME NEW v \in Nat, NEW n \in 1 .. 6
  PROVE  Hex(v, n) \in Seq(Byte) /\ Len(Hex(v, n)) = n
<1> DEFINE d(k) == (v \div Sixteens[n - k + 1]) % 16
<1>1. \A k \in 1 .. n : d(k) \in 0 .. 15
  <2> SUFFICES ASSUME NEW k \in 1 .. n
               PROVE  d(k) \in 0 .. 15
    OBVIOUS
  <2>1. n - k + 1 \in 1 .. 6
    OBVIOUS
  <2>2. \A i \in 1 .. 6 : Sixteens[i] \in Nat \ {0}
    BY DEF Sixteens
  <2>3. PICK m \in Nat \ {0} : m = Sixteens[n - k + 1]
    BY <2>1, <2>2
  <2>4. v \div m \in Int
    OBVIOUS
  <2>5. \A x \in Int : x % 16 \in 0 .. 15
    OBVIOUS
  <2> QED
    BY <2>3, <2>4, <2>5
<1>2. Hex(v, n) = [k \in 1 .. n |-> IF d(k) < 10 THEN 48 + d(k) ELSE 87 + d(k)]
  BY DEF Hex
<1> HIDE DEF d
<1>3. \A k \in 1 .. n : (IF d(k) < 10 THEN 48 + d(k) ELSE 87 + d(k)) \in Byte
  BY <1>1, ByteIs
<1>4. Hex(v, n) \in [1 .. n -> Byte]
  BY <1>2, <1>3
<1> QED
  BY <1>4

\* The sequence at next lies within the string.
LEMMA SequenceInBytes ==
  ASSUME value.bytes \in Seq(Byte), next \in 1 .. Len(value.bytes)
  PROVE  /\ Sequence \in Seq(Byte)
         /\ next + Len(Sequence) \in 1 .. Len(value.bytes) + 1
         /\ \A k \in 1 .. Len(Sequence) : Sequence[k] = value.bytes[next + k - 1]
         /\ Len(Sequence) <= Size(byte)
<1> DEFINE n == Len(value.bytes)
           S == {next + Size(byte) - 1, n}
<1>1. n \in Nat /\ Size(byte) \in 0 .. 4 /\ next \in 1 .. n
  BY DEF Size
<1>2. Min(S) \in next - 1 .. n /\ Min(S) <= next + Size(byte) - 1
  <2> DEFINE m == IF next + Size(byte) - 1 <= n THEN next + Size(byte) - 1 ELSE n
  <2>1. m \in S /\ \A x \in S : m <= x /\ x \in Int
    BY <1>1
  <2>2. Min(S) \in S /\ \A x \in S : Min(S) <= x
    BY <2>1 DEF Min
  <2> QED
    BY <1>1, <2>2
<1>3. PICK m \in next - 1 .. n : m = Min(S) /\ m <= next + Size(byte) - 1
  BY <1>2
<1>4. Sequence = SubSeq(value.bytes, next, m)
  BY <1>3 DEF Sequence
<1>5. \A i \in next .. m : value.bytes[i] \in Byte
  BY <1>1
<1>6. /\ Sequence \in Seq(Byte)
      /\ Len(Sequence) = IF next <= m THEN m - next + 1 ELSE 0
      /\ \A k \in 1 .. m - next + 1 : Sequence[k] = value.bytes[next + k - 1]
  BY <1>1, <1>4, <1>5, SubSeqProperties
<1>7. Len(Sequence) \in 0 .. m - next + 1 /\ m - next + 1 <= Size(byte)
  BY <1>1, <1>3, <1>6
<1>8. next + Len(Sequence) \in 1 .. n + 1 /\ Len(Sequence) <= Size(byte)
  BY <1>1, <1>3, <1>7
<1>9. \A k \in 1 .. Len(Sequence) : k \in 1 .. m - next + 1
  BY <1>1, <1>3, <1>7
<1> QED
  BY <1>6, <1>8, <1>9

LEMMA DecodedIsNumber ==
  ASSUME value.bytes \in Seq(Byte), next \in 1 .. Len(value.bytes)
  PROVE  Decoded \in Nat
<1> DEFINE n == Len(Sequence)
           q == Sequence
           base == byte % (<<64, 32, 16, 8>>)[Size(byte)]
           step == [p \in (1 .. n) \X Nat |-> IF p[1] = 1 THEN base ELSE p[2] * 64 + (q[p[1]] % 64)]
<1>1. n \in Nat /\ n <= Size(byte) /\ q \in Seq(Byte) /\ byte \in Byte
  BY SequenceInBytes DEF byte
<1>2. n > 0 => base \in Nat
  <2>1. n > 0 => Size(byte) \in 1 .. 4
    BY <1>1 DEF Size
  <2>2. \A i \in 1 .. 4 : (<<64, 32, 16, 8>>)[i] \in Nat \ {0}
    OBVIOUS
  <2>3. \A m \in Nat \ {0} : byte % m \in Nat
    BY <1>1, ByteIs
  <2> QED
    BY <2>1, <2>2, <2>3
<1> HIDE DEF base, q, n
<1>3. \A i \in 1 .. n : q[i] \in Nat
  <2>1. n = Len(q)
    BY DEF n, q
  <2> QED
    BY <1>1, <2>1, ByteIs
<1>4. step \in [(1 .. n) \X Nat -> Nat]
  <2> SUFFICES ASSUME NEW p \in (1 .. n) \X Nat
               PROVE  (IF p[1] = 1 THEN base ELSE p[2] * 64 + (q[p[1]] % 64)) \in Nat
    OBVIOUS
  <2>1. p[1] \in 1 .. n /\ p[2] \in Nat /\ q[p[1]] \in Nat
    BY <1>3
  <2>2. n > 0
    BY <1>1, <2>1
  <2> QED
    BY <1>2, <2>1, <2>2
<1>5. PICK f \in [0 .. n -> Nat] : Follows(f, n, 0, step)
  <2> HIDE DEF step
  <2> QED
    BY <1>1, <1>4, RecursionDefines
<1>6. \A k \in 0 .. n : f[k] = IF k = 0 THEN 0 ELSE IF k = 1 THEN base
                               ELSE f[k - 1] * 64 + (q[k] % 64)
  <2> SUFFICES ASSUME NEW k \in 0 .. n
               PROVE  f[k] = IF k = 0 THEN 0 ELSE IF k = 1 THEN base
                             ELSE f[k - 1] * 64 + (q[k] % 64)
    OBVIOUS
  <2>1. CASE k = 0
    BY <1>5, <2>1 DEF Follows
  <2>2. CASE k \in 1 .. n
    <3>1. k - 1 \in 0 .. n /\ f[k - 1] \in Nat
      BY <1>1, <2>2
    <3>2. f[k] = step[<<k, f[k - 1]>>]
      BY <1>5, <2>2 DEF Follows
    <3> QED
      BY <2>2, <3>1, <3>2
  <2> QED
    BY <1>1, <2>1, <2>2
<1>7. f = [k \in 0 .. n |-> IF k = 0 THEN 0 ELSE IF k = 1 THEN base
                            ELSE f[k - 1] * 64 + (q[k] % 64)]
  BY <1>6
<1>8. f = [k \in 0 .. Len(Sequence) |->
             IF k = 0 THEN 0
             ELSE IF k = 1 THEN byte % (<<64, 32, 16, 8>>)[Size(byte)]
             ELSE f[k - 1] * 64 + (Sequence[k] % 64)]
  BY <1>7 DEF n, q, base
<1>9. \E g : /\ g = [k \in 0 .. Len(Sequence) |->
                       IF k = 0 THEN 0
                       ELSE IF k = 1 THEN byte % (<<64, 32, 16, 8>>)[Size(byte)]
                       ELSE g[k - 1] * 64 + (Sequence[k] % 64)]
             /\ Decoded = g[Len(Sequence)]
  BY <1>8, Zenon DEF Decoded
<1>10. PICK g : /\ g = [k \in 0 .. n |->
                          IF k = 0 THEN 0 ELSE IF k = 1 THEN base
                          ELSE g[k - 1] * 64 + (q[k] % 64)]
                /\ Decoded = g[n]
  BY <1>9 DEF n, q, base
<1> DEFINE K == {k \in 0 .. n : g[k] \in Nat}
<1>11. 0 \in K
  BY <1>1, <1>10
<1>12. ASSUME NEW k \in 0 .. n - 1, k \in K
       PROVE  k + 1 \in K
  <2>1. k + 1 \in 0 .. n /\ k + 1 # 0 /\ (k + 1) - 1 = k /\ n > 0 /\ k + 1 \in 1 .. n
    BY <1>1
  <2>2. g[k + 1] = IF k + 1 = 1 THEN base ELSE g[k] * 64 + (q[k + 1] % 64)
    BY <1>10, <2>1
  <2> QED
    BY <1>2, <1>3, <1>12, <2>1, <2>2
<1>13. \A k \in 0 .. n : k \in K
  <2> HIDE DEF K
  <2> QED
    BY <1>1, <1>11, <1>12, InductionTo
<1> QED
  BY <1>1, <1>10, <1>13

LEMMA HexOfInBytes ==
  ASSUME NEW v \in Nat
  PROVE  HexOf(v) \in Seq(Byte) /\ Len(HexOf(v)) \in 4 .. 6
  BY HexInBytes DEF HexOf
-----------------------------------------------------------------------------
Labels == {"unescaped", "escape", "loop", "made", "write", "close", "written",
           "freed", "error", "fault"}

Values == [kind : {"none", "String", "UString"}, bytes : Seq(Byte)]

Typed ==
  /\ pc \in Labels /\ role \in {"value", "key"}
  /\ text \in Seq(Byte) /\ pieces \in 0 .. MaxPieces
  /\ sb \in Builders
  /\ heap \subseteq {"string", "builder", "output"}
  /\ value \in Values /\ next \in 1 .. Len(value.bytes) + 1

\* There is room for what is in the buffer, and for the quote that closes the
\* string.
Roomy ==
  /\ Fits(sb)
  /\ pc = "write" => Len(sb.list) + 1 <= sb.capacity

NoBackslash(t) == \A i \in 1 .. Len(t) : t[i] # Backslash

Hexless(t) == \E s \in Seq(Byte) : t = s \o <<Backslash, U>>

\* The buffer of the value's own.
Own == IF value.kind = "String"
         THEN IF Len(value.bytes) > InlineSize THEN {"string"} ELSE {}
         ELSE IF Len(value.bytes) >= InlineSize THEN {"builder"} ELSE {}

\* Which buffers are allocated at each place.
Allocated ==
  /\ pc \in {"unescaped", "escape", "loop", "made"} => next = 1
  /\ pc = "unescaped" => heap = {} /\ NoBackslash(text)
  /\ pc \in {"escape", "loop"} => heap = {"builder"}
  /\ pc \in {"made", "write", "close", "written"} =>
       value.kind # "none" /\ heap \ {"output"} = Own
  /\ pc = "freed" =>
       heap = {} \/ (value.kind = "UString" /\ Len(value.bytes) = InlineSize)
  /\ pc = "error" => heap = {} \/ NoBackslash(text) \/ Hexless(text)

IInv == Typed /\ Roomy /\ Allocated

LEMMA NoBackslashMeans ==
  ASSUME NEW t \in Seq(Byte), NoBackslash(t)
  PROVE  Backslash \notin ToSet(t)
  BY DEF NoBackslash, ToSet

LEMMA HexlessMeans ==
  ASSUME NEW t, Hexless(t)
  PROVE  IsSuffix(<<Backslash, U>>, t)
<1>1. PICK s \in Seq(Byte) : t = s \o <<Backslash, U>>
  BY DEF Hexless
<1> DEFINE e == <<Backslash, U>>
           n == Len(s)
<1>2. n \in Nat /\ Len(t) = n + 2 /\ t[n + 1] = Backslash /\ t[n + 2] = U
  BY <1>1, ByteIs DEF Backslash, U
<1>3. Reverse(t) = [i \in 1 .. n + 2 |-> t[(n + 2 - i) + 1]]
  BY <1>2 DEF Reverse
<1>4. Reverse(e) = <<U, Backslash>>
  BY DEF Reverse
<1>5. /\ DOMAIN Reverse(t) = 1 .. n + 2 /\ Len(Reverse(t)) = n + 2
      /\ Reverse(t)[1] = U /\ Reverse(t)[2] = Backslash
  BY <1>2, <1>3
<1>6. ASSUME NEW r, r[1] = U, r[2] = Backslash
      PROVE  SubSeq(r, 1, 2) = <<U, Backslash>>
  <2>1. \A i \in 1 .. 2 : r[i] \in {U, Backslash}
    BY <1>6
  <2>2. /\ SubSeq(r, 1, 2) \in Seq({U, Backslash}) /\ Len(SubSeq(r, 1, 2)) = 2
        /\ SubSeq(r, 1, 2)[1] = U /\ SubSeq(r, 1, 2)[2] = Backslash
    BY <2>1, <1>6, SubSeqProperties
  <2>3. \A q \in Seq({U, Backslash}) :
          Len(q) = 2 /\ q[1] = U /\ q[2] = Backslash => q = <<U, Backslash>>
    OBVIOUS
  <2> QED
    BY <2>2, <2>3
<1>7. Len(Reverse(e)) = 2 /\ Reverse(e)[1] = U /\ Reverse(e)[2] = Backslash
  BY <1>4
<1>8. SubSeq(Reverse(e), 1, Len(Reverse(e))) = SubSeq(Reverse(t), 1, Len(Reverse(e)))
  BY <1>5, <1>6, <1>7
<1> QED
  BY <1>2, <1>5, <1>7, <1>8 DEF IsSuffix, IsPrefix

-----------------------------------------------------------------------------
LEMMA InitIInv == Init => IInv
<1> SUFFICES ASSUME Init PROVE IInv
  OBVIOUS
<1>1. NewBuilder \in Builders /\ Fits(NewBuilder)
  BY NewBuilderFits
<1>2. Typed
  BY <1>1, StringsAssumption DEF Init, Typed, Labels, Values, NoValue
<1> QED
  BY <1>1, <1>2 DEF Init, IInv, Roomy, Allocated, NoBackslash

LEMMA Begins ==
  ASSUME Typed
  PROVE  Begun \in Builders /\ Fits(Begun)
  BY NewBuilderFits, AddStringFits DEF Begun, Typed

LEMMA Reads ==
  ASSUME Typed, NEW bytes \in Seq(Byte), Read(bytes)
  PROVE  text' \in Seq(Byte) /\ pieces' \in 0 .. MaxPieces
  BY StringsAssumption DEF Typed, Read

LEMMA RawInBytes ==
  ASSUME NEW r \in Raw
  PROVE  r \in Seq(Byte) /\ r # <<>> /\ NoBackslash(r)
<1>1. r \in Seq(0 .. 255 \ {Quote, Backslash}) /\ r # <<>>
  BY StringsAssumption
<1>2. \A i \in 1 .. Len(r) : r[i] \in 0 .. 255 \ {Quote, Backslash}
  BY <1>1
<1>3. \A i \in 1 .. Len(r) : r[i] \in Byte /\ r[i] # Backslash
  BY <1>2 DEF Byte
<1> QED
  BY <1>1, <1>3 DEF NoBackslash

LEMMA StepUnescaped ==
  ASSUME IInv, SkipUnescaped \/ ThrowControl \/ FirstEscape \/ ThrowUnclosed
  PROVE  IInv'
<1>1. CASE SkipUnescaped
  <2>1. PICK r \in Raw : Read(r)
    BY <1>1 DEF SkipUnescaped
  <2>2. r \in Seq(Byte) /\ NoBackslash(r)
    BY RawInBytes
  <2>3. text' \in Seq(Byte) /\ pieces' \in 0 .. MaxPieces
    BY <2>1, <2>2, Reads DEF IInv
  <2>4. NoBackslash(text) /\ text' = text \o r /\ text \in Seq(Byte)
    BY <1>1, <2>1 DEF SkipUnescaped, IInv, Allocated, Read, Typed
  <2>5. NoBackslash(text')
    BY <2>2, <2>4 DEF NoBackslash
  <2>6. UNCHANGED <<pc, role, sb, heap, value, next>> /\ pc = "unescaped"
    BY <1>1 DEF SkipUnescaped
  <2>7. Typed'
    BY <2>3, <2>6 DEF IInv, Typed
  <2>8. Roomy'
    BY <2>6 DEF IInv, Roomy
  <2>9. Allocated'
    BY <2>5, <2>6 DEF IInv, Allocated
  <2> QED
    BY <2>7, <2>8, <2>9 DEF IInv
<1>2. CASE ThrowControl
  <2>1. PICK b \in {TAB, LF} : Read(<<b>>)
    BY <1>2 DEF ThrowControl
  <2>2. <<b>> \in Seq(Byte)
    BY ByteIs DEF TAB, LF
  <2>3. text' \in Seq(Byte) /\ pieces' \in 0 .. MaxPieces
    BY <2>1, <2>2, Reads DEF IInv
  <2>4. UNCHANGED <<role, sb, heap, value, next>> /\ pc = "unescaped" /\ pc' = "error"
    BY <1>2 DEF ThrowControl, Throw
  <2>5. Typed'
    BY <2>3, <2>4 DEF IInv, Typed, Labels
  <2>6. Roomy' /\ Allocated'
    BY <2>4 DEF IInv, Roomy, Allocated
  <2> QED
    BY <2>5, <2>6 DEF IInv
<1>3. CASE FirstEscape \/ ThrowUnclosed
  <2>1. Begun \in Builders /\ Fits(Begun)
    BY Begins DEF IInv
  <2>2. /\ pc = "unescaped" /\ pc' \in {"escape", "error"} /\ sb' = Begun
        /\ heap' = heap \cup {"builder"}
        /\ UNCHANGED <<role, text, pieces, value, next>>
    BY <1>3 DEF FirstEscape, ThrowUnclosed, Goto, Throw
  <2>3. Typed'
    BY <2>1, <2>2 DEF IInv, Typed, Labels
  <2>4. Roomy' /\ Allocated'
    BY <2>1, <2>2 DEF IInv, Roomy, Allocated
  <2> QED
    BY <2>3, <2>4 DEF IInv
<1> QED
  BY <1>1, <1>2, <1>3

LEMMA StepEscape ==
  ASSUME IInv, ParseEscape \/ ThrowEscape \/ ParseUnicode \/ ThrowHex
  PROVE  IInv'
<1>1. CASE ParseEscape
  <2>1. PICK b \in Escapes : Read(<<Backslash, Letter[b]>>) /\ sb' = Add(sb, b)
    BY <1>1 DEF ParseEscape
  <2>2. b \in Byte /\ <<Backslash, Letter[b]>> \in Seq(Byte)
    <3>1. b \in Byte /\ Letter[b] \in Byte /\ Backslash \in Byte
      BY LettersAreBytes, StringsAssumption, ByteIs DEF Backslash
    <3> QED
      BY <3>1
  <2>3. text' \in Seq(Byte) /\ pieces' \in 0 .. MaxPieces
    BY <2>1, <2>2, Reads DEF IInv
  <2>4. sb' \in Builders /\ Fits(sb')
    BY <2>1, <2>2, AddFits DEF IInv, Typed, Roomy
  <2>5. UNCHANGED <<role, heap, value, next>> /\ pc = "escape" /\ pc' = "loop"
    BY <1>1 DEF ParseEscape, Goto
  <2>6. Typed'
    BY <2>3, <2>4, <2>5 DEF IInv, Typed, Labels
  <2>7. Roomy' /\ Allocated'
    BY <2>4, <2>5 DEF IInv, Roomy, Allocated
  <2> QED
    BY <2>6, <2>7 DEF IInv
<1>2. CASE ThrowEscape
  <2>1. /\ heap' = heap \ {"builder"} /\ pc' = "error" /\ pc = "escape"
        /\ UNCHANGED <<role, text, pieces, sb, value, next>>
    BY <1>2 DEF ThrowEscape, Throw
  <2>2. Typed'
    BY <2>1 DEF IInv, Typed, Labels
  <2>3. Roomy' /\ Allocated'
    BY <2>1 DEF IInv, Roomy, Allocated
  <2> QED
    BY <2>2, <2>3 DEF IInv
<1>3. CASE ParseUnicode
  <2>1. PICK v \in CodePoints : /\ Read(<<Backslash, U>> \o Hex(v, 4))
                                /\ sb' = AddAll(sb, Encoded(v))
    BY <1>3 DEF ParseUnicode
  <2>2. v \in Nat /\ v < 65536
    BY StringsAssumption
  <2>3. Encoded(v) \in Seq(Byte) /\ <<Backslash, U>> \o Hex(v, 4) \in Seq(Byte)
    <3>1. Hex(v, 4) \in Seq(Byte) /\ Encoded(v) \in Seq(Byte)
      BY <2>2, HexInBytes, EncodedInBytes
    <3>2. <<Backslash, U>> \in Seq(Byte)
      BY ByteIs DEF Backslash, U
    <3> QED
      BY <3>1, <3>2
  <2>4. text' \in Seq(Byte) /\ pieces' \in 0 .. MaxPieces
    BY <2>1, <2>3, Reads DEF IInv
  <2>5. sb' \in Builders /\ Fits(sb')
    BY <2>1, <2>3, AddAllFits DEF IInv, Typed, Roomy
  <2>6. UNCHANGED <<role, heap, value, next>> /\ pc = "escape" /\ pc' = "loop"
    BY <1>3 DEF ParseUnicode, Goto
  <2>7. Typed'
    BY <2>4, <2>5, <2>6 DEF IInv, Typed, Labels
  <2>8. Roomy' /\ Allocated'
    BY <2>5, <2>6 DEF IInv, Roomy, Allocated
  <2> QED
    BY <2>7, <2>8 DEF IInv
<1>4. CASE ThrowHex
  <2>1. Read(<<Backslash, U>>)
    BY <1>4 DEF ThrowHex
  <2>2. <<Backslash, U>> \in Seq(Byte)
    BY ByteIs DEF Backslash, U
  <2>3. text' \in Seq(Byte) /\ pieces' \in 0 .. MaxPieces
    BY <2>1, <2>2, Reads DEF IInv
  <2>4. Hexless(text')
    BY <2>1 DEF Hexless, Read, IInv, Typed
  <2>5. UNCHANGED <<role, sb, heap, value, next>> /\ pc = "escape" /\ pc' = "error"
    BY <1>4 DEF ThrowHex, Throw
  <2>6. Typed'
    BY <2>3, <2>5 DEF IInv, Typed, Labels
  <2>7. Roomy' /\ Allocated'
    BY <2>4, <2>5 DEF IInv, Roomy, Allocated
  <2> QED
    BY <2>6, <2>7 DEF IInv
<1> QED
  BY <1>1, <1>2, <1>3, <1>4

LEMMA StepLoop ==
  ASSUME IInv, NextEscape \/ Loop \/ UStringNew
  PROVE  IInv'
<1>1. CASE NextEscape
  <2>1. /\ pc = "loop" /\ pc' = "escape"
        /\ UNCHANGED <<role, text, pieces, sb, heap, value, next>>
    BY <1>1 DEF NextEscape, Goto
  <2>2. Typed'
    BY <2>1 DEF IInv, Typed, Labels
  <2>3. Roomy' /\ Allocated'
    BY <2>1 DEF IInv, Roomy, Allocated
  <2> QED
    BY <2>2, <2>3 DEF IInv
<1>2. CASE Loop
  <2>1. PICK r \in Raw : Read(r) /\ sb' = AddAll(sb, r)
    BY <1>2 DEF Loop
  <2>2. r \in Seq(Byte)
    BY RawInBytes
  <2>3. text' \in Seq(Byte) /\ pieces' \in 0 .. MaxPieces
    BY <2>1, <2>2, Reads DEF IInv
  <2>4. sb' \in Builders /\ Fits(sb')
    BY <2>1, <2>2, AddAllFits DEF IInv, Typed, Roomy
  <2>5. UNCHANGED <<pc, role, heap, value, next>> /\ pc = "loop"
    BY <1>2 DEF Loop
  <2>6. Typed'
    BY <2>3, <2>4, <2>5 DEF IInv, Typed
  <2>7. Roomy' /\ Allocated'
    BY <2>4, <2>5 DEF IInv, Roomy, Allocated
  <2> QED
    BY <2>6, <2>7 DEF IInv
<1>3. CASE UStringNew
  <2>1. /\ pc = "loop" /\ pc' = "made" /\ value' = [kind |-> "UString", bytes |-> sb.list]
        /\ sb' = Add(sb, 0) /\ UNCHANGED <<role, text, pieces, next>>
        /\ heap' = IF Len(sb.list) + 1 <= InlineSize THEN heap \ {"builder"} ELSE heap
    BY <1>3 DEF UStringNew, Goto
  <2>2. sb' \in Builders /\ Fits(sb')
    <3>1. 0 \in Byte /\ sb \in Builders /\ Fits(sb)
      BY ByteIs DEF IInv, Typed, Roomy
    <3> QED
      BY <2>1, <3>1, AddFits
  <2>3. sb.list \in Seq(Byte) /\ Len(sb.list) \in Nat /\ next = 1 /\ heap = {"builder"}
    BY <2>1 DEF IInv, Typed, Allocated, Builders
  <2>4. value' \in Values /\ value'.kind = "UString" /\ value'.bytes = sb.list
    BY <2>1, <2>3 DEF Values
  <2>5. Typed'
    BY <2>1, <2>2, <2>3, <2>4 DEF IInv, Typed, Labels
  <2>6. heap' \ {"output"} = Own'
    BY <2>1, <2>3, <2>4, StringsAssumption DEF Own
  <2>7. Roomy' /\ Allocated'
    BY <2>1, <2>2, <2>3, <2>4, <2>6 DEF IInv, Roomy, Allocated
  <2> QED
    BY <2>5, <2>7 DEF IInv
<1> QED
  BY <1>1, <1>2, <1>3

LEMMA StepNew ==
  ASSUME IInv, FastPath \/ Make
  PROVE  IInv'
<1>1. pc = "unescaped" /\ pc' = "made" /\ UNCHANGED <<role, pieces, sb, next>>
  BY DEF FastPath, Make, Goto
<1>2. PICK bytes \in Seq(Byte) : text' \in Seq(Byte) /\ StringNew(bytes)
  <2>1. CASE FastPath
    BY <2>1 DEF FastPath, IInv, Typed
  <2>2. CASE Make
    <3>1. Made \subseteq Seq(Byte)
      BY StringsAssumption DEF Byte
    <3> QED
      BY <2>2, <3>1 DEF Make
  <2> QED
    BY <2>1, <2>2
<1>3. value' = [kind |-> "String", bytes |-> bytes] /\ value' \in Values
  BY <1>2 DEF StringNew, Values
<1>4. heap = {} /\ next = 1
  BY <1>1 DEF IInv, Allocated
<1>5. heap' = IF Len(bytes) > InlineSize THEN {"string"} ELSE {}
  BY <1>2, <1>4 DEF StringNew
<1>6. Typed'
  BY <1>1, <1>2, <1>3, <1>4, <1>5 DEF IInv, Typed, Labels
<1>7. heap' \ {"output"} = Own'
  BY <1>3, <1>5 DEF Own
<1>8. Roomy' /\ Allocated'
  BY <1>1, <1>3, <1>4, <1>7 DEF IInv, Roomy, Allocated
<1> QED
  BY <1>6, <1>8 DEF IInv

LEMMA Opens ==
  Opened \in Builders /\ Fits(Opened)
<1>1. 123 \in Byte /\ 91 \in Byte
  BY ByteIs
<1> QED
  BY <1>1, NewBuilderFits, AddFits DEF Opened

LEMMA StepWriteOpen ==
  ASSUME IInv, WriteAsItIs \/ WriteQuote
  PROVE  IInv'
<1> DEFINE n == Len(value.bytes)
           e == Ensured(Opened, n + 2)
<1>1. /\ pc = "made" /\ heap' = heap \cup {"output"}
      /\ UNCHANGED <<role, text, pieces, value, next>>
  BY DEF WriteAsItIs, WriteQuote
<1>2. value.bytes \in Seq(Byte) /\ n \in Nat /\ n + 2 \in Nat
  BY DEF IInv, Typed, Values
<1>3. e \in Builders /\ Len(e.list) + (n + 2) <= e.capacity
  BY <1>2, Opens, EnsuredFits
<1>4. <<Quote>> \in Seq(Byte) /\ Len(<<Quote>>) = 1
  BY ByteIs DEF Quote
<1>5. Len(e.list) \in Nat /\ e.capacity \in Nat
  BY <1>3 DEF Builders, Positive
<1>6. heap' \ {"output"} = Own' /\ value'.kind # "none"
  BY <1>1 DEF IInv, Allocated, Own
<1>7. heap' \subseteq {"string", "builder", "output"}
  BY <1>1 DEF IInv, Typed
<1>8. CASE WriteAsItIs
  <2> DEFINE w == <<Quote>> \o value.bytes \o <<Quote>>
  <2>1. w \in Seq(Byte) /\ Len(w) = n + 2
    BY <1>2, <1>4
  <2>2. sb' = NoCheck(e, w) /\ pc' = "close"
    BY <1>8 DEF WriteAsItIs, Goto
  <2> HIDE DEF e, w, n
  <2>3. /\ NoCheck(e, w) \in Builders /\ NoCheck(e, w).capacity = e.capacity
        /\ Len(NoCheck(e, w).list) = Len(e.list) + Len(w)
    BY <1>3, <2>1, NoCheckAppends
  <2>4. sb' \in Builders /\ Fits(sb')
    BY <1>3, <2>1, <2>2, <2>3 DEF Fits
  <2>5. Typed'
    BY <1>1, <1>7, <2>2, <2>4 DEF IInv, Typed, Labels
  <2>6. Roomy' /\ Allocated'
    BY <1>6, <2>2, <2>4 DEF Roomy, Allocated
  <2> QED
    BY <2>5, <2>6 DEF IInv
<1>9. CASE WriteQuote
  <2> DEFINE w == <<Quote>>
  <2>1. sb' = NoCheck(e, w) /\ pc' = "write"
    BY <1>9 DEF WriteQuote, Goto
  <2>2. w \in Seq(Byte) /\ Len(w) = 1
    BY <1>4
  <2> HIDE DEF e, w, n
  <2>3. n + 2 \in Nat /\ Len(w) < n + 2
    BY <1>2, <2>2
  <2>4. sb' \in Builders /\ Fits(sb') /\ Len(sb'.list) + 1 <= sb'.capacity
    BY <1>3, <2>1, <2>2, <2>3, NoCheckFits
  <2>5. Typed'
    BY <1>1, <1>7, <2>1, <2>4 DEF IInv, Typed, Labels
  <2>6. Roomy'
    BY <2>4 DEF Roomy
  <2>7. Allocated'
    BY <1>6, <2>1 DEF Allocated
  <2> QED
    BY <2>5, <2>6, <2>7 DEF IInv
<1> QED
  BY <1>8, <1>9

\* A turn of the writer's loop has made room for eight bytes.
LEMMA RoomForEight ==
  ASSUME IInv
  PROVE  /\ Room(sb) \in Builders /\ Len(Room(sb).list) \in Nat
         /\ Room(sb).capacity \in Nat /\ Len(Room(sb).list) + 8 <= Room(sb).capacity
<1>1. sb \in Builders
  BY DEF IInv, Typed
<1>2. Ensured(sb, 8) \in Builders /\ Len(sb.list) + 8 <= Ensured(sb, 8).capacity
      /\ Ensured(sb, 8).list = sb.list
  BY <1>1, EnsuredFits
<1> QED
  BY <1>2 DEF Room, Builders, Positive

LEMMA StepWriteCharacter ==
  ASSUME IInv, WriteCharacter
  PROVE  IInv'
<1> DEFINE w == IF byte \in DOMAIN Letter THEN <<Backslash, Letter[byte]>> ELSE <<byte>>
           e == Room(sb)
<1>1. /\ pc = "write" /\ next <= Len(value.bytes) /\ next' = next + 1
      /\ sb' = NoCheck(e, w)
      /\ UNCHANGED <<pc, role, text, pieces, heap, value>>
  BY DEF WriteCharacter, Writing
<1>2. value.bytes \in Seq(Byte) /\ next \in 1 .. Len(value.bytes)
  BY <1>1 DEF IInv, Typed, Values
<1>3. byte \in Byte /\ Backslash \in Byte
  BY <1>2, ByteIs DEF byte, Backslash
<1>4. w \in Seq(Byte) /\ Len(w) \in 1 .. 2
  <2>1. CASE byte \in DOMAIN Letter
    <3>1. Letter[byte] \in Byte
      BY <2>1, LettersAreBytes
    <3> QED
      BY <1>3, <2>1, <3>1
  <2>2. CASE byte \notin DOMAIN Letter
    BY <1>3, <2>2
  <2> QED
    BY <2>1, <2>2
<1>5. /\ e \in Builders /\ Len(e.list) \in Nat /\ e.capacity \in Nat
      /\ Len(e.list) + 8 <= e.capacity
  BY RoomForEight
<1> HIDE DEF w, e
<1>6. Len(w) < 8 /\ 8 \in Nat
  <2>1. \A k \in 1 .. 2 : k < 8 /\ 8 \in Nat
    OBVIOUS
  <2> QED
    BY <1>4, <2>1
<1>7. sb' \in Builders /\ Len(sb'.list) + 1 <= sb'.capacity /\ Fits(sb')
  BY <1>1, <1>4, <1>5, <1>6, NoCheckFits
<1>8. Typed'
  BY <1>1, <1>2, <1>7 DEF IInv, Typed
<1>9. Roomy' /\ Allocated'
  BY <1>1, <1>7 DEF IInv, Roomy, Allocated, Own
<1> QED
  BY <1>8, <1>9 DEF IInv

LEMMA StepWriteSequence ==
  ASSUME IInv, WriteSequence
  PROVE  IInv'
<1> DEFINE again == Sequence = <<>> /\ IsSuffix(<<Backslash, U>> \o HexOf(0), sb.list)
           e == Room(sb)
           w == <<Backslash, U>>
           f == Ensured(NoCheck(e, w), 8)
           h == HexOf(Decoded)
<1>1. /\ pc = "write" /\ next <= Len(value.bytes) /\ next' = next + Len(Sequence)
      /\ UNCHANGED <<pc, role, text, pieces, heap, value>>
  BY DEF WriteSequence, Writing, Advanced
<1>2. sb' = IF again THEN sb ELSE NoCheck(f, h)
  BY DEF WriteSequence
<1>3. value.bytes \in Seq(Byte) /\ next \in 1 .. Len(value.bytes)
  BY <1>1 DEF IInv, Typed, Values
<1>4. next' \in 1 .. Len(value.bytes) + 1
  BY <1>1, <1>3, SequenceInBytes
<1>5. h \in Seq(Byte) /\ Len(h) \in 4 .. 6
  BY <1>3, DecodedIsNumber, HexOfInBytes
<1>6. e \in Builders
  BY RoomForEight
<1>7. w \in Seq(Byte)
  BY ByteIs DEF Backslash, U
<1> HIDE DEF e, w, h
<1>8. NoCheck(e, w) \in Builders
  BY <1>6, <1>7, NoCheckAppends
<1>9. f \in Builders /\ Len(f.list) \in Nat /\ f.capacity \in Nat
      /\ Len(f.list) + 8 <= f.capacity
  <2> DEFINE g == NoCheck(e, w)
  <2>1. g \in Builders
    BY <1>8
  <2> HIDE DEF g
  <2>2. Ensured(g, 8) \in Builders /\ Len(g.list) + 8 <= Ensured(g, 8).capacity
        /\ Ensured(g, 8).list = g.list
    BY <2>1, EnsuredFits
  <2>3. Len(g.list) \in Nat /\ Ensured(g, 8).capacity \in Nat
    BY <2>1, <2>2 DEF Builders, Positive
  <2> QED
    BY <2>2, <2>3 DEF g
<1> HIDE DEF f
<1>10. Len(h) < 8 /\ 8 \in Nat
  <2>1. \A k \in 4 .. 6 : k < 8 /\ 8 \in Nat
    OBVIOUS
  <2> QED
    BY <1>5, <2>1
<1>11. sb' \in Builders /\ Len(sb'.list) + 1 <= sb'.capacity /\ Fits(sb')
  <2>1. CASE again
    BY <1>1, <1>2, <2>1 DEF IInv, Typed, Roomy
  <2>2. CASE ~again
    BY <1>2, <1>5, <1>9, <1>10, <2>2, NoCheckFits
  <2> QED
    BY <2>1, <2>2
<1>12. Typed'
  BY <1>1, <1>4, <1>11 DEF IInv, Typed
<1>13. Roomy' /\ Allocated'
  BY <1>1, <1>11 DEF IInv, Roomy, Allocated, Own
<1> QED
  BY <1>12, <1>13 DEF IInv

LEMMA StepWriteEnd ==
  ASSUME IInv, WriteFault \/ WriteEnd
  PROVE  IInv'
<1>1. CASE WriteFault
  <2>1. /\ pc' = "fault" /\ UNCHANGED <<role, text, pieces, sb, heap, value, next>>
    BY <1>1 DEF WriteFault, Goto
  <2>2. Typed'
    BY <2>1 DEF IInv, Typed, Labels
  <2>3. Roomy' /\ Allocated'
    BY <2>1 DEF IInv, Roomy, Allocated
  <2> QED
    BY <2>2, <2>3 DEF IInv
<1>2. CASE WriteEnd
  <2> DEFINE w == <<Quote>>
  <2>1. /\ pc = "write" /\ pc' = "close" /\ sb' = NoCheck(sb, w)
        /\ UNCHANGED <<role, text, pieces, heap, value, next>>
    BY <1>2 DEF WriteEnd, Goto
  <2>2. w \in Seq(Byte) /\ Len(w) = 1
    BY ByteIs DEF Quote
  <2> HIDE DEF w
  <2>3. sb \in Builders /\ Len(sb.list) + 1 <= sb.capacity
    BY <2>1 DEF IInv, Typed, Roomy
  <2>4. sb' \in Builders /\ Fits(sb')
    <3>1. /\ NoCheck(sb, w) \in Builders /\ NoCheck(sb, w).capacity = sb.capacity
          /\ Len(NoCheck(sb, w).list) = Len(sb.list) + Len(w)
      BY <2>2, <2>3, NoCheckAppends
    <3> QED
      BY <2>1, <2>2, <2>3, <3>1 DEF Fits
  <2>5. Typed'
    BY <2>1, <2>4 DEF IInv, Typed, Labels
  <2>6. Roomy' /\ Allocated'
    BY <2>1, <2>4 DEF IInv, Roomy, Allocated, Own
  <2> QED
    BY <2>5, <2>6 DEF IInv
<1> QED
  BY <1>1, <1>2

LEMMA StepClose ==
  ASSUME IInv, Close \/ Free
  PROVE  IInv'
<1>1. CASE Close
  <2>1. \A x \in {0, 58, 93, 108, 110, 117, 123, 125} : x \in Byte
    BY ByteIs
  <2> DEFINE a == Add(sb, 58)
             b == AddString(a, <<110, U, 108, 108>>)
             d == IF role = "key" THEN b ELSE sb
             x == IF role = "key" THEN 125 ELSE 93
  <2>2. sb \in Builders /\ Fits(sb)
    BY DEF IInv, Typed, Roomy
  <2>3. a \in Builders /\ Fits(a)
    BY <2>1, <2>2, AddFits
  <2>4. <<110, U, 108, 108>> \in Seq(Byte)
    BY <2>1 DEF U
  <2>5. b \in Builders /\ Fits(b)
    BY <2>3, <2>4, AddStringFits
  <2>6. d \in Builders /\ Fits(d) /\ x \in Byte /\ 0 \in Byte
    BY <2>1, <2>2, <2>5
  <2>7. sb' = Add(Add(d, x), 0)
    BY <1>1 DEF Close
  <2> HIDE DEF a, b, d, x
  <2>8. Add(d, x) \in Builders /\ Fits(Add(d, x))
    BY <2>6, AddFits
  <2>9. sb' \in Builders /\ Fits(sb')
    BY <2>6, <2>7, <2>8, AddFits
  <2>10. /\ pc = "close" /\ pc' = "written"
         /\ UNCHANGED <<role, text, pieces, heap, value, next>>
    BY <1>1 DEF Close, Goto
  <2>11. Typed'
    BY <2>9, <2>10 DEF IInv, Typed, Labels
  <2>12. Roomy' /\ Allocated'
    BY <2>9, <2>10 DEF IInv, Roomy, Allocated, Own
  <2> QED
    BY <2>11, <2>12 DEF IInv
<1>2. CASE Free
  <2>1. /\ pc = "written" /\ pc' = "freed"
        /\ UNCHANGED <<role, text, pieces, sb, value, next>>
        /\ heap' = IF Len(value.bytes) > InlineSize
                     THEN heap \ {"output", "string", "builder"} ELSE heap \ {"output"}
    BY <1>2 DEF Free, Goto
  <2>2. heap \subseteq {"string", "builder", "output"} /\ value \in Values
        /\ value.kind # "none" /\ heap \ {"output"} = Own
    BY <2>1 DEF IInv, Typed, Allocated
  <2>3. Len(value.bytes) \in Nat /\ InlineSize \in Nat
    BY <2>2, StringsAssumption DEF Values
  <2>4. heap' = {} \/ (value.kind = "UString" /\ Len(value.bytes) = InlineSize)
    BY <2>1, <2>2, <2>3 DEF Own, Values
  <2>5. Typed'
    BY <2>1 DEF IInv, Typed, Labels
  <2>6. Roomy' /\ Allocated'
    BY <2>1, <2>4 DEF IInv, Roomy, Allocated
  <2> QED
    BY <2>5, <2>6 DEF IInv
<1> QED
  BY <1>1, <1>2

LEMMA StepIInv == IInv /\ [Next]_vars => IInv'
<1> SUFFICES ASSUME IInv, [Next]_vars
             PROVE  IInv'
  OBVIOUS
<1>1. CASE Parse
  BY <1>1, StepUnescaped, StepNew, StepEscape, StepLoop DEF Parse
<1>2. CASE Make
  BY <1>2, StepNew
<1>3. CASE Write
  BY <1>3, StepWriteOpen, StepWriteCharacter, StepWriteSequence, StepWriteEnd, StepClose
     DEF Write
<1>4. CASE Free
  BY <1>4, StepClose
<1>5. CASE UNCHANGED vars
  <2>1. Typed' /\ Roomy'
    BY <1>5 DEF vars, IInv, Typed, Roomy
  <2>2. Allocated'
    BY <1>5 DEF vars, IInv, Allocated, Own
  <2> QED
    BY <2>1, <2>2 DEF IInv
<1> QED
  BY <1>1, <1>2, <1>3, <1>4, <1>5 DEF Next, Done

LEMMA AlwaysIInv == Spec => []IInv
  BY InitIInv, StepIInv, PTL DEF Spec
-----------------------------------------------------------------------------
\* What strings and buffers hold are bytes, and the writer looks at no byte behind
\* the string.
THEOREM Typing == Spec => []TypeOK
<1>1. IInv => TypeOK
  BY DEF IInv, Typed, TypeOK, Labels, Builders, Values, Positive, Byte
<1> QED
  BY <1>1, AlwaysIInv, PTL

\* Whatever the string, ARRAY_ensureSize and ARRAY_add have made room for every
\* byte that the writers add, those that are added without a check included.
THEOREM RoomIsMade == Spec => []WithinCapacity
<1>1. IInv => WithinCapacity
  BY DEF IInv, Roomy, Fits, WithinCapacity
<1> QED
  BY <1>1, AlwaysIInv, PTL

\* Whatever the string and its length, parsing and freeing it leaves no buffer
\* allocated but in the three cases that BuffersReleased names.
THEOREM BuffersAreReleased == Spec => []BuffersReleased
<1>1. ASSUME IInv
      PROVE  BuffersReleased
  <2>1. pc = "error" /\ heap # {} =>
          Backslash \notin ToSet(text) \/ IsSuffix(<<Backslash, U>>, text)
    BY <1>1, NoBackslashMeans, HexlessMeans DEF IInv, Typed, Allocated
  <2>2. Len(value.bytes) \in Nat /\ value.kind \in {"none", "String", "UString"}
        /\ InlineSize \in Nat
    BY <1>1, StringsAssumption DEF IInv, Typed, Values
  <2>3. pc = "made" /\ Len(value.bytes) > InlineSize => heap # {}
    <3> SUFFICES ASSUME pc = "made", Len(value.bytes) > InlineSize
                 PROVE  heap # {}
      OBVIOUS
    <3>1. value.kind # "none" /\ heap \ {"output"} = Own
      BY <1>1 DEF IInv, Allocated
    <3>2. Own # {}
      BY <2>2, <3>1 DEF Own
    <3> QED
      BY <3>1, <3>2
  <2>4. pc = "freed" /\ heap # {} => value.kind = "UString" /\ Len(value.bytes) = InlineSize
    BY <1>1 DEF IInv, Allocated
  <2> QED
    BY <2>1, <2>3, <2>4 DEF BuffersReleased
<1> QED
  BY <1>1, AlwaysIInv, PTL
=============================================================================
