---------------------------- MODULE Parser_proofs ----------------------------
(***************************************************************************)
(* Theorems about Parser: its types, how the values of the containers      *)
(* being parsed lie on its stack, and which texts it accepts.              *)
(***************************************************************************)
EXTENDS AcceptedTexts, Recursion, SequenceTheorems, TLAPS

Characters == Symbols \cup {NUL}

Frames == [kind : {"array", "object"}, top : Nat]

\* The stack is a sequence, of whatever values.
StackOK == stack \in Seq(ToSet(stack))
-----------------------------------------------------------------------------
\* Sequences: a sequence is one over its own elements; what adding an element or
\* cutting it off does to the length.
LEMMA OwnElements ==
  ASSUME NEW S, NEW s \in Seq(S)
  PROVE  s \in Seq(ToSet(s))
<1>1. Len(s) \in Nat /\ DOMAIN s = 1 .. Len(s)
  OBVIOUS
<1>2. \A i \in 1 .. Len(s) : s[i] \in ToSet(s)
  BY <1>1 DEF ToSet
<1>3. s \in [1 .. Len(s) -> ToSet(s)]
  BY <1>1, <1>2
<1> QED
  BY <1>1, <1>3, SeqDef

LEMMA Appended ==
  ASSUME NEW S, NEW s \in Seq(S), NEW x
  PROVE  Append(s, x) \in Seq(ToSet(Append(s, x))) /\ Len(Append(s, x)) = Len(s) + 1
<1>1. s \in Seq(S \cup {x})
  BY SeqMonotonic
<1>2. Append(s, x) \in Seq(S \cup {x}) /\ Len(Append(s, x)) = Len(s) + 1
  BY <1>1, AppendProperties
<1> QED
  BY <1>2, OwnElements

LEMMA Cut ==
  ASSUME NEW S, NEW s \in Seq(S), NEW k \in 0 .. Len(s)
  PROVE  /\ SubSeq(s, 1, k) \in Seq(ToSet(SubSeq(s, 1, k)))
         /\ SubSeq(s, 1, k) \in Seq(S)
         /\ Len(SubSeq(s, 1, k)) = k
         /\ \A i \in 1 .. k : SubSeq(s, 1, k)[i] = s[i]
<1>1. \A i \in 1 .. k : s[i] \in S
  BY ElementOfSeq
<1>2. /\ SubSeq(s, 1, k) \in Seq(S)
      /\ Len(SubSeq(s, 1, k)) = k
      /\ \A i \in 1 .. k : SubSeq(s, 1, k)[i] = s[i]
  BY <1>1, SubSeqProperties
<1> QED
  BY <1>2, OwnElements
-----------------------------------------------------------------------------
\* What a step that reads, returns or goes on does to the types.
IsLabel(l) == l \in Labels \cup {"skip"} \cup Outcomes

LEMMA LookType ==
  ASSUME TypeOK, NEW ch \in Characters, Look(ch)
  PROVE  text' \in Seq(Characters) /\ (pos + 1 <= Len(text') /\ pos \in 0 .. Len(text'))
<1>1. text \in Seq(Characters) /\ pos \in 0 .. Len(text) /\ Len(text) \in Nat
  BY DEF TypeOK, Characters
<1>2. CASE pos < Len(text)
  BY <1>1, <1>2 DEF Look
<1>3. CASE ~ pos < Len(text)
  <2>1. text' = Append(text, ch)
    BY <1>3 DEF Look
  <2> QED
    BY <1>1, <1>3, <2>1
<1> QED
  BY <1>2, <1>3

LEMMA RunOutType ==
  ASSUME TypeOK, RunOut
  PROVE  text' \in Seq(Characters) /\ pos' \in 0 .. Len(text')
<1>1. text \in Seq(Characters) /\ pos \in 0 .. Len(text) /\ Len(text) \in Nat
  BY DEF TypeOK, Characters
<1> QED
  BY <1>1 DEF RunOut, Characters

\* The types of text, pos and c, which containers have no part in.
TextOK == /\ text \in Seq(Characters)
          /\ pos \in 0 .. Len(text)
          /\ c \in Characters

\* Those of pc and then.
ControlOK == IsLabel(pc) /\ then \in Labels

LEMMA TextNext ==
  ASSUME TypeOK, [Next]_vars
  PROVE  TextOK'
<1>1. TextOK
  BY DEF TypeOK, TextOK, Characters
<1>2. CASE UNCHANGED <<text, pos, c>>
  BY <1>1, <1>2 DEF TextOK
<1>3. ASSUME NEW ch \in Characters, Read(ch), c' = ch
      PROVE  TextOK'
  BY <1>3, LookType DEF Read, TextOK, TypeOK
<1>4. ASSUME RunOut, UNCHANGED c
      PROVE  TextOK'
  BY <1>1, <1>4, RunOutType DEF TextOK
<1>5. CASE ParseNumber
  <2>1. PICK ch \in Characters : Look(ch) /\ (pos' = pos + 1 \/ pos' = pos)
    BY <1>5 DEF ParseNumber, Characters
  <2>2. UNCHANGED c
    BY <1>5 DEF ParseNumber
  <2> QED
    BY <1>1, <2>1, <2>2, LookType DEF TextOK
<1>6. CASE Skip \/ ObjectComma
  BY <1>3, <1>6 DEF Skip, ObjectComma, Characters
<1>7. CASE ParseUnclosed \/ ObjectKey
  BY <1>2, <1>4, <1>7 DEF ParseUnclosed, ObjectKey
<1> QED
  BY <1>2, <1>5, <1>6, <1>7
  DEF Next, Parse, Done, vars, Overrun, TopEmpty, TopValue, ParseArray, ParseObject,
      ParseWord, StringThrow, ParseNOP, ArrayEmpty, ArrayElement, ArrayNext, ObjectEnd,
      ObjectColon, ObjectNext, ReturnToFrame, ReturnToTop, Rest, Finish

LEMMA ControlNext ==
  ASSUME TypeOK, [Next]_vars
  PROVE  ControlOK'
<1>1. IsLabel(pc) /\ then \in Labels
  BY DEF TypeOK, IsLabel
<1>2. ASSUME UNCHANGED <<pc, then>> PROVE ControlOK'
  BY <1>1, <1>2 DEF ControlOK, IsLabel
<1>3. ASSUME NEW l, IsLabel(l), Goto(l) PROVE ControlOK'
  BY <1>1, <1>3 DEF Goto, ControlOK, IsLabel
<1>4. ASSUME NEW l \in Labels, SkipTo(l) PROVE ControlOK'
  BY <1>4 DEF SkipTo, ControlOK, IsLabel
<1>5. \A l \in Labels : IsLabel(l)
  BY DEF IsLabel
<1>6. IsLabel("overrun") /\ IsLabel("accepted") /\ IsLabel("rejected")
  BY DEF IsLabel, Outcomes
<1>7. \/ UNCHANGED <<pc, then>>
      \/ \E l \in Labels \cup Outcomes : Goto(l)
      \/ \E l \in Labels : SkipTo(l)
  BY <1>1
  DEF Next, Parse, Done, vars, Skip, Overrun, TopEmpty, TopValue, ParseArray, ParseObject,
      ParseWord, ParseNumber, StringThrow, ParseUnclosed, ParseNOP, ArrayEmpty,
      ArrayElement, ArrayNext, ObjectEnd, ObjectKey, ObjectColon, ObjectNext, ObjectComma,
      ReturnToFrame, ReturnToTop, Rest, Finish, Throw, Return, Close, CloseArray,
      CloseObject, Labels, Outcomes
<1> QED
  BY <1>2, <1>3, <1>4, <1>5, <1>6, <1>7 DEF Outcomes
-----------------------------------------------------------------------------
(***************************************************************************)
(* The frames and the stack.  OnStack(fs, h, odd) is what StackDiscipline  *)
(* says of the frames fs and a stack of h values, where odd is 0 or 1, the *)
(* parity of the part of an object that is the innermost frame.            *)
(***************************************************************************)
Above(fs, h, n) == IF n = Len(fs) THEN h ELSE fs[n + 1].top

OnStack(fs, h, odd) ==
  \A n \in 1 .. Len(fs) :
    /\ fs[n].top <= Above(fs, h, n)
    /\ fs[n].kind = "object" =>
         (Above(fs, h, n) - fs[n].top) % 2 = IF n < Len(fs) THEN 1 ELSE odd

\* A container begins where its caller's part of the stack ends.
LEMMA PushFrame ==
  ASSUME NEW fs \in Seq(Frames), NEW h \in Nat, NEW k \in {"array", "object"},
         OnStack(fs, h, 1)
  PROVE  LET new == Append(fs, [kind |-> k, top |-> h])
         IN  /\ new \in Seq(Frames) /\ new # <<>>
             /\ OnStack(new, h, 0)
             /\ Last(new) = [kind |-> k, top |-> h]
             /\ new[1].top = IF fs = <<>> THEN h ELSE fs[1].top
<1> DEFINE f == [kind |-> k, top |-> h]
           new == Append(fs, f)
<1>1. f \in Frames /\ f.kind = k /\ f.top = h
  BY DEF Frames
<1> HIDE DEF f
<1>2. /\ new \in Seq(Frames) /\ new # <<>> /\ Len(new) = Len(fs) + 1 /\ Len(fs) \in Nat
      /\ \A n \in 1 .. Len(fs) : new[n] = fs[n]
      /\ new[Len(fs) + 1] = f
  BY <1>1, AppendProperties
<1> HIDE DEF new
<1>3. \A n \in 1 .. Len(fs) : Above(new, h, n) = Above(fs, h, n) /\ n < Len(new)
  BY <1>1, <1>2 DEF Above
<1>4. OnStack(new, h, 0)
  <2> SUFFICES ASSUME NEW n \in 1 .. Len(new)
               PROVE  /\ new[n].top <= Above(new, h, n)
                      /\ new[n].kind = "object" =>
                           (Above(new, h, n) - new[n].top) % 2 = IF n < Len(new) THEN 1 ELSE 0
    BY DEF OnStack
  <2>1. CASE n \in 1 .. Len(fs)
    BY <1>2, <1>3, <2>1 DEF OnStack
  <2>2. CASE n = Len(fs) + 1
    <3>1. Above(new, h, n) = h /\ new[n].top = h
      BY <1>1, <1>2, <2>2 DEF Above
    <3>2. h <= h /\ (h - h) % 2 = 0 /\ ~ n < Len(new)
      BY <1>2, <2>2
    <3> QED
      BY <3>1, <3>2
  <2> QED
    BY <1>2, <2>1, <2>2
<1>5. new[1].top = IF fs = <<>> THEN h ELSE fs[1].top
  BY <1>1, <1>2
<1> QED
  BY <1>1, <1>2, <1>4, <1>5 DEF Last, new, f

\* A container that is closed leaves what its caller had.
LEMMA PopFrame ==
  ASSUME NEW fs \in Seq(Frames), fs # <<>>, NEW h \in Nat, NEW odd, OnStack(fs, h, odd)
  PROVE  /\ Front(fs) \in Seq(Frames)
         /\ Last(fs).top \in 0 .. h
         /\ OnStack(Front(fs), Last(fs).top, 1)
         /\ Front(fs) = <<>> => Len(fs) = 1
         /\ Front(fs) # <<>> => Front(fs)[1] = fs[1]
<1> DEFINE new == Front(fs)
<1>1. Len(fs) \in Nat /\ Len(fs) >= 1
  BY EmptySeq
<1>2. /\ new \in Seq(Frames) /\ Len(new) = Len(fs) - 1
      /\ \A n \in 1 .. Len(fs) - 1 : new[n] = fs[n]
  <2>1. Len(fs) - 1 \in 0 .. Len(fs) /\ new = SubSeq(fs, 1, Len(fs) - 1)
    BY <1>1 DEF Front
  <2> HIDE DEF new
  <2> QED
    BY <2>1, Cut
<1>3. \A n \in 1 .. Len(fs) : fs[n] \in Frames
  BY <1>1
<1>4. Last(fs).top \in 0 .. h
  <2>1. Last(fs) \in Frames /\ Last(fs).top <= Above(fs, h, Len(fs))
    BY <1>1, <1>3 DEF Last, OnStack
  <2> QED
    BY <2>1 DEF Above, Frames
<1> HIDE DEF new
<1>5. \A n \in 1 .. Len(new) : Above(new, Last(fs).top, n) = Above(fs, h, n) /\ n < Len(fs)
  <2> TAKE n \in 1 .. Len(new)
  <2>1. CASE n = Len(new)
    BY <1>1, <1>2, <2>1 DEF Above, Last
  <2>2. CASE n < Len(new)
    BY <1>1, <1>2, <2>2 DEF Above
  <2> QED
    BY <1>1, <1>2, <2>1, <2>2
<1>6. OnStack(new, Last(fs).top, 1)
  BY <1>1, <1>2, <1>5 DEF OnStack
<1>7. new = <<>> => Len(fs) = 1
  BY <1>1, <1>2
<1>8. new # <<>> => new[1] = fs[1]
  <2>1. new # <<>> => Len(new) >= 1
    BY <1>2, EmptySeq
  <2> QED
    BY <1>1, <1>2, <2>1
<1> QED
  BY <1>2, <1>4, <1>6, <1>7, <1>8 DEF new

\* A value more on the stack changes the parity.
LEMMA PushValue ==
  ASSUME NEW fs \in Seq(Frames), NEW h \in Nat, NEW odd \in {0, 1}, OnStack(fs, h, odd)
  PROVE  OnStack(fs, h + 1, 1 - odd)
<1>1. \A a, b \in Nat : a <= b =>
        a <= b + 1 /\ \A r \in {0, 1} : (b - a) % 2 = r => (b + 1 - a) % 2 = 1 - r
  OBVIOUS
<1> SUFFICES ASSUME NEW n \in 1 .. Len(fs)
             PROVE  /\ fs[n].top <= Above(fs, h + 1, n)
                    /\ fs[n].kind = "object" =>
                         (Above(fs, h + 1, n) - fs[n].top) % 2
                           = IF n < Len(fs) THEN 1 ELSE 1 - odd
  BY DEF OnStack
<1>2. fs[n].top \in Nat
  <2>1. fs[n] \in Frames
    BY ElementOfSeq
  <2> QED
    BY <2>1 DEF Frames
<1>3. CASE n < Len(fs)
  BY <1>3 DEF OnStack, Above
<1>4. CASE n = Len(fs)
  <2>1. fs[n].top <= h /\ (fs[n].kind = "object" => (h - fs[n].top) % 2 = odd)
    BY <1>4 DEF OnStack, Above
  <2>2. Above(fs, h + 1, n) = h + 1 /\ ~ n < Len(fs)
    BY <1>4 DEF Above
  <2> QED
    BY <1>1, <1>2, <2>1, <2>2, SMTT(30)
<1> QED
  BY <1>3, <1>4

\* The parity is that of objects only.
LEMMA NoParity ==
  ASSUME NEW fs \in Seq(Frames), NEW h \in Nat, NEW odd, NEW other, OnStack(fs, h, odd),
         fs = <<>> \/ Last(fs).kind = "array"
  PROVE  OnStack(fs, h, other)
  BY DEF OnStack, Last
-----------------------------------------------------------------------------
OddPlaces == {"colon", "value", "number", "return"}

Parity == IF At \in OddPlaces THEN 1 ELSE 0

\* Which places of the parser have a frame, and of which kind; the stack begins
\* with the outermost one.
Places ==
  /\ At \in {"first", "element"} => frames # <<>> /\ Top.kind = "array"
  /\ At \in {"key", "colon", "comma"} => frames # <<>> /\ Top.kind = "object"
  /\ At = "next" => frames # <<>>
  /\ At \in {"top", "rest", "finish"} => frames = <<>>
  /\ At = "first" => Len(stack) = Top.top
  /\ frames # <<>> => frames[1].top = 0

\* The inductive invariant.
IInv == TypeOK /\ StackOK /\ Places /\ StackDiscipline

\* StackDiscipline in these terms.
LEMMA Discipline ==
  ASSUME frames \in Seq(Frames)
  PROVE  StackDiscipline <=> /\ OnStack(frames, Len(stack), Parity)
                             /\ frames = <<>> => stack = <<>>
<1>1. DOMAIN frames = 1 .. Len(frames)
  OBVIOUS
<1> QED
  BY <1>1 DEF StackDiscipline, OnStack, Above, OddPlaces, Parity

LEMMA DisciplineAfter ==
  ASSUME frames' \in Seq(Frames),
         OnStack(frames', Len(stack'), Parity'), frames' = <<>> => stack' = <<>>
  PROVE  StackDiscipline'
<1>1. DOMAIN frames' = 1 .. Len(frames')
  OBVIOUS
<1> QED
  BY <1>1 DEF StackDiscipline, OnStack, Above, OddPlaces, Parity

LEMMA InitInv == Init => IInv
<1> SUFFICES ASSUME Init PROVE IInv
  OBVIOUS
<1>1. text = <<>> /\ pos = 0 /\ frames = <<>> /\ stack = <<>> /\ c \in Characters
      /\ pc = "skip" /\ then = "top"
  BY DEF Init, Characters
<1>2. TypeOK /\ StackOK
  BY <1>1, EmptySeq DEF TypeOK, StackOK, Characters, Labels
<1>3. Places /\ StackDiscipline
  BY <1>1 DEF Places, StackDiscipline, At
<1> QED
  BY <1>2, <1>3 DEF IInv

\* What is left to show of each step: the frames, the stack and the place.
FramesOK == frames \in Seq(Frames) /\ StackOK /\ Places /\ StackDiscipline

\* Where At is after a step that goes on.
LEMMA GotoAt == ASSUME NEW l, l \notin {"skip", "overrun"}, Goto(l) PROVE At' = l
  BY DEF Goto, At

LEMMA SkipToAt == ASSUME NEW l, SkipTo(l) PROVE At' = l
  BY DEF SkipTo, At

LEMMA Unframed ==
  ASSUME FramesOK, UNCHANGED <<frames, stack>>,
         Parity' = Parity \/ frames = <<>> \/ Top.kind = "array",
         Places'
  PROVE  FramesOK'
<1>1. frames \in Seq(Frames) /\ frames' \in Seq(Frames) /\ StackOK'
  BY DEF FramesOK, StackOK
<1>2. Len(stack) \in Nat
  BY DEF FramesOK, StackOK
<1>3. OnStack(frames, Len(stack), Parity) /\ (frames = <<>> => stack = <<>>)
  BY <1>1, Discipline DEF FramesOK
<1>4. OnStack(frames, Len(stack), Parity')
  <2>1. CASE Parity' = Parity
    BY <1>3, <2>1
  <2>2. CASE frames = <<>> \/ Top.kind = "array"
    BY <1>1, <1>2, <1>3, <2>2, NoParity DEF Top
  <2> QED
    BY <2>1, <2>2
<1>5. StackDiscipline'
  BY <1>1, <1>3, <1>4, DisciplineAfter
<1> QED
  BY <1>1, <1>5 DEF FramesOK

LEMMA Thrown == ASSUME Throw PROVE FramesOK'
<1>1. frames' = <<>> /\ stack' = <<>> /\ At' = "rejected"
  BY DEF Throw, Goto, At
<1>2. frames' \in Seq(Frames) /\ StackOK' /\ Len(frames') = 0
  BY <1>1, EmptySeq DEF StackOK
<1>3. StackDiscipline'
  BY <1>1, <1>2, DisciplineAfter DEF OnStack
<1> QED
  BY <1>1, <1>2, <1>3 DEF FramesOK, Places

\* parseArray and parseObject are called for a value.
LEMMA Called ==
  ASSUME FramesOK, At = "value", UNCHANGED stack,
         NEW k \in {"array", "object"}, NEW l,
         l = IF k = "array" THEN "first" ELSE "key",
         frames' = Append(frames, [kind |-> k, top |-> Len(stack)]), SkipTo(l)
  PROVE  FramesOK'
<1>1. /\ frames \in Seq(Frames) /\ Len(stack) \in Nat
      /\ OnStack(frames, Len(stack), 1) /\ (frames = <<>> => stack = <<>>)
  BY Discipline DEF FramesOK, StackOK, OddPlaces, Parity
<1>2. /\ frames' \in Seq(Frames) /\ frames' # <<>>
      /\ OnStack(frames', Len(stack), 0)
      /\ Last(frames') = [kind |-> k, top |-> Len(stack)]
      /\ frames'[1].top = IF frames = <<>> THEN Len(stack) ELSE frames[1].top
  BY <1>1, PushFrame
<1>3. At' = l /\ Parity' = 0
  BY SkipToAt DEF OddPlaces, Parity
<1>4. StackDiscipline'
  BY <1>2, <1>3, DisciplineAfter
<1>5. frames'[1].top = 0
  BY <1>1, <1>2 DEF FramesOK, Places
<1> QED
  BY <1>2, <1>3, <1>4, <1>5 DEF FramesOK, Places, StackOK, Top

\* They return, and leave what their caller had on the stack.
LEMMA Returned ==
  ASSUME FramesOK, frames # <<>>, frames' = Front(frames),
         stack' = SubSeq(stack, 1, Top.top), At' = "return"
  PROVE  FramesOK'
<1>1. /\ frames \in Seq(Frames) /\ Len(stack) \in Nat /\ stack \in Seq(ToSet(stack))
      /\ OnStack(frames, Len(stack), Parity)
  BY Discipline DEF FramesOK, StackOK
<1>2. /\ frames' \in Seq(Frames)
      /\ Top.top \in 0 .. Len(stack)
      /\ OnStack(frames', Top.top, 1)
      /\ frames' = <<>> => Len(frames) = 1
      /\ frames' # <<>> => frames'[1] = frames[1]
  BY <1>1, PopFrame DEF Top
<1>3. StackOK' /\ Len(stack') = Top.top
  BY <1>1, <1>2, Cut DEF StackOK
<1>4. frames' = <<>> => stack' = <<>>
  <2>1. frames' = <<>> => Top.top = 0
    BY <1>2 DEF FramesOK, Places, Top, Last
  <2> QED
    BY <1>3, <2>1, EmptySeq DEF StackOK
<1>5. StackDiscipline'
  BY <1>2, <1>3, <1>4, DisciplineAfter DEF OddPlaces, Parity
<1> QED
  BY <1>2, <1>3, <1>5 DEF FramesOK, Places

\* A key or a value goes on the stack.
LEMMA Pushed ==
  ASSUME FramesOK, frames # <<>>, UNCHANGED frames, NEW v, stack' = Append(stack, v),
         Top.kind = "object" => Parity' = 1 - Parity,
         At' \in {"colon", "next"}, At' = "colon" => Top.kind = "object"
  PROVE  FramesOK'
<1>1. /\ frames \in Seq(Frames) /\ Len(stack) \in Nat /\ stack \in Seq(ToSet(stack))
      /\ OnStack(frames, Len(stack), Parity)
  BY Discipline DEF FramesOK, StackOK
<1>2. StackOK' /\ Len(stack') = Len(stack) + 1
  BY <1>1, Appended DEF StackOK
<1>3. OnStack(frames, Len(stack) + 1, 1 - Parity)
  BY <1>1, PushValue DEF Parity
<1>4. OnStack(frames, Len(stack) + 1, Parity')
  <2>1. CASE Top.kind = "object"
    BY <1>3, <2>1
  <2>2. CASE Top.kind # "object"
    <3>1. Top \in Frames
      BY <1>1, EmptySeq DEF Top, Last
    <3>2. Top.kind = "array" /\ Len(stack) + 1 \in Nat
      BY <1>1, <2>2, <3>1 DEF Frames
    <3> QED
      BY <1>1, <1>3, <3>2, NoParity DEF Top
  <2> QED
    BY <2>1, <2>2
<1>5. StackDiscipline'
  BY <1>1, <1>2, <1>4, DisciplineAfter
<1> QED
  BY <1>1, <1>2, <1>5 DEF FramesOK, Places, Top

\* Where the places are that a step goes on from and to.
LEMMA FramesNext ==
  ASSUME IInv, [Next]_vars
  PROVE  FramesOK'
<1>1. FramesOK
  BY DEF IInv, FramesOK, TypeOK, Frames
<1> USE DEF Places, Parity, OddPlaces
<1>2. ASSUME UNCHANGED <<frames, stack, pc, then>>
      PROVE  FramesOK'
  <2>1. At' = At
    BY <1>2 DEF At
  <2> QED
    BY <1>1, <1>2, <2>1, Unframed DEF FramesOK, Top
<1>3. CASE Skip
  <2>1. UNCHANGED <<frames, stack>>
    BY <1>3 DEF Skip
  <2>2. At' = At
    BY <1>3, GotoAt DEF Skip, At, Goto
  <2> QED
    BY <1>1, <2>1, <2>2, Unframed DEF FramesOK, Top
<1>4. CASE Overrun
  BY <1>1, <1>4, Unframed DEF Overrun, Goto, At, FramesOK, Top
<1>5. CASE TopEmpty
  <2>1. CASE Throw
    BY <2>1, Thrown
  <2>2. CASE Goto("accepted") /\ UNCHANGED <<frames, stack>>
    <3>1. At = "top" /\ At' = "accepted"
      BY <1>5, <2>2, GotoAt DEF TopEmpty, At
    <3> QED
      BY <1>1, <2>2, <3>1, Unframed DEF FramesOK, Top
  <2> QED
    BY <1>5, <2>1, <2>2 DEF TopEmpty
<1>6. CASE TopValue
  <2>1. At = "top" /\ At' = "value" /\ UNCHANGED <<frames, stack>>
    BY <1>6, GotoAt DEF TopValue, At
  <2> QED
    BY <1>1, <2>1, Unframed DEF FramesOK, Top
<1>7. CASE ParseArray
  <2>1. At = "value"
    BY <1>7 DEF ParseArray, At
  <2> QED
    BY <1>1, <1>7, <2>1, Called DEF ParseArray
<1>8. CASE ParseObject
  <2>1. At = "value"
    BY <1>8 DEF ParseObject, At
  <2> QED
    BY <1>1, <1>8, <2>1, Called DEF ParseObject
<1>9. CASE ParseWord \/ ParseNumber \/ ParseUnclosed
  <2>1. UNCHANGED <<frames, stack>> /\ At \in {"value", "number"}
    BY <1>9 DEF ParseWord, ParseNumber, ParseUnclosed, At
  <2>2. At' \in {"number", "return"}
    BY <1>9, GotoAt DEF ParseWord, ParseNumber, ParseUnclosed, Return
  <2> QED
    BY <1>1, <2>1, <2>2, Unframed DEF FramesOK, Top
<1>10. CASE StringThrow \/ ParseNOP
  BY <1>10, Thrown DEF StringThrow, ParseNOP
<1>11. CASE ArrayEmpty
  <2>1. At = "first" /\ At' = "return" /\ frames' = Front(frames) /\ UNCHANGED stack
    BY <1>11, GotoAt DEF ArrayEmpty, Return, At
  <2>2. stack = SubSeq(stack, 1, Top.top)
    BY <1>1, <2>1, SubSeqFull DEF FramesOK, StackOK
  <2> QED
    BY <1>1, <2>1, <2>2, Returned DEF FramesOK
<1>12. ASSUME NEW v, Close(v), frames # <<>>
       PROVE  FramesOK'
  <2>1. At' = "return"
    BY <1>12, GotoAt DEF Close, Return
  <2> QED
    BY <1>1, <1>12, <2>1, Returned DEF Close
<1>13. CASE ArrayElement
  <2>1. At \in {"first", "element"}
    BY <1>13 DEF ArrayElement, At
  <2>2. CASE CloseArray
    BY <1>1, <1>12, <2>1, <2>2 DEF CloseArray, FramesOK
  <2>3. CASE Goto("value") /\ UNCHANGED <<frames, stack, val>>
    <3>1. At' = "value"
      BY <2>3, GotoAt
    <3> QED
      BY <1>1, <2>1, <2>3, <3>1, Unframed DEF FramesOK, Top
  <2> QED
    BY <1>13, <2>2, <2>3 DEF ArrayElement
<1>14. CASE ArrayNext
  <2>1. At = "next" /\ Top.kind = "array" /\ frames # <<>>
    BY <1>1, <1>14 DEF ArrayNext, At, FramesOK
  <2>2. CASE CloseArray
    BY <1>12, <2>1, <2>2 DEF CloseArray
  <2>3. CASE SkipTo("element") /\ UNCHANGED <<frames, stack, val>>
    <3>1. At' = "element"
      BY <2>3, SkipToAt
    <3> QED
      BY <1>1, <2>1, <2>3, <3>1, Unframed DEF FramesOK, Top
  <2> QED
    BY <1>14, <2>2, <2>3, Thrown DEF ArrayNext
<1>15. CASE ObjectEnd
  <2>1. frames # <<>>
    BY <1>1, <1>15 DEF ObjectEnd, At, FramesOK
  <2> QED
    BY <1>12, <1>15, <2>1 DEF ObjectEnd, CloseObject
<1>16. CASE ObjectKey
  <2>1. At = "key" /\ frames # <<>> /\ Top.kind = "object"
    BY <1>1, <1>16 DEF ObjectKey, At, FramesOK
  <2>2. CASE stack' = Append(stack, Scalar("s")) /\ SkipTo("colon") /\ UNCHANGED frames
    <3>1. At' = "colon"
      BY <2>2, SkipToAt
    <3>2. Parity' = 1 - Parity
      BY <2>1, <3>1
    <3> QED
      BY <1>1, <2>1, <2>2, <3>1, <3>2, Pushed
  <2> QED
    BY <1>16, <2>2, Thrown DEF ObjectKey
<1>17. CASE ObjectColon
  <2>1. At = "colon"
    BY <1>17 DEF ObjectColon, At
  <2>2. CASE SkipTo("value") /\ UNCHANGED <<frames, stack, val>>
    <3>1. At' = "value"
      BY <2>2, SkipToAt
    <3> QED
      BY <1>1, <2>1, <2>2, <3>1, Unframed DEF FramesOK, Top
  <2> QED
    BY <1>17, <2>2, Thrown DEF ObjectColon
<1>18. CASE ObjectNext
  <2>1. At = "next" /\ Top.kind = "object" /\ frames # <<>>
    BY <1>1, <1>18 DEF ObjectNext, At, FramesOK
  <2>2. CASE CloseObject
    BY <1>12, <2>1, <2>2 DEF CloseObject
  <2>3. CASE Goto("comma") /\ UNCHANGED <<frames, stack, val>>
    <3>1. At' = "comma"
      BY <2>3, GotoAt
    <3> QED
      BY <1>1, <2>1, <2>3, <3>1, Unframed DEF FramesOK, Top
  <2> QED
    BY <1>18, <2>2, <2>3, Thrown DEF ObjectNext
<1>19. CASE ObjectComma
  <2>1. At = "comma"
    BY <1>19 DEF ObjectComma, At
  <2>2. CASE (SkipTo("key") \/ Goto("key")) /\ UNCHANGED <<frames, stack, val>>
    <3>1. At' = "key"
      BY <2>2, SkipToAt, GotoAt
    <3> QED
      BY <1>1, <2>1, <2>2, <3>1, Unframed DEF FramesOK, Top
  <2> QED
    BY <1>19, <2>2, Thrown DEF ObjectComma
<1>20. CASE ReturnToFrame
  <2>1. At = "return" /\ frames # <<>> /\ UNCHANGED frames /\ stack' = Append(stack, val)
    BY <1>20 DEF ReturnToFrame, At
  <2>2. At' = "next"
    BY <1>20, SkipToAt DEF ReturnToFrame
  <2>3. Parity' = 1 - Parity
    BY <2>1, <2>2
  <2> QED
    BY <1>1, <2>1, <2>2, <2>3, Pushed
<1>21. CASE ReturnToTop
  <2>1. frames = <<>> /\ UNCHANGED <<frames, stack>>
    BY <1>21 DEF ReturnToTop
  <2>2. At' \in {"finish", "rest"}
    BY <1>21, GotoAt, SkipToAt DEF ReturnToTop
  <2> QED
    BY <1>1, <2>1, <2>2, Unframed DEF FramesOK, Top
<1>22. CASE Rest
  <2>1. CASE Goto("finish") /\ UNCHANGED <<frames, stack, val>>
    <3>1. At = "rest" /\ At' = "finish"
      BY <1>22, <2>1, GotoAt DEF Rest, At
    <3> QED
      BY <1>1, <2>1, <3>1, Unframed DEF FramesOK, Top
  <2> QED
    BY <1>22, <2>1, Thrown DEF Rest
<1>23. CASE Finish
  <2>1. CASE Goto("accepted") /\ UNCHANGED <<frames, stack, val>>
    <3>1. At = "finish" /\ At' = "accepted"
      BY <1>23, <2>1, GotoAt DEF Finish, At
    <3> QED
      BY <1>1, <2>1, <3>1, Unframed DEF FramesOK, Top
  <2> QED
    BY <1>23, <2>1, Thrown DEF Finish
<1>24. CASE Done \/ UNCHANGED vars
  BY <1>2, <1>24 DEF Done, vars
<1> QED
  BY <1>3, <1>4, <1>5, <1>6, <1>7, <1>8, <1>9, <1>10, <1>11, <1>13, <1>14, <1>15,
     <1>16, <1>17, <1>18, <1>19, <1>20, <1>21, <1>22, <1>23, <1>24
  DEF Next, Parse

LEMMA NextInv == IInv /\ [Next]_vars => IInv'
<1> SUFFICES ASSUME IInv, [Next]_vars PROVE IInv'
  OBVIOUS
<1>1. TextOK' /\ ControlOK' /\ FramesOK'
  BY TextNext, ControlNext, FramesNext DEF IInv
<1>2. TypeOK'
  BY <1>1 DEF TypeOK, TextOK, ControlOK, FramesOK, Frames, Characters, IsLabel
<1> QED
  BY <1>1, <1>2 DEF IInv, FramesOK

\* The text is read within its bounds, one symbol after the other, and the
\* parser is always at one of its places: whatever the text.
THEOREM Typing == Spec => []TypeOK
<1>1. IInv => TypeOK
  BY DEF IInv
<1> QED
  BY <1>1, InitInv, NextInv, PTL DEF Spec

\* However deep and however long the text, parseArray and parseObject find on the
\* stack what they pushed, keys before their values, and leave alone what their
\* callers did; nothing is left when a document is returned.
THEOREM StackKept == Spec => []StackDiscipline
<1>1. IInv => StackDiscipline
  BY DEF IInv
<1> QED
  BY <1>1, InitInv, NextInv, PTL DEF Spec
-----------------------------------------------------------------------------
(***************************************************************************)
(* The grammar, as a machine.                                              *)
(***************************************************************************)
Expectations == {"container", "value", "valueOrClose", "key", "keyOrClose", "colon",
                 "separator", "end", "nothing"}

Kinds == {"array", "object"}

States == [expect : Expectations, open : Seq(Kinds), digit : BOOLEAN]

LEMMA StartType == \A r \in BOOLEAN : Start(r) \in States
  BY DEF Start, States, Expectations

LEMMA BehindType ==
  ASSUME NEW open \in Seq(Kinds), NEW d \in BOOLEAN
  PROVE  Behind(open, d) \in States
  BY DEF Behind, States, Expectations

LEMMA FrontType ==
  ASSUME NEW S, NEW s \in Seq(S), s # <<>>
  PROVE  Front(s) \in Seq(S) /\ Len(Front(s)) = Len(s) - 1
<1>1. Len(s) \in Nat /\ Len(s) - 1 \in 0 .. Len(s)
  BY EmptySeq
<1> QED
  BY <1>1, Cut DEF Front

\* Accept takes a state to a state.
LEMMA AcceptType ==
  ASSUME NEW m \in States, NEW ch
  PROVE  Accept(m, ch) \in States
<1>1. /\ m = [expect |-> m.expect, open |-> m.open, digit |-> m.digit]
      /\ m.expect \in Expectations /\ m.open \in Seq(Kinds) /\ m.digit \in BOOLEAN
  BY DEF States
<1>2. [m EXCEPT !.digit = FALSE] \in States
  BY DEF States
<1>3. Dead \in States
  <2>1. <<>> \in Seq(Kinds)
    OBVIOUS
  <2> QED
    BY <2>1 DEF Dead, States, Expectations
<1>4. \A b \in Kinds, e \in Expectations : Enter(m, b, e) \in States
  <2> TAKE b \in Kinds, e \in Expectations
  <2>1. Append(m.open, b) \in Seq(Kinds)
    BY <1>1, AppendProperties
  <2> QED
    BY <2>1 DEF Enter, States
<1>5. \A e \in Expectations : Expect(m, e) \in States
  BY <1>1 DEF Expect, States
<1>6. \A d \in BOOLEAN : Behind(m.open, d) \in States
  BY <1>1, BehindType
<1>7. \A b : Inside(m, b) => Behind(Front(m.open), FALSE) \in States
  BY <1>1, FrontType, BehindType DEF Inside
<1>8. \/ Accept(m, ch) = [m EXCEPT !.digit = FALSE] \/ Accept(m, ch) = m
      \/ Accept(m, ch) = Dead
      \/ \E b \in Kinds, e \in Expectations : Accept(m, ch) = Enter(m, b, e)
      \/ \E e \in Expectations : Accept(m, ch) = Expect(m, e)
      \/ \E d \in BOOLEAN : Accept(m, ch) = Behind(m.open, d)
      \/ \E b : Inside(m, b) /\ Accept(m, ch) = Behind(Front(m.open), FALSE)
  <2>1. ASSUME ch \notin {" ", "1"} \/ (ch = "1" /\ ~ m.digit), m.expect \in Expectations
        PROVE  \/ Accept(m, ch) = Dead
               \/ Accept(m, ch) = Enter(m, "array", "valueOrClose")
               \/ Accept(m, ch) = Enter(m, "object", "keyOrClose")
               \/ Accept(m, ch) = Behind(m.open, TRUE) \/ Accept(m, ch) = Behind(m.open, FALSE)
               \/ Accept(m, ch) = Expect(m, "colon") \/ Accept(m, ch) = Expect(m, "value")
               \/ Accept(m, ch) = Expect(m, "key")
               \/ /\ Inside(m, "array") \/ Inside(m, "object")
                  /\ Accept(m, ch) = Behind(Front(m.open), FALSE)
    BY <2>1 DEF Accept, Starts, Inside
  <2>2. CASE ch = " "
    BY <2>2 DEF Accept
  <2>3. CASE ch = "1" /\ m.digit
    BY <2>3 DEF Accept
  <2> QED
    BY <1>1, <2>1, <2>2, <2>3 DEF Expectations, Kinds
<1> QED
  BY <1>2, <1>3, <1>4, <1>5, <1>6, <1>7, <1>8

\* The machine takes one symbol after the other.
LEMMA AfterDefined ==
  ASSUME NEW S, NEW s \in Seq(S), NEW r \in BOOLEAN
  PROVE  \E f \in [0 .. Len(s) -> States] :
           /\ f[0] = Start(r)
           /\ \A i \in 1 .. Len(s) : f[i] = Accept(f[i - 1], s[i])
           /\ After(s, r) = f[Len(s)]
<1> DEFINE step == [p \in (1 .. Len(s)) \X States |-> Accept(p[2], s[p[1]])]
<1>1. Len(s) \in Nat /\ Start(r) \in States
  BY StartType
<1>2. step \in [(1 .. Len(s)) \X States -> States]
  BY AcceptType
<1>3. \A i \in 1 .. Len(s), m \in States : step[<<i, m>>] = Accept(m, s[i])
  OBVIOUS
<1> HIDE DEF step
<1>4. PICK f \in [0 .. Len(s) -> States] : Follows(f, Len(s), Start(r), step)
  BY <1>1, <1>2, RecursionDefines
<1>5. f[0] = Start(r) /\ \A i \in 1 .. Len(s) : f[i] = Accept(f[i - 1], s[i])
  <2>1. \A i \in 1 .. Len(s) : i - 1 \in 0 .. Len(s) /\ f[i - 1] \in States
    BY <1>1
  <2> QED
    BY <1>3, <1>4, <2>1 DEF Follows
<1>6. f = [n \in 0 .. Len(s) |-> IF n = 0 THEN Start(r) ELSE Accept(f[n - 1], s[n])]
  BY <1>1, <1>5
<1>7. \A g : g = [n \in 0 .. Len(s) |-> IF n = 0 THEN Start(r) ELSE Accept(g[n - 1], s[n])]
             => /\ g[0] = Start(r)
                /\ \A i \in 1 .. Len(s) : g[i] = Accept(g[i - 1], s[i])
  BY <1>1
<1>8. \E g : /\ g = [n \in 0 .. Len(s) |-> IF n = 0 THEN Start(r) ELSE Accept(g[n - 1], s[n])]
             /\ After(s, r) = g[Len(s)]
  BY <1>6, Zenon DEF After
<1>9. PICK g : /\ g = [n \in 0 .. Len(s) |-> IF n = 0 THEN Start(r) ELSE Accept(g[n - 1], s[n])]
               /\ After(s, r) = g[Len(s)]
  BY <1>8
<1> DEFINE K == {i \in 0 .. Len(s) : g[i] = f[i]}
<1>10. g[0] = Start(r) /\ \A i \in 1 .. Len(s) : g[i] = Accept(g[i - 1], s[i])
  BY <1>7, <1>9
<1>11. 0 \in K
  BY <1>1, <1>5, <1>10
<1>12. ASSUME NEW i \in 0 .. Len(s) - 1, i \in K PROVE i + 1 \in K
  <2>1. i + 1 \in 1 .. Len(s) /\ (i + 1) - 1 = i
    BY <1>1
  <2> QED
    BY <1>5, <1>10, <1>12, <2>1
<1>13. \A i \in 0 .. Len(s) : i \in K
  <2> HIDE DEF K
  <2> QED
    BY <1>1, <1>11, <1>12, InductionTo
<1>14. g[Len(s)] = f[Len(s)]
  BY <1>1, <1>13
<1> QED
  BY <1>5, <1>9, <1>14

\* What the machine does with a text depends on its symbols only, and goes on
\* from what it did with a part of it.
LEMMA AfterPrefix ==
  ASSUME NEW S, NEW s \in Seq(S), NEW T, NEW t \in Seq(T), NEW r \in BOOLEAN,
         Len(s) <= Len(t), \A i \in 1 .. Len(s) : s[i] = t[i]
  PROVE  /\ After(s, r) \in States
         /\ Len(t) = Len(s) => After(t, r) = After(s, r)
         /\ Len(t) = Len(s) + 1 => After(t, r) = Accept(After(s, r), t[Len(t)])
<1>1. Len(s) \in Nat /\ Len(t) \in Nat
  OBVIOUS
<1>2. PICK f \in [0 .. Len(s) -> States] :
        /\ f[0] = Start(r)
        /\ \A i \in 1 .. Len(s) : f[i] = Accept(f[i - 1], s[i])
        /\ After(s, r) = f[Len(s)]
  BY AfterDefined
<1>3. PICK g \in [0 .. Len(t) -> States] :
        /\ g[0] = Start(r)
        /\ \A i \in 1 .. Len(t) : g[i] = Accept(g[i - 1], t[i])
        /\ After(t, r) = g[Len(t)]
  BY AfterDefined
<1> DEFINE K == {i \in 0 .. Len(s) : g[i] = f[i]}
<1>4. 0 \in K
  BY <1>1, <1>2, <1>3
<1>5. ASSUME NEW i \in 0 .. Len(s) - 1, i \in K PROVE i + 1 \in K
  <2>1. i + 1 \in 1 .. Len(s) /\ i + 1 \in 1 .. Len(t) /\ (i + 1) - 1 = i
    BY <1>1
  <2> QED
    BY <1>2, <1>3, <1>5, <2>1
<1>6. \A i \in 0 .. Len(s) : i \in K
  <2> HIDE DEF K
  <2> QED
    BY <1>1, <1>4, <1>5, InductionTo
<1>7. g[Len(s)] = After(s, r)
  BY <1>1, <1>2, <1>6
<1>8. After(s, r) \in States
  BY <1>1, <1>2
<1>9. Len(t) = Len(s) + 1 => After(t, r) = Accept(After(s, r), t[Len(t)])
  BY <1>1, <1>3, <1>7
<1> QED
  BY <1>1, <1>3, <1>7, <1>8, <1>9

LEMMA AfterNothing ==
  ASSUME NEW r \in BOOLEAN
  PROVE  After(<<>>, r) = Start(r)
<1> DEFINE s == <<>>
<1>1. s \in Seq(States) /\ Len(s) = 0
  OBVIOUS
<1> HIDE DEF s
<1>2. PICK f \in [0 .. Len(s) -> States] :
        /\ f[0] = Start(r)
        /\ After(s, r) = f[Len(s)]
  BY <1>1, AfterDefined
<1>3. After(s, r) = Start(r)
  BY <1>1, <1>2
<1> QED
  BY <1>3 DEF s
-----------------------------------------------------------------------------
(***************************************************************************)
(* The parser and the grammar side by side.                                *)
(***************************************************************************)
\* Names for two symbols.
Comma == ","
Brace == "}"
LBrace == "{"

\* The state of the grammar behind the first n symbols.
Grammar(n) == After(SubSeq(text, 1, n), UseRFC4627)

\* Its state behind what was read, and behind what was read before c.
Now == Grammar(IF AtEnd THEN pos - 1 ELSE pos)
Before == Grammar(pos - 1)

\* The kinds of the calls in progress.
KindsOf(fs) == [n \in DOMAIN fs |-> fs[n].kind]

Calls == KindsOf(frames)

\* The places that look at c, which is the last symbol read.
Looking == {"top", "value", "first", "element", "next", "key", "colon", "comma", "rest"}

\* The text ends with its NUL, and the parser at the first one.  A symbol that was looked at and not read is the
\* one behind a number.
TextRead ==
  /\ \A n \in 1 .. Len(text) - 1 : text[n] # NUL
  /\ pos < Len(text) => /\ pos = Len(text) - 1 /\ pos > 0 /\ text[pos] = "1"
                        /\ pc = "return" \/ (pc = "skip" /\ then \in {"next", "rest"})
  /\ pc \in Looking => pos > 0 /\ c = text[pos] /\ (c = Space => pc = "comma")
  /\ pc = "number" => pos > 0 /\ text[pos] = "1" /\ pos = Len(text)
  /\ pc = "finish" => pos > 0 /\ pos = Len(text) /\ IsNUL(text[pos])
  /\ pc = "overrun" => AtEnd
  /\ pc = "skip" => then \in Looking \ {"comma"}
  /\ pc = "comma" => c = Comma
  /\ pc = "skip" /\ then = "top" => \A n \in 1 .. pos : text[n] = Space
  /\ pc = "top" => \A n \in 1 .. pos - 1 : text[n] = Space

\* The next symbol is not another digit of the same number.
NumberEnds(m) == m.digit => pos < Len(text) /\ text[pos + 1] # "1"

IsScalar == val.kind = "scalar"

\* Behind a value, which is no document if it is a scalar and must not be one.
Complete(m) ==
  /\ m.expect = IF frames = <<>> THEN "end" ELSE "separator"
  /\ m.open = Calls
  /\ frames = <<>> /\ UseRFC4627 => pc # "number" /\ ~ IsScalar

\* What the grammar expects where the parser is at this place.  At "key" it may
\* be a key only: then a comma and white space are behind the parser, or what
\* comes next is not a bracket.
Expected(place, m) ==
  CASE place = "top"     -> m = Start(UseRFC4627)
    [] place = "value"   -> /\ ~ m.digit
                            /\ IF frames = <<>> THEN m = Start(UseRFC4627)
                                                ELSE m.expect \in Starts /\ m.open = Calls
    [] place = "first"   -> ~ m.digit /\ m.expect = "valueOrClose" /\ m.open = Calls
    [] place = "element" -> ~ m.digit /\ m.expect = "value" /\ m.open = Calls
    [] place = "key"     -> ~ m.digit /\ m.expect \in {"key", "keyOrClose"} /\ m.open = Calls
    [] place = "colon"   -> ~ m.digit /\ m.expect = "colon" /\ m.open = Calls
    [] place \in {"next", "comma", "rest"} -> Complete(m)

CommaSpace(n) == n > 1 /\ text[n] = Space /\ text[n - 1] = Comma

\* Where the parser is lenient the grammar is not.
Excused(m) ==
  /\ m = Dead
  /\ \/ SpacedComma
     \/ /\ UseRFC4627 /\ frames = <<>>
        /\ pc = "number" \/ (IsScalar /\ At \in {"return", "rest", "finish"})

\* The text has ended inside a container or a string, which was taken for its end.
CutShort(m) ==
  /\ m.expect # "end"
  /\ \/ Excused(m)
     \/ m = Dead /\ IsScalar /\ pos > 1 /\ text[pos - 1] = "e"
     \/ Len(m.open) = Len(frames) + 1

\* What is true while it skips white space, looks at c, reads a number, returns
\* a value and finishes.
Skipping ==
  IF AtEnd
    THEN Now.expect # "end" /\ then \in {"next", "colon"}
    ELSE \/ Excused(Now)
         \/ /\ Expected(then, Now)
            /\ then \in {"next", "rest"} => NumberEnds(Now)
            /\ then = "key" /\ Now.expect = "key" => CommaSpace(pos)
            /\ then = "value" => frames # <<>> /\ Now.expect = "value"

LooksAt ==
  \/ Excused(Before)
  \/ /\ Expected(pc, Before)
     /\ pc \in {"next", "comma", "rest"} => c # "1" \/ ~ Before.digit
     /\ pc = "key" /\ Before.expect = "key" => CommaSpace(pos - 1) \/ (c # Brace /\ c # NUL)
     /\ pc = "value" /\ frames # <<>> /\ Before.expect = "valueOrClose" => c # "]"

Numbering == Excused(Now) \/ (Complete(Now) /\ Now.digit)

Returning == IF AtEnd THEN CutShort(Now)
                      ELSE Excused(Now) \/ (Complete(Now) /\ NumberEnds(Now))

Finishing == (AtEnd /\ CutShort(Before)) \/ Excused(Before) \/ Complete(Before)

InStep ==
  /\ pc = "skip" => Skipping
  /\ pc \in Looking => LooksAt
  /\ pc = "number" => Numbering
  /\ pc = "return" => Returning
  /\ pc = "finish" => Finishing
  /\ pc = "overrun" => Now.expect # "end"

\* What the step lemmas start from.
Known == UseRFC4627 \in BOOLEAN /\ IInv /\ TextRead /\ InStep

LEMMA KnownText ==
  ASSUME Known
  PROVE  /\ text \in Seq(Characters) /\ Len(text) \in Nat /\ pos \in 0 .. Len(text)
         /\ c \in Characters
  BY DEF Known, IInv, TypeOK, Characters

\* Grammar goes from one symbol to the next.
LEMMA GrammarFollows ==
  ASSUME UseRFC4627 \in BOOLEAN, text \in Seq(Characters)
  PROVE  /\ Grammar(0) = Start(UseRFC4627)
         /\ \A n \in 0 .. Len(text) : Grammar(n) \in States
         /\ \A n \in 1 .. Len(text) : Grammar(n) = Accept(Grammar(n - 1), text[n])
<1>1. \A n \in 0 .. Len(text) :
        /\ SubSeq(text, 1, n) \in Seq(Characters) /\ Len(SubSeq(text, 1, n)) = n
        /\ \A i \in 1 .. n : SubSeq(text, 1, n)[i] = text[i]
  BY Cut
<1>2. Len(text) \in Nat
  OBVIOUS
<1>3. Grammar(0) = Start(UseRFC4627)
  <2>1. SubSeq(text, 1, 0) = <<>>
    BY <1>1, <1>2, EmptySeq
  <2> QED
    BY <2>1, AfterNothing DEF Grammar
<1>4. \A n \in 0 .. Len(text) : Grammar(n) \in States
  <2> TAKE n \in 0 .. Len(text)
  <2> DEFINE s == SubSeq(text, 1, n)
  <2>1. s \in Seq(Characters) /\ Len(s) <= Len(s) /\ \A i \in 1 .. Len(s) : s[i] = s[i]
    BY <1>1
  <2>2. Grammar(n) = After(s, UseRFC4627)
    BY DEF Grammar
  <2> HIDE DEF s
  <2> QED
    BY <2>1, <2>2, AfterPrefix
<1>5. ASSUME NEW n \in 1 .. Len(text)
      PROVE  Grammar(n) = Accept(Grammar(n - 1), text[n])
  <2>1. n - 1 \in 0 .. Len(text) /\ n \in 0 .. Len(text) /\ n \in 1 .. n
    BY <1>2
  <2> DEFINE s == SubSeq(text, 1, n - 1)
             t == SubSeq(text, 1, n)
  <2>2. s \in Seq(Characters) /\ t \in Seq(Characters) /\ Len(s) = n - 1 /\ Len(t) = n
    BY <1>1, <2>1
  <2>3. \A i \in 1 .. Len(s) : s[i] = t[i]
    BY <1>1, <2>1, <2>2
  <2>4. t[n] = text[n] /\ Len(s) <= Len(t) /\ Len(t) = Len(s) + 1
    BY <1>1, <2>1, <2>2
  <2>5. Grammar(n) = After(t, UseRFC4627) /\ Grammar(n - 1) = After(s, UseRFC4627)
    BY DEF Grammar
  <2> HIDE DEF s, t
  <2>6. After(t, UseRFC4627) = Accept(After(s, UseRFC4627), t[Len(t)])
    BY <2>2, <2>3, <2>4, AfterPrefix
  <2>7. Len(t) = n
    BY <2>2
  <2> QED
    BY <2>4, <2>5, <2>6, <2>7, Zenon
<1> QED
  BY <1>3, <1>4, <1>5

\* What was read stays read.
Extends == /\ text' \in Seq(Characters)
           /\ Len(text) <= Len(text')
           /\ \A i \in 1 .. Len(text) : text'[i] = text[i]

LEMMA GrammarStays ==
  ASSUME Known, Extends, NEW n \in 0 .. Len(text)
  PROVE  After(SubSeq(text', 1, n), UseRFC4627) = Grammar(n)
<1>1. text \in Seq(Characters) /\ Len(text) \in Nat
  BY KnownText
<1>2. text' \in Seq(Characters) /\ Len(text') \in Nat /\ n \in 0 .. Len(text')
  BY <1>1 DEF Extends
<1> DEFINE s == SubSeq(text, 1, n)
           t == SubSeq(text', 1, n)
<1>3. s \in Seq(Characters) /\ Len(s) = n /\ \A i \in 1 .. n : s[i] = text[i]
  BY <1>1, Cut
<1>4. t \in Seq(Characters) /\ Len(t) = n /\ \A i \in 1 .. n : t[i] = text'[i]
  BY <1>2, Cut
<1>5. \A i \in 1 .. n : text'[i] = text[i]
  BY <1>1 DEF Extends
<1>6. Len(s) <= Len(t) /\ Len(t) = Len(s) /\ \A i \in 1 .. Len(s) : s[i] = t[i]
  BY <1>3, <1>4, <1>5
<1>7. After(t, UseRFC4627) = After(s, UseRFC4627)
  <2> HIDE DEF s, t
  <2> QED
    BY <1>3, <1>4, <1>6, AfterPrefix DEF Known
<1> QED
  BY <1>7 DEF Grammar

LEMMA SpacedCommaStays ==
  ASSUME Known, Extends, SpacedComma
  PROVE  SpacedComma'
<1>1. Len(text) \in Nat /\ Len(text') \in Nat /\ Len(text) <= Len(text')
  BY KnownText DEF Extends
<1>2. PICK n \in 1 .. Len(text) - 2 : text[n] = Comma /\ text[n + 1] = Space /\ text[n + 2] = Brace
  BY DEF SpacedComma, Comma, Brace
<1>3. n \in 1 .. Len(text') - 2
  BY <1>1
<1>4. text'[n] = Comma /\ text'[n + 1] = Space /\ text'[n + 2] = Brace
  <2>1. n \in 1 .. Len(text) /\ n + 1 \in 1 .. Len(text) /\ n + 2 \in 1 .. Len(text)
    BY <1>1
  <2> QED
    BY <1>2, <2>1 DEF Extends
<1> QED
  BY <1>3, <1>4 DEF SpacedComma, Comma, Brace

\* Nothing is alive behind what is no beginning of a text.
LEMMA DeadStays == \A ch : Accept(Dead, ch) = Dead
<1> TAKE ch
<1>1. Dead.expect = "nothing" /\ Dead.digit = FALSE
  BY DEF Dead
<1>2. [Dead EXCEPT !.digit = FALSE] = Dead
  <2>1. Dead \in [expect : {"nothing"}, open : {<<>>}, digit : {FALSE}]
    BY DEF Dead
  <2> QED
    BY <2>1
<1> QED
  BY <1>1, <1>2 DEF Accept, Opens, Starts, Inside

\* The end of the text is never in sight before its NUL.
LEMMA LookingAt ==
  ASSUME Known, pc \in Looking \cup {"number"}
  PROVE  /\ pos = Len(text) /\ pos \in 1 .. Len(text) /\ pos > 0
         /\ Before \in States /\ Now \in States
         /\ Grammar(pos) = Accept(Before, text[pos]) /\ Grammar(pos) \in States
         /\ pc # "number" => /\ c = text[pos] /\ AtEnd = (c = NUL)
                             /\ c = NUL => Now = Before
                             /\ c # NUL => Now = Accept(Before, c)
         /\ pc = "number" => ~ AtEnd /\ Now = Grammar(pos)
<1>1. text \in Seq(Characters) /\ Len(text) \in Nat /\ pos \in 0 .. Len(text)
  BY KnownText
<1>2. pos > 0 /\ pos = Len(text) /\ (pc # "number" => c = text[pos])
      /\ (pc = "number" => text[pos] = "1")
  <2>1. TextRead /\ pc \notin {"return", "skip"}
    BY DEF Known, Looking
  <2>2. pos > 0 /\ ~ pos < Len(text)
    BY <2>1 DEF TextRead
  <2>3. pc # "number" => c = text[pos]
    BY <2>1 DEF TextRead
  <2>4. pc = "number" => text[pos] = "1"
    BY <2>1 DEF TextRead
  <2> QED
    BY <1>1, <2>2, <2>3, <2>4
<1>3. pos \in 1 .. Len(text) /\ pos - 1 \in 0 .. Len(text)
  BY <1>1, <1>2
<1>4. /\ Before \in States /\ Grammar(pos) \in States
      /\ Grammar(pos) = Accept(Before, text[pos])
  BY <1>1, <1>3, GrammarFollows DEF Before, Known
<1>5. pc # "number" => AtEnd = (c = NUL)
  BY <1>2 DEF AtEnd
<1>6. pc = "number" => ~ AtEnd
  BY <1>2 DEF AtEnd, NUL
<1>7. Now = IF AtEnd THEN Before ELSE Grammar(pos)
  BY DEF Now, Before
<1> QED
  BY <1>2, <1>3, <1>4, <1>5, <1>6, <1>7

LEMMA Staying ==
  ASSUME UNCHANGED <<text, pos>>
  PROVE  /\ Now' = Now /\ Before' = Before /\ AtEnd' = AtEnd /\ SpacedComma' = SpacedComma
         /\ Grammar(pos)' = Grammar(pos)
         /\ \A n : CommaSpace(n)' = CommaSpace(n)
  BY DEF Now, Before, Grammar, AtEnd, SpacedComma, CommaSpace

\* The next symbol, when it is looked at.
LEMMA LookStep ==
  ASSUME Known, NEW ch \in Characters, Look(ch)
  PROVE  /\ Extends /\ ~ AtEnd
         /\ SpacedComma => SpacedComma'
         /\ text' \in Seq(Characters) /\ Len(text') = pos + 1 /\ text'[pos + 1] = ch
         /\ \A i \in 1 .. pos : text'[i] = text[i] /\ text'[i] # NUL
         /\ pos < Len(text) => ch = text[pos + 1]
         /\ pos > 0 /\ text[pos] = Space => ch # Space
         /\ Now \in States
         /\ After(SubSeq(text', 1, pos), UseRFC4627) = Now
         /\ After(SubSeq(text', 1, pos + 1), UseRFC4627) = Accept(Now, ch)
<1>1. text \in Seq(Characters) /\ Len(text) \in Nat /\ pos \in 0 .. Len(text)
  BY KnownText
<1>2. TextRead /\ ~ AtEnd /\ UseRFC4627 \in BOOLEAN
  BY DEF Known, Look
<1>3. /\ Extends /\ Len(text') = pos + 1 /\ text'[pos + 1] = ch
      /\ \A i \in 1 .. pos : text'[i] = text[i] /\ text[i] # NUL
      /\ pos < Len(text) => ch = text[pos + 1]
      /\ pos > 0 /\ text[pos] = Space => ch # Space
  <2>1. CASE pos < Len(text)
    <3>1. ch = text[pos + 1] /\ text' = text /\ pos = Len(text) - 1 /\ text[pos] = "1"
      BY <1>2, <2>1 DEF Look, NextSymbols, TextRead
    <3>2. \A i \in 1 .. pos : text[i] # NUL
      BY <1>2, <3>1 DEF TextRead
    <3>3. text[pos] # Space
      BY <3>1 DEF Space
    <3> QED
      BY <1>1, <3>1, <3>2, <3>3 DEF Extends
  <2>2. CASE ~ pos < Len(text)
    <3>1. text' = Append(text, ch) /\ pos = Len(text)
      BY <1>1, <2>2 DEF Look
    <3>2. /\ text' \in Seq(Characters) /\ Len(text') = Len(text) + 1
          /\ text'[Len(text) + 1] = ch /\ \A i \in 1 .. Len(text) : text'[i] = text[i]
      BY <1>1, <3>1, AppendProperties
    <3>3. \A i \in 1 .. pos : text[i] # NUL
      <4>1. \A i \in 1 .. Len(text) - 1 : text[i] # NUL
        BY <1>2 DEF TextRead
      <4>2. pos > 0 => text[pos] # NUL
        BY <1>2, <3>1 DEF AtEnd
      <4> QED
        BY <1>1, <3>1, <4>1, <4>2
    <3>4. pos > 0 /\ text[pos] = Space => ch # Space
      <4> SUFFICES ASSUME pos > 0, text[pos] = Space PROVE ch # Space
        OBVIOUS
      <4>1. ch \in NextSymbols /\ ~ pos < Len(text)
        BY <1>1, <3>1 DEF Look
      <4>2. NextSymbols = {NUL} \/ NextSymbols = (Symbols \cup {NUL}) \ {Space}
        BY <4>1 DEF NextSymbols
      <4> QED
        BY <4>1, <4>2 DEF Space, NUL
    <3> QED
      BY <1>1, <3>1, <3>2, <3>3, <3>4 DEF Extends
  <2> QED
    BY <2>1, <2>2
<1>4. Now = Grammar(pos) /\ Now \in States
  BY <1>1, <1>2, GrammarFollows DEF Now
<1>5. After(SubSeq(text', 1, pos), UseRFC4627) = Now
  BY <1>1, <1>3, <1>4, GrammarStays
<1>6. SpacedComma => SpacedComma'
  BY <1>3, SpacedCommaStays
<1> DEFINE s == SubSeq(text', 1, pos)
           t == SubSeq(text', 1, pos + 1)
<1>7. text' \in Seq(Characters) /\ pos + 1 \in 0 .. Len(text') /\ pos \in 0 .. Len(text')
  BY <1>1, <1>3 DEF Extends
<1>8. /\ s \in Seq(Characters) /\ Len(s) = pos /\ \A i \in 1 .. pos : s[i] = text'[i]
      /\ t \in Seq(Characters) /\ Len(t) = pos + 1 /\ \A i \in 1 .. pos + 1 : t[i] = text'[i]
  BY <1>7, Cut
<1>9. After(t, UseRFC4627) = Accept(After(s, UseRFC4627), t[pos + 1]) /\ t[pos + 1] = ch
  <2>1. Len(s) <= Len(t) /\ Len(t) = Len(s) + 1 /\ \A i \in 1 .. Len(s) : s[i] = t[i]
    BY <1>1, <1>8
  <2>2. t[pos + 1] = ch
    BY <1>1, <1>3, <1>8
  <2> HIDE DEF s, t
  <2> QED
    BY <1>2, <1>8, <2>1, <2>2, AfterPrefix
<1> QED
  BY <1>2, <1>3, <1>4, <1>5, <1>6, <1>7, <1>9

\* The next symbol, when it is read.
LEMMA ReadStep ==
  ASSUME Known, NEW ch \in Characters, Read(ch)
  PROVE  /\ ~ AtEnd /\ pos' = pos + 1 /\ pos' = Len(text') /\ text'[pos'] = ch /\ pos' > 0
         /\ \A i \in 1 .. pos' - 1 : text'[i] = text[i] /\ text'[i] # NUL
         /\ pos < Len(text) => ch = text[pos + 1]
         /\ pos > 0 /\ text[pos] = Space => ch # Space
         /\ SpacedComma => SpacedComma'
         /\ Now \in States /\ Before' = Now
         /\ AtEnd' = (ch = NUL)
         /\ Now' = IF ch = NUL THEN Now ELSE Accept(Now, ch)
<1>1. Look(ch) /\ pos' = pos + 1 /\ pos \in Nat
  BY KnownText DEF Read
<1>2. /\ ~ AtEnd
      /\ SpacedComma => SpacedComma'
      /\ text' \in Seq(Characters) /\ Len(text') = pos + 1 /\ text'[pos + 1] = ch
      /\ \A i \in 1 .. pos : text'[i] = text[i] /\ text'[i] # NUL
      /\ pos < Len(text) => ch = text[pos + 1]
      /\ pos > 0 /\ text[pos] = Space => ch # Space
      /\ Now \in States
      /\ After(SubSeq(text', 1, pos), UseRFC4627) = Now
      /\ After(SubSeq(text', 1, pos + 1), UseRFC4627) = Accept(Now, ch)
  BY <1>1, LookStep
<1>3. pos' - 1 = pos
  BY <1>1
<1>4. AtEnd' = (ch = NUL)
  BY <1>1, <1>2 DEF AtEnd
<1>5. Before' = Now
  BY <1>2, <1>3 DEF Before, Grammar
<1>6. Now' = IF ch = NUL THEN Now ELSE Accept(Now, ch)
  BY <1>1, <1>2, <1>3, <1>4 DEF Now, Grammar
<1> QED
  BY <1>1, <1>2, <1>3, <1>4, <1>5, <1>6

\* The rest of the text, when it is a string that is not closed.
LEMMA RunOutStep ==
  ASSUME Known, pc \in Looking, c \in Unclosed, RunOut
  PROVE  /\ pos' = Len(text') /\ pos' > 1 /\ text'[pos'] = NUL /\ text'[pos' - 1] = c
         /\ \A i \in 1 .. pos' - 1 : text'[i] # NUL
         /\ SpacedComma => SpacedComma'
         /\ AtEnd' /\ Now' = Dead
<1>1. text \in Seq(Characters) /\ Len(text) \in Nat /\ pos \in 0 .. Len(text)
  BY KnownText
<1>2. /\ pos = Len(text) /\ pos > 0 /\ c = text[pos] /\ ~ AtEnd
      /\ Grammar(pos) = Accept(Before, c)
  BY LookingAt DEF Unclosed, NUL, Looking
<1>3. text' = Append(text, NUL) /\ pos' = pos + 1
  BY DEF RunOut
<1>4. /\ text' \in Seq(Characters) /\ Len(text') = Len(text) + 1
      /\ text'[Len(text) + 1] = NUL /\ \A i \in 1 .. Len(text) : text'[i] = text[i]
  BY <1>1, <1>3, AppendProperties DEF Characters
<1>5. Extends
  BY <1>1, <1>4 DEF Extends
<1>6. \A i \in 1 .. pos : text[i] # NUL
  <2>1. \A i \in 1 .. Len(text) - 1 : text[i] # NUL
    BY DEF Known, TextRead
  <2>2. text[pos] # NUL
    BY <1>2 DEF Unclosed, NUL
  <2> QED
    BY <1>1, <1>2, <2>1, <2>2
<1>7. AtEnd'
  BY <1>1, <1>2, <1>3, <1>4 DEF AtEnd
<1>8. pos' - 1 = pos
  BY <1>1, <1>3
<1>9. Now' = Grammar(pos)
  BY <1>1, <1>5, <1>7, <1>8, GrammarStays DEF Now, Grammar
<1>10. Accept(Before, c) = Dead
  BY DEF Accept, Unclosed, Opens, Starts, Inside
<1> QED
  BY <1>1, <1>2, <1>3, <1>4, <1>5, <1>6, <1>7, <1>8, <1>9, <1>10, SpacedCommaStays

\* The kinds of the calls are a sequence as long as that of the calls.
LEMMA KindsOfType ==
  ASSUME NEW fs \in Seq(Frames)
  PROVE  /\ KindsOf(fs) \in Seq(Kinds) /\ Len(KindsOf(fs)) = Len(fs)
         /\ \A n \in 1 .. Len(fs) : KindsOf(fs)[n] = fs[n].kind
         /\ KindsOf(fs) = <<>> <=> fs = <<>>
         /\ fs # <<>> => /\ Last(KindsOf(fs)) = Last(fs).kind
                         /\ Len(fs) > 0
<1>1. Len(fs) \in Nat /\ DOMAIN fs = 1 .. Len(fs)
  OBVIOUS
<1>2. KindsOf(fs) \in [1 .. Len(fs) -> Kinds]
  <2>1. \A n \in 1 .. Len(fs) : fs[n] \in Frames
    BY ElementOfSeq
  <2> QED
    BY <1>1, <2>1 DEF KindsOf, Frames, Kinds
<1>3. KindsOf(fs) \in Seq(Kinds) /\ Len(KindsOf(fs)) = Len(fs)
  <2>1. KindsOf(fs) \in Seq(Kinds)
    BY <1>1, <1>2, SeqDef
  <2>2. DOMAIN KindsOf(fs) = 1 .. Len(KindsOf(fs)) /\ Len(KindsOf(fs)) \in Nat
    BY <2>1, LenProperties
  <2> QED
    BY <1>1, <1>2, <2>1, <2>2
<1>4. \A n \in 1 .. Len(fs) : KindsOf(fs)[n] = fs[n].kind
  BY <1>1 DEF KindsOf
<1>5. KindsOf(fs) = <<>> <=> fs = <<>>
  BY <1>3, EmptySeq
<1>6. fs # <<>> => Len(fs) \in 1 .. Len(fs)
  BY <1>1, EmptySeq
<1>7. fs # <<>> => Last(KindsOf(fs)) = Last(fs).kind /\ Len(fs) > 0
  BY <1>1, <1>3, <1>4, <1>6 DEF Last
<1> QED
  BY <1>3, <1>4, <1>5, <1>7

LEMMA KindsOfPush ==
  ASSUME NEW fs \in Seq(Frames), NEW f \in Frames
  PROVE  KindsOf(Append(fs, f)) = Append(KindsOf(fs), f.kind)
<1> DEFINE gs == Append(fs, f)
           b == KindsOf(gs)
           d == Append(KindsOf(fs), f.kind)
<1>1. /\ gs \in Seq(Frames) /\ Len(gs) = Len(fs) + 1 /\ gs[Len(fs) + 1] = f
      /\ \A n \in 1 .. Len(fs) : gs[n] = fs[n]
  BY AppendProperties
<1>2. /\ KindsOf(fs) \in Seq(Kinds) /\ Len(KindsOf(fs)) = Len(fs)
      /\ \A n \in 1 .. Len(fs) : KindsOf(fs)[n] = fs[n].kind
  BY KindsOfType
<1>3. f.kind \in Kinds
  BY DEF Frames, Kinds
<1>4. /\ d \in Seq(Kinds) /\ Len(d) = Len(fs) + 1 /\ d[Len(fs) + 1] = f.kind
      /\ \A n \in 1 .. Len(fs) : d[n] = fs[n].kind
  <2> DEFINE o == KindsOf(fs)
  <2>1. /\ Append(o, f.kind) \in Seq(Kinds)
        /\ Len(Append(o, f.kind)) = Len(o) + 1
        /\ Append(o, f.kind)[Len(o) + 1] = f.kind
        /\ \A n \in 1 .. Len(o) : Append(o, f.kind)[n] = o[n]
    BY <1>2, <1>3, AppendProperties
  <2> HIDE DEF d
  <2>2. d = Append(o, f.kind)
    BY DEF d
  <2> HIDE DEF o
  <2>3. Len(o) = Len(fs) /\ \A n \in 1 .. Len(fs) : o[n] = fs[n].kind
    BY <1>2 DEF o
  <2> QED
    BY <2>1, <2>2, <2>3
<1>5. b \in Seq(Kinds) /\ Len(b) = Len(gs) /\ \A n \in 1 .. Len(gs) : b[n] = gs[n].kind
  BY <1>1, KindsOfType
<1>6. \A n \in 1 .. Len(d) : b[n] = d[n]
  <2> HIDE DEF b, d, gs
  <2> TAKE n \in 1 .. Len(d)
  <2>1. Len(d) = Len(fs) + 1 /\ Len(gs) = Len(fs) + 1 /\ Len(fs) \in Nat
    BY <1>1, <1>4
  <2>2. b[n] = gs[n].kind
    BY <1>5, <2>1
  <2>3. CASE n = Len(fs) + 1
    BY <1>1, <1>4, <2>2, <2>3
  <2>4. CASE n # Len(fs) + 1
    <3>1. n \in 1 .. Len(fs)
      BY <2>1, <2>4
    <3> QED
      BY <1>1, <1>4, <2>2, <3>1
  <2> QED
    BY <2>3, <2>4
<1> HIDE DEF b, d, gs
<1> QED
  BY <1>1, <1>4, <1>5, <1>6, SeqEqual DEF b, d, gs

LEMMA KindsOfPop ==
  ASSUME NEW fs \in Seq(Frames), fs # <<>>
  PROVE  /\ KindsOf(Front(fs)) = Front(KindsOf(fs))
         /\ Front(fs) \in Seq(Frames) /\ Len(Front(fs)) = Len(fs) - 1 /\ Len(fs) \in Nat
<1> DEFINE gs == Front(fs)
           b == KindsOf(gs)
           d == Front(KindsOf(fs))
<1>1. Len(fs) \in Nat /\ Len(fs) - 1 \in 0 .. Len(fs)
  BY EmptySeq
<1>2. /\ gs \in Seq(Frames) /\ Len(gs) = Len(fs) - 1
      /\ \A n \in 1 .. Len(fs) - 1 : gs[n] = fs[n]
  BY <1>1, Cut DEF Front
<1>3. /\ KindsOf(fs) \in Seq(Kinds) /\ Len(KindsOf(fs)) = Len(fs)
      /\ \A n \in 1 .. Len(fs) : KindsOf(fs)[n] = fs[n].kind
  BY KindsOfType
<1>4. /\ d \in Seq(Kinds) /\ Len(d) = Len(fs) - 1
      /\ \A n \in 1 .. Len(fs) - 1 : d[n] = KindsOf(fs)[n]
  <2> DEFINE o == KindsOf(fs)
  <2>1. o \in Seq(Kinds) /\ Len(o) = Len(fs) /\ Len(o) - 1 \in 0 .. Len(o)
    BY <1>1, <1>3
  <2>2. d = SubSeq(o, 1, Len(o) - 1)
    BY DEF Front
  <2> HIDE DEF o, d
  <2>3. /\ SubSeq(o, 1, Len(o) - 1) \in Seq(Kinds)
        /\ Len(SubSeq(o, 1, Len(o) - 1)) = Len(o) - 1
        /\ \A n \in 1 .. Len(o) - 1 : SubSeq(o, 1, Len(o) - 1)[n] = o[n]
    BY <2>1, Cut
  <2> QED
    BY <2>1, <2>2, <2>3 DEF o
<1>5. b \in Seq(Kinds) /\ Len(b) = Len(gs) /\ \A n \in 1 .. Len(gs) : b[n] = gs[n].kind
  BY <1>2, KindsOfType
<1>6. \A n \in 1 .. Len(d) : b[n] = d[n]
  <2> HIDE DEF b, d, gs
  <2> TAKE n \in 1 .. Len(d)
  <2>1. n \in 1 .. Len(fs) - 1 /\ n \in 1 .. Len(fs) /\ n \in 1 .. Len(gs)
    BY <1>1, <1>2, <1>4
  <2> QED
    BY <1>2, <1>3, <1>4, <1>5, <2>1
<1> HIDE DEF b, d, gs
<1> QED
  BY <1>1, <1>2, <1>4, <1>5, <1>6, SeqEqual DEF b, d, gs
-----------------------------------------------------------------------------
\* The grammar refuses before rest only for a comma and white space.
LEMMA ExcusedLooking ==
  ASSUME pc \in Looking \ {"rest"}, Excused(Before)
  PROVE  Before = Dead /\ SpacedComma
  BY DEF Excused, At, Looking, Outcomes

\* Most steps go on behind the character that they look at.
LEMMA StillRead ==
  ASSUME Known, pc \in Looking \ {"comma"}, UNCHANGED <<text, pos, c>>,
         \/ pc' = "skip" /\ then' \in Looking \ {"comma", "top"}
         \/ pc' \in {"value", "key", "return", "accepted", "rejected"}
         \/ pc' = "comma" /\ c = Comma
         \/ pc' = "finish" /\ IsNUL(c)
  PROVE  TextRead'
<1>1. pos = Len(text) /\ pos > 0 /\ c = text[pos] /\ AtEnd = (c = NUL)
  BY LookingAt DEF Looking
<1>2. \A n \in 1 .. Len(text) - 1 : text[n] # NUL
  BY DEF Known, TextRead
<1>3. c = Space => pc = "comma"
  BY DEF Known, TextRead
<1>4. AtEnd' = AtEnd
  BY Staying
<1>5. ~ pos < Len(text) /\ Len(text) \in Nat
  <2>1. Len(text) \in Nat
    BY KnownText
  <2> QED
    BY <1>1, <2>1
<1>6. pc' # "number" /\ pc' # "overrun" /\ pc' # "top" /\ (pc' = "comma" => c = Comma)
      /\ (pc' = "finish" => IsNUL(c)) /\ (pc' = "skip" => then' \in Looking \ {"comma", "top"})
  BY <1>1, <1>4
<1> QED
  BY <1>1, <1>2, <1>3, <1>4, <1>5, <1>6 DEF TextRead

\* A step that throws says no to a text that the grammar says no to.
LEMMA Rejects ==
  ASSUME pc' = "rejected" PROVE InStep'
  BY DEF InStep, Looking

LEMMA Accepts ==
  ASSUME pc' = "accepted" PROVE InStep'
  BY DEF InStep, Looking

\* What the grammar does with a symbol, by what it expects.
LEMMA OnSpace ==
  ASSUME NEW m \in States
  PROVE  /\ Accept(m, Space).expect = m.expect /\ Accept(m, Space).open = m.open
         /\ Accept(m, Space).digit = FALSE
         /\ ~ m.digit => Accept(m, Space) = m
<1>1. Accept(m, Space) = [m EXCEPT !.digit = FALSE]
  BY Zenon DEF Accept, Space
<1> QED
  BY <1>1 DEF States

LEMMA OnDigit ==
  ASSUME NEW m \in States
  PROVE  /\ m.digit => Accept(m, "1") = m
         /\ ~ m.digit /\ m.expect \in Starts => Accept(m, "1") = Behind(m.open, TRUE)
         /\ ~ m.digit /\ m.expect \notin Starts => Accept(m, "1") = Dead
<1>1. m.digit => Accept(m, "1") = m
  BY Zenon DEF Accept
<1>2. ~ m.digit /\ m.expect \in Starts => Accept(m, "1") = Behind(m.open, TRUE)
  BY Zenon DEF Accept
<1>3. ~ m.digit /\ m.expect \notin Starts => Accept(m, "1") = Dead
  BY Zenon DEF Accept
<1> QED
  BY <1>1, <1>2, <1>3

LEMMA OnWord ==
  ASSUME NEW m \in States, NEW ch \in {"s", "w"}
  PROVE  /\ m.expect \in Starts => Accept(m, ch) = Behind(m.open, FALSE)
         /\ m.expect \notin Starts \cup {"key", "keyOrClose"} => Accept(m, ch) = Dead
<1>1. m.expect \in Starts => Accept(m, ch) = Behind(m.open, FALSE)
  BY Zenon DEF Accept, Starts
<1>2. m.expect \notin Starts \cup {"key", "keyOrClose"} => Accept(m, ch) = Dead
  BY Zenon DEF Accept, Starts
<1> QED
  BY <1>1, <1>2

LEMMA OnOpen ==
  ASSUME NEW m \in States, m.expect \in Opens
  PROVE  /\ Accept(m, "[") = Enter(m, "array", "valueOrClose")
         /\ Accept(m, "{") = Enter(m, "object", "keyOrClose")
<1>1. Accept(m, "[") = Enter(m, "array", "valueOrClose")
  BY Zenon DEF Accept, Opens
<1>2. Accept(m, "{") = Enter(m, "object", "keyOrClose")
  BY Zenon DEF Accept, Opens
<1> QED
  BY <1>1, <1>2

LEMMA OnKey ==
  ASSUME NEW m \in States, m.expect \in {"key", "keyOrClose"}
  PROVE  Accept(m, "s") = Expect(m, "colon")
  BY Zenon DEF Accept, Starts

LEMMA OnColon ==
  ASSUME NEW m \in States, m.expect = "colon"
  PROVE  Accept(m, ":") = Expect(m, "value")
  BY Zenon DEF Accept

LEMMA OnComma ==
  ASSUME NEW m \in States, m.expect = "separator"
  PROVE  /\ Inside(m, "array") => Accept(m, Comma) = Expect(m, "value")
         /\ Inside(m, "object") => Accept(m, Comma) = Expect(m, "key")
<1>1. Inside(m, "array") => Accept(m, ",") = Expect(m, "value")
  BY Zenon DEF Accept, Inside
<1>2. Inside(m, "object") => Accept(m, ",") = Expect(m, "key")
  BY Zenon DEF Accept, Inside
<1> QED
  BY <1>1, <1>2, Zenon DEF Comma

LEMMA OnClose ==
  ASSUME NEW m \in States
  PROVE  /\ m.expect \in {"separator", "valueOrClose"} /\ Inside(m, "array")
              => Accept(m, "]") = Behind(Front(m.open), FALSE)
         /\ m.expect \in {"separator", "keyOrClose"} /\ Inside(m, "object")
              => Accept(m, Brace) = Behind(Front(m.open), FALSE)
<1>1. m.expect \in {"separator", "valueOrClose"} /\ Inside(m, "array")
        => Accept(m, "]") = Behind(Front(m.open), FALSE)
  BY Zenon DEF Accept
<1>2. m.expect \in {"separator", "keyOrClose"} /\ Inside(m, "object")
        => Accept(m, "}") = Behind(Front(m.open), FALSE)
  BY Zenon DEF Accept
<1> QED
  BY <1>1, <1>2, Zenon DEF Brace

\* Where it has no use for a symbol.
LEMMA OnOther ==
  ASSUME NEW m \in States, NEW ch, ch # Space, ~ (ch = "1" /\ m.digit)
  PROVE  /\ m.expect \in Opens /\ ch \notin {"[", "{", "s", "w", "1"}
              /\ (m.expect = "valueOrClose" => ch # "]") => Accept(m, ch) = Dead
         /\ m.expect \in {"key", "keyOrClose"} /\ ch # "s"
              /\ (m.expect = "keyOrClose" => ch # Brace) => Accept(m, ch) = Dead
         /\ m.expect = "colon" /\ ch # ":" => Accept(m, ch) = Dead
         /\ m.expect = "separator" /\ Inside(m, "array") /\ ch \notin {Comma, "]"}
              => Accept(m, ch) = Dead
         /\ m.expect = "separator" /\ Inside(m, "object") /\ ch \notin {Comma, Brace}
              => Accept(m, ch) = Dead
         /\ m.expect = "end" => Accept(m, ch) = Dead
<1> USE DEF Accept, Space, Comma, Brace
<1>1. m.expect \in Opens /\ ch \notin {"[", "{", "s", "w", "1"}
        /\ (m.expect = "valueOrClose" => ch # "]") => Accept(m, ch) = Dead
  BY Zenon DEF Opens, Starts
<1>2. m.expect \in {"key", "keyOrClose"} /\ ch # "s"
        /\ (m.expect = "keyOrClose" => ch # Brace) => Accept(m, ch) = Dead
  BY Zenon DEF Opens, Starts
<1>3. m.expect = "colon" /\ ch # ":" => Accept(m, ch) = Dead
  BY Zenon DEF Opens, Starts
<1>4. m.expect = "separator" /\ Inside(m, "array") /\ ch \notin {Comma, "]"}
        => Accept(m, ch) = Dead
  BY Zenon DEF Opens, Starts, Inside
<1>5. m.expect = "separator" /\ Inside(m, "object") /\ ch \notin {Comma, Brace}
        => Accept(m, ch) = Dead
  BY Zenon DEF Opens, Starts, Inside
<1>6. m.expect = "end" => Accept(m, ch) = Dead
  BY Zenon DEF Opens, Starts
<1> QED
  BY <1>1, <1>2, <1>3, <1>4, <1>5, <1>6

\* The calls in progress and the grammar's stack.
LEMMA CallsNow ==
  ASSUME Known
  PROVE  /\ frames \in Seq(Frames) /\ Calls \in Seq(Kinds)
         /\ Len(Calls) = Len(frames) /\ Len(frames) \in Nat
         /\ Calls = <<>> <=> frames = <<>>
         /\ frames # <<>> => Calls # <<>> /\ Last(Calls) = Top.kind /\ Top.kind \in Kinds
<1>1. frames \in Seq(Frames)
  BY DEF Known, IInv, TypeOK, Frames
<1>2. frames # <<>> => Last(frames) \in Frames
  <2>1. frames # <<>> => Len(frames) \in 1 .. Len(frames)
    BY <1>1, EmptySeq
  <2> QED
    BY <1>1, <2>1, ElementOfSeq DEF Last
<1> QED
  BY <1>1, <1>2, KindsOfType DEF Calls, Top, Frames, Kinds

LEMMA CallsPop ==
  ASSUME Known, frames # <<>>, frames' = Front(frames)
  PROVE  /\ Calls' = Front(Calls) /\ Len(frames') = Len(frames) - 1
         /\ Calls' = <<>> <=> frames' = <<>>
<1>1. frames \in Seq(Frames)
  BY CallsNow
<1>2. /\ KindsOf(Front(frames)) = Front(Calls) /\ Front(frames) \in Seq(Frames)
      /\ Len(Front(frames)) = Len(frames) - 1
  BY <1>1, KindsOfPop DEF Calls
<1>3. KindsOf(Front(frames)) = <<>> <=> Front(frames) = <<>>
  BY <1>2, KindsOfType
<1> QED
  BY <1>2, <1>3 DEF Calls

LEMMA CallsPush ==
  ASSUME Known, NEW k \in Kinds, frames' = Append(frames, [kind |-> k, top |-> Len(stack)])
  PROVE  Calls' = Append(Calls, k) /\ frames' # <<>>
<1>1. frames \in Seq(Frames)
  BY CallsNow
<1> DEFINE f == [kind |-> k, top |-> Len(stack)]
<1>2. f \in Frames /\ f.kind = k
  BY DEF Known, IInv, StackOK, Frames, Kinds
<1> HIDE DEF f
<1>3. KindsOf(Append(frames, f)) = Append(KindsOf(frames), k)
  BY <1>1, <1>2, KindsOfPush
<1>4. Append(frames, f) # <<>>
  BY <1>1, <1>2
<1> QED
  BY <1>3, <1>4 DEF Calls, f

LEMMA CallsStay == ASSUME UNCHANGED frames PROVE Calls' = Calls
  BY DEF Calls
-----------------------------------------------------------------------------
\* The steps keep the parser and the grammar together.
Together == TextRead /\ InStep

LEMMA SkipTogether == ASSUME Known, Skip PROVE Together'
<1>1. PICK ch \in Characters :
        /\ Read(ch) /\ c' = ch
        /\ IF ch = Space THEN UNCHANGED <<pc, then>> ELSE Goto(then)
  BY DEF Skip, Characters
<1>2. pc = "skip" /\ UNCHANGED <<frames, val>> /\ ~ AtEnd
  BY <1>1, ReadStep DEF Skip
<1>3. /\ pos' = pos + 1 /\ pos' = Len(text') /\ text'[pos'] = ch /\ pos' > 0
      /\ \A i \in 1 .. pos' - 1 : text'[i] = text[i] /\ text'[i] # NUL
      /\ pos < Len(text) => ch = text[pos + 1]
      /\ pos > 0 /\ text[pos] = Space => ch # Space
      /\ SpacedComma => SpacedComma'
      /\ Now \in States /\ Before' = Now
      /\ AtEnd' = (ch = NUL)
      /\ Now' = IF ch = NUL THEN Now ELSE Accept(Now, ch)
  BY <1>1, ReadStep
<1>4. TextRead /\ Skipping /\ then \in Looking \ {"comma"} /\ pos \in Nat /\ Len(text') \in Nat
  BY <1>2, <1>3, KnownText DEF Known, TextRead, InStep
<1>5. \/ Excused(Now)
      \/ /\ Expected(then, Now)
         /\ then \in {"next", "rest"} => NumberEnds(Now)
         /\ then = "key" /\ Now.expect = "key" => CommaSpace(pos)
         /\ then = "value" => frames # <<>> /\ Now.expect = "value"
  BY <1>2, <1>4 DEF Skipping
<1>6. Calls' = Calls
  BY <1>2, CallsStay
<1>7. CASE ch = Space
  <2>1. pc' = "skip" /\ then' = then /\ ch # NUL /\ At' = At
    BY <1>1, <1>2, <1>7 DEF Space, NUL, At
  <2>2. TextRead'
    <3>1. pc = "skip" /\ then = "top" => \A n \in 1 .. pos : text[n] = Space
      BY <1>4 DEF TextRead
    <3>2. then = "top" => \A n \in 1 .. pos' : text'[n] = Space
      BY <1>2, <1>3, <1>4, <1>7, <3>1
    <3>3. \A n \in 1 .. Len(text') - 1 : text'[n] # NUL
      BY <1>3
    <3> QED
      BY <1>3, <1>4, <2>1, <3>2, <3>3 DEF TextRead, Looking
  <2>3. /\ Now' = Accept(Now, Space) /\ ~ AtEnd'
        /\ Now'.expect = Now.expect /\ Now'.open = Now.open /\ Now'.digit = FALSE
        /\ ~ Now.digit => Now' = Now
    BY <1>3, <1>7, <2>1, OnSpace
  <2>4. CASE Excused(Now)
    <3>1. Now' = Dead
      BY <1>3, <1>7, <2>1, <2>4, DeadStays DEF Excused
    <3>2. Excused(Now)'
      BY <1>2, <1>3, <2>1, <2>4, <3>1 DEF Excused, IsScalar
    <3> QED
      BY <2>1, <2>2, <2>3, <3>2 DEF Together, InStep, Skipping, Looking
  <2>5. CASE ~ Excused(Now)
    <3>1. Expected(then, Now)'
      <4>1. Now = Start(UseRFC4627) => Now' = Now
        BY <2>3 DEF Start
      <4>2. Expected(then, Now) /\ then \in Looking
        BY <1>4, <1>5, <2>5
      <4> QED
        BY <1>2, <1>6, <2>1, <2>3, <4>1, <4>2 DEF Expected, Complete, IsScalar, Looking
    <3>2. ~ (then = "key" /\ Now.expect = "key")
      BY <1>3, <1>4, <1>5, <1>7, <2>5 DEF CommaSpace
    <3>3. Skipping'
      BY <1>2, <1>5, <2>1, <2>3, <2>5, <3>1, <3>2 DEF Skipping, NumberEnds
    <3> QED
      BY <2>1, <2>2, <3>3 DEF Together, InStep, Looking
  <2> QED
    BY <2>4, <2>5
<1>8. CASE ch # Space
  <2>1. pc' = then /\ then' = then /\ pc' \in Looking /\ c' = ch
    BY <1>1, <1>4, <1>8 DEF Goto
  <2>2. TextRead'
    <3>1. pc = "skip" /\ then = "top" => \A n \in 1 .. pos : text[n] = Space
      BY <1>4 DEF TextRead
    <3>2. then = "top" => \A n \in 1 .. pos' - 1 : text'[n] = Space
      <4>1. pos' - 1 = pos /\ \A n \in 1 .. pos' - 1 : text'[n] = text[n]
        BY <1>3, <1>4
      <4> QED
        BY <1>2, <3>1, <4>1
    <3>3. \A n \in 1 .. Len(text') - 1 : text'[n] # NUL
      BY <1>3
    <3> QED
      BY <1>3, <1>4, <1>8, <2>1, <3>2, <3>3 DEF TextRead, Looking
  <2>3. CASE Excused(Now)
    <3>1. At' = At
      BY <1>2, <1>4, <2>1 DEF At, Looking
    <3>2. Excused(Before)'
      BY <1>2, <1>3, <2>3, <3>1 DEF Excused, IsScalar
    <3> QED
      BY <2>1, <2>2, <3>2 DEF Together, InStep, LooksAt, Looking
  <2>4. CASE ~ Excused(Now)
    <3>1. Expected(pc, Before)'
      BY <1>2, <1>3, <1>4, <1>5, <1>6, <2>1, <2>4
      DEF Expected, Complete, IsScalar, Looking
    <3>2. then \in {"next", "rest"} => ch # "1" \/ ~ Now.digit
      BY <1>3, <1>5, <2>4 DEF NumberEnds
    <3>3. then = "key" /\ Now.expect = "key" => CommaSpace(pos - 1)'
      BY <1>3, <1>4, <1>5, <2>4 DEF CommaSpace
    <3>4. then = "value" => Now.expect # "valueOrClose"
      BY <1>5, <2>4
    <3>5. LooksAt'
      <4>1. pc' \in {"next", "comma", "rest"} => c' # "1" \/ ~ Before'.digit
        BY <1>3, <1>4, <2>1, <3>2
      <4>2. pc' = "key" /\ Before'.expect = "key" => CommaSpace(pos - 1)'
        BY <1>3, <2>1, <3>3
      <4>3. pc' = "value" => Before'.expect # "valueOrClose"
        BY <1>3, <2>1, <3>4
      <4> QED
        BY <3>1, <4>1, <4>2, <4>3 DEF LooksAt
    <3> QED
      BY <2>1, <2>2, <3>5 DEF Together, InStep, Looking
  <2> QED
    BY <2>3, <2>4
<1> QED
  BY <1>7, <1>8

LEMMA Ends ==
  ASSUME Known, pc \in Looking \ {"comma"}, UNCHANGED <<text, pos, c>>,
         pc' \in {"accepted", "rejected"}
  PROVE  Together'
<1>1. TextRead'
  BY StillRead
<1> QED
  BY <1>1 DEF Together, InStep, Looking

\* What a step that goes on behind the character it looked at starts from.
LEMMA LookingOn ==
  ASSUME Known, pc \in Looking, UNCHANGED <<text, pos>>
  PROVE  /\ Before \in States /\ Now \in States /\ LooksAt
         /\ Now' = Now /\ Before' = Before /\ AtEnd' = AtEnd /\ SpacedComma' = SpacedComma
         /\ AtEnd = (c = NUL)
         /\ c = NUL => Now = Before
         /\ c # NUL => Now = Accept(Before, c)
         /\ pc # "comma" => c # Space
         /\ Before = Dead => Now = Dead
<1>1. /\ Before \in States /\ Now \in States
      /\ AtEnd = (c = NUL)
      /\ c = NUL => Now = Before
      /\ c # NUL => Now = Accept(Before, c)
  BY LookingAt DEF Looking
<1>2. LooksAt /\ (pc # "comma" => c # Space)
  BY DEF Known, InStep, TextRead
<1>3. Before = Dead => Now = Dead
  BY <1>1, DeadStays
<1> QED
  BY <1>1, <1>2, <1>3, Staying

LEMMA TopValueTogether == ASSUME Known, TopValue PROVE Together'
<1>1. /\ pc = "top" /\ pc' = "value" /\ UNCHANGED <<text, pos, c, frames, val>>
  BY DEF TopValue, Goto
<1>2. TextRead'
  BY <1>1, StillRead DEF Looking
<1>3. LooksAt /\ Before' = Before /\ SpacedComma' = SpacedComma
  BY <1>1, LookingOn DEF Looking
<1>4. frames = <<>>
  BY <1>1 DEF Known, IInv, Places, At
<1>5. LooksAt'
  <2>1. CASE Excused(Before)
    <3>1. Excused(Before)'
      BY <1>1, <1>3, <2>1, ExcusedLooking DEF Excused, Looking
    <3> QED
      BY <3>1 DEF LooksAt
  <2>2. CASE ~ Excused(Before)
    <3>1. Before = Start(UseRFC4627) /\ ~ Before.digit
      BY <1>1, <1>3, <2>2 DEF LooksAt, Expected, Start
    <3>2. Expected(pc, Before)'
      BY <1>1, <1>3, <1>4, <3>1 DEF Expected
    <3> QED
      BY <1>1, <1>4, <3>2 DEF LooksAt
  <2> QED
    BY <2>1, <2>2
<1> QED
  BY <1>1, <1>2, <1>5 DEF Together, InStep, Looking

\* Where a value begins.
LEMMA ValueExpected ==
  ASSUME Known, pc = "value", ~ Excused(Before)
  PROVE  /\ ~ Before.digit /\ Before.open = Calls /\ Before.expect \in Opens
         /\ Before.expect = "container" => frames = <<>> /\ UseRFC4627
         /\ frames = <<>> /\ UseRFC4627 => Before.expect = "container"
         /\ frames = <<>> => Before.expect # "valueOrClose"
         /\ Before.expect = "valueOrClose" => c # "]"
<1>1. LooksAt
  BY DEF Known, InStep, Looking
<1>2. /\ ~ Before.digit
      /\ IF frames = <<>> THEN Before = Start(UseRFC4627)
                          ELSE Before.expect \in Starts /\ Before.open = Calls
      /\ frames # <<>> /\ Before.expect = "valueOrClose" => c # "]"
  BY <1>1 DEF LooksAt, Expected
<1>3. frames = <<>> => Calls = <<>>
  BY CallsNow
<1> QED
  BY <1>2, <1>3 DEF Start, Starts, Opens

LEMMA CallTogether ==
  ASSUME Known, pc = "value", UNCHANGED <<text, pos, c, val>>, c # NUL,
         NEW k \in Kinds, NEW l, l = IF k = "array" THEN "first" ELSE "key",
         c = IF k = "array" THEN "[" ELSE LBrace,
         frames' = Append(frames, [kind |-> k, top |-> Len(stack)]), SkipTo(l)
  PROVE  Together'
<1>1. pc' = "skip" /\ then' = l /\ l \in Looking \ {"comma", "top"}
  BY DEF SkipTo, Looking
<1>2. TextRead'
  BY <1>1, StillRead DEF Looking
<1>3. /\ Before \in States /\ Now \in States
      /\ Now' = Now /\ SpacedComma' = SpacedComma /\ AtEnd' = AtEnd /\ ~ AtEnd
      /\ Now = Accept(Before, c) /\ (Before = Dead => Now = Dead)
  BY LookingOn DEF Looking
<1>4. Skipping'
  <2>1. CASE Excused(Before)
    <3>1. Excused(Now)'
      BY <1>3, <2>1, ExcusedLooking DEF Excused, Looking
    <3> QED
      BY <1>3, <3>1 DEF Skipping
  <2>2. CASE ~ Excused(Before)
    <3>1. Before.open = Calls /\ Before.expect \in Opens
      BY <2>2, ValueExpected
    <3>2. Now = Enter(Before, k, IF k = "array" THEN "valueOrClose" ELSE "keyOrClose")
      BY <1>3, <3>1, OnOpen DEF Kinds, LBrace
    <3>3. /\ Now.open = Append(Calls, k) /\ ~ Now.digit
          /\ Now.expect = IF k = "array" THEN "valueOrClose" ELSE "keyOrClose"
      BY <3>1, <3>2 DEF Enter
    <3>4. Calls' = Append(Calls, k)
      BY CallsPush
    <3>5. Expected(then, Now)'
      BY <1>1, <1>3, <3>3, <3>4 DEF Expected, Kinds
    <3> QED
      BY <1>1, <1>3, <3>3, <3>5 DEF Skipping, Kinds
  <2> QED
    BY <2>1, <2>2
<1> QED
  BY <1>1, <1>2, <1>4 DEF Together, InStep, Looking

LEMMA ParseWordTogether == ASSUME Known, ParseWord PROVE Together'
<1>1. /\ pc = "value" /\ c \in {"s", "w"} /\ pc' = "return" /\ val' = Scalar(c)
      /\ UNCHANGED <<text, pos, c, frames>>
  BY DEF ParseWord, Return, Goto
<1>2. TextRead'
  BY <1>1, StillRead DEF Looking
<1>3. /\ Before \in States /\ Now \in States
      /\ Now' = Now /\ SpacedComma' = SpacedComma /\ AtEnd' = AtEnd /\ ~ AtEnd
      /\ Now = Accept(Before, c) /\ (Before = Dead => Now = Dead)
  BY <1>1, LookingOn DEF Looking, NUL
<1>4. IsScalar' /\ At' = "return"
  BY <1>1 DEF IsScalar, Scalar, At
<1>5. Excused(Now)' \/ (Complete(Now)' /\ ~ Now.digit)
  <2>1. CASE Excused(Before)
    BY <1>1, <1>3, <2>1, ExcusedLooking DEF Excused, Looking
  <2>2. CASE ~ Excused(Before) /\ Before.expect = "container"
    <3>1. Now = Dead /\ frames = <<>> /\ UseRFC4627
      BY <1>1, <1>3, <2>2, OnWord, ValueExpected DEF Starts
    <3> QED
      BY <1>1, <1>3, <1>4, <3>1 DEF Excused
  <2>3. CASE ~ Excused(Before) /\ Before.expect # "container"
    <3>1. Now = Behind(Calls, FALSE) /\ (frames = <<>> => ~ UseRFC4627)
      BY <1>1, <1>3, <2>3, OnWord, ValueExpected DEF Starts, Opens
    <3>2. Calls' = Calls /\ (Calls = <<>> <=> frames = <<>>)
      BY <1>1, CallsStay, CallsNow
    <3> QED
      BY <1>1, <1>3, <3>1, <3>2 DEF Complete, Behind
  <2> QED
    BY <2>1, <2>2, <2>3
<1>6. Returning'
  BY <1>3, <1>5 DEF Returning, NumberEnds
<1> QED
  BY <1>1, <1>2, <1>6 DEF Together, InStep, Looking

LEMMA ParseUnclosedTogether == ASSUME Known, ParseUnclosed PROVE Together'
<1>1. /\ pc = "value" /\ c = "e" /\ RunOut /\ pc' = "return" /\ val' = Scalar("s")
      /\ UNCHANGED <<c, frames>>
  BY DEF ParseUnclosed, Return, Goto
<1>2. /\ pos' = Len(text') /\ pos' > 1 /\ text'[pos'] = NUL /\ text'[pos' - 1] = "e"
      /\ \A i \in 1 .. pos' - 1 : text'[i] # NUL
      /\ AtEnd' /\ Now' = Dead
  BY <1>1, RunOutStep DEF Looking, Unclosed
<1>3. TextRead'
  BY <1>1, <1>2 DEF TextRead, Looking
<1>4. CutShort(Now)'
  BY <1>1, <1>2 DEF CutShort, IsScalar, Scalar, Dead
<1> QED
  BY <1>1, <1>2, <1>3, <1>4 DEF Together, InStep, Looking, Returning

LEMMA ParseNumberTogether == ASSUME Known, ParseNumber PROVE Together'
<1>1. PICK ch \in Characters :
        /\ Look(ch)
        /\ IF ch = "1" THEN pos' = pos + 1 /\ Goto("number") /\ UNCHANGED val
                       ELSE pos' = pos /\ Return(Scalar("1"))
  BY DEF ParseNumber, Characters
<1>2. /\ (pc = "value" /\ c = "1") \/ pc = "number"
      /\ UNCHANGED <<c, frames>>
  BY DEF ParseNumber
<1>3. /\ ~ AtEnd /\ (SpacedComma => SpacedComma')
      /\ text' \in Seq(Characters) /\ Len(text') = pos + 1 /\ text'[pos + 1] = ch
      /\ \A i \in 1 .. pos : text'[i] = text[i] /\ text'[i] # NUL
      /\ Now \in States
      /\ After(SubSeq(text', 1, pos), UseRFC4627) = Now
      /\ After(SubSeq(text', 1, pos + 1), UseRFC4627) = Accept(Now, ch)
  BY <1>1, LookStep
<1>4. pos = Len(text) /\ pos > 0 /\ pos \in Nat /\ text[pos] = "1" /\ Before \in States
      /\ (pc = "value" => Now = Accept(Before, "1"))
  BY <1>2, LookingAt, KnownText DEF Looking, NUL, Known, TextRead
<1>5. \/ Now = Dead /\ SpacedComma
      \/ Now = Dead /\ frames = <<>> /\ UseRFC4627
      \/ Now.digit /\ Now.open = Calls /\ Now.expect = (IF frames = <<>> THEN "end" ELSE "separator")
         /\ ~ (frames = <<>> /\ UseRFC4627)
  <2>1. CASE pc = "number"
    <3>1. Numbering
      BY <2>1 DEF Known, InStep
    <3> QED
      BY <2>1, <3>1 DEF Numbering, Excused, Complete
  <2>2. CASE pc = "value" /\ Excused(Before)
    BY <1>4, <2>2, ExcusedLooking, DeadStays DEF Looking
  <2>3. CASE pc = "value" /\ ~ Excused(Before) /\ Before.expect = "container"
    BY <1>4, <2>3, OnDigit, ValueExpected DEF Starts
  <2>4. CASE pc = "value" /\ ~ Excused(Before) /\ Before.expect # "container"
    <3>1. Now = Behind(Calls, TRUE) /\ (frames = <<>> => ~ UseRFC4627)
      BY <1>4, <2>4, OnDigit, ValueExpected DEF Starts, Opens
    <3> QED
      BY <3>1, CallsNow DEF Behind
  <2> QED
    BY <1>2, <2>1, <2>2, <2>3, <2>4
<1>6. Calls' = Calls
  BY <1>2, CallsStay
<1>7. CASE ch = "1"
  <2>1. pos' = pos + 1 /\ pc' = "number" /\ ~ AtEnd'
    BY <1>1, <1>3, <1>7 DEF Goto, AtEnd, NUL
  <2>2. Now' = Accept(Now, "1")
    BY <1>3, <1>7, <2>1 DEF Now, Grammar
  <2>3. Now' = Now
    BY <1>3, <1>5, <2>2, DeadStays, OnDigit
  <2>4. Excused(Now)' \/ (Complete(Now)' /\ Now'.digit)
    BY <1>2, <1>3, <1>5, <1>6, <2>1, <2>3 DEF Excused, Complete
  <2>5. TextRead'
    BY <1>3, <1>4, <1>7, <2>1 DEF TextRead, Looking
  <2> QED
    BY <2>1, <2>4, <2>5 DEF Together, InStep, Looking, Numbering
<1>8. CASE ch # "1"
  <2>1. pos' = pos /\ pc' = "return" /\ ~ AtEnd' /\ IsScalar' /\ At' = "return"
    BY <1>1, <1>3, <1>4, <1>8 DEF Return, Goto, AtEnd, NUL, IsScalar, Scalar, At
  <2>2. Now' = Now
    BY <1>3, <2>1 DEF Now, Grammar
  <2>3. Excused(Now)' \/ Complete(Now)'
    BY <1>2, <1>3, <1>5, <1>6, <2>1, <2>2 DEF Excused, Complete
  <2>4. NumberEnds(Now)'
    BY <1>3, <1>4, <1>8, <2>1 DEF NumberEnds
  <2>5. TextRead'
    BY <1>3, <1>4, <2>1 DEF TextRead, Looking
  <2> QED
    BY <2>1, <2>3, <2>4, <2>5 DEF Together, InStep, Looking, Returning
<1> QED
  BY <1>7, <1>8

\* A container that is closed is a value that is complete, or cut short.
LEMMA CloseTogether ==
  ASSUME Known, pc \in Looking \ {"comma", "rest"}, UNCHANGED <<text, pos, c>>,
         frames # <<>>, frames' = Front(frames), pc' = "return", val'.kind # "scalar",
         \/ Now = Dead /\ SpacedComma
         \/ AtEnd /\ Now.open = Calls /\ Now.expect # "end"
         \/ ~ AtEnd /\ Now = Behind(Front(Calls), FALSE)
  PROVE  Together'
<1>1. TextRead'
  BY StillRead
<1>2. /\ Now' = Now /\ SpacedComma' = SpacedComma /\ AtEnd' = AtEnd
  BY LookingOn
<1>3. /\ Calls' = Front(Calls) /\ Len(frames') = Len(frames) - 1
      /\ Calls' = <<>> <=> frames' = <<>>
  BY CallsPop
<1>4. Len(Calls) = Len(frames) /\ Len(frames) \in Nat
  BY CallsNow
<1>5. ~ IsScalar'
  BY DEF IsScalar
<1>6. Returning'
  <2>1. CASE Now = Dead /\ SpacedComma
    <3>1. Excused(Now)' /\ Now'.expect # "end"
      BY <1>2, <2>1 DEF Excused, Dead
    <3> QED
      BY <3>1 DEF Returning, CutShort
  <2>2. CASE AtEnd /\ Now.open = Calls /\ Now.expect # "end"
    <3>1. Len(Now'.open) = Len(frames') + 1
      BY <1>2, <1>3, <1>4, <2>2
    <3> QED
      BY <1>2, <2>2, <3>1 DEF Returning, CutShort
  <2>3. CASE ~ AtEnd /\ Now = Behind(Front(Calls), FALSE)
    <3>1. Complete(Now)' /\ ~ Now'.digit
      BY <1>2, <1>3, <1>5, <2>3 DEF Complete, Behind
    <3> QED
      BY <1>2, <2>3, <3>1 DEF Returning, NumberEnds
  <2> QED
    BY <2>1, <2>2, <2>3
<1> QED
  BY <1>1, <1>6 DEF Together, InStep, Looking

LEMMA Closing ==
  ASSUME NEW v, Close(v)
  PROVE  frames' = Front(frames) /\ pc' = "return" /\ val' = v
  BY DEF Close, Return, Goto

\* It goes on behind c, which is in its place.
LEMMA GoOnTogether ==
  ASSUME Known, pc \in Looking \ {"comma", "rest"}, UNCHANGED <<text, pos, c, frames, val>>,
         NEW l \in {"element", "colon", "value"}, SkipTo(l), c # NUL,
         \/ Now = Dead /\ SpacedComma
         \/ /\ ~ Now.digit /\ Now.open = Calls /\ frames # <<>>
            /\ Now.expect = IF l = "colon" THEN "colon" ELSE "value"
  PROVE  Together'
<1>1. pc' = "skip" /\ then' = l
  BY DEF SkipTo
<1>2. TextRead'
  BY <1>1, StillRead DEF Looking
<1>3. Now' = Now /\ SpacedComma' = SpacedComma /\ AtEnd' = AtEnd /\ ~ AtEnd
  BY LookingOn
<1>4. Calls' = Calls
  BY CallsStay
<1>5. Skipping'
  <2>1. CASE Now = Dead /\ SpacedComma
    BY <1>3, <2>1 DEF Skipping, Excused
  <2>2. CASE /\ ~ Now.digit /\ Now.open = Calls /\ frames # <<>>
             /\ Now.expect = IF l = "colon" THEN "colon" ELSE "value"
    <3>1. Expected(then, Now)'
      BY <1>1, <1>3, <1>4, <2>2 DEF Expected, Starts
    <3> QED
      BY <1>1, <1>3, <2>2, <3>1 DEF Skipping
  <2> QED
    BY <2>1, <2>2
<1> QED
  BY <1>1, <1>2, <1>5 DEF Together, InStep, Looking

LEMMA ArrayEmptyTogether == ASSUME Known, ArrayEmpty PROVE Together'
<1>1. /\ pc = "first" /\ c = "]" /\ frames' = Front(frames) /\ pc' = "return"
      /\ val' = Array(<<>>) /\ UNCHANGED <<text, pos, c>>
  BY DEF ArrayEmpty, Return, Goto
<1>2. frames # <<>> /\ Top.kind = "array"
  BY <1>1 DEF Known, IInv, Places, At
<1>3. /\ Before \in States /\ LooksAt /\ ~ AtEnd /\ Now = Accept(Before, c)
      /\ (Before = Dead => Now = Dead)
  BY <1>1, LookingOn DEF Looking, NUL
<1>4. (Now = Dead /\ SpacedComma) \/ Now = Behind(Front(Calls), FALSE)
  <2>1. CASE Excused(Before)
    BY <1>1, <1>3, <2>1, ExcusedLooking DEF Looking
  <2>2. CASE ~ Excused(Before)
    <3>1. Before.expect = "valueOrClose" /\ Before.open = Calls
      BY <1>1, <1>3, <2>2 DEF LooksAt, Expected
    <3>2. Inside(Before, "array")
      BY <1>2, <3>1, CallsNow DEF Inside
    <3> QED
      BY <1>1, <1>3, <3>1, <3>2, OnClose
  <2> QED
    BY <2>1, <2>2
<1> QED
  BY <1>1, <1>2, <1>3, <1>4, CloseTogether DEF Array, Looking

LEMMA ArrayElementTogether == ASSUME Known, ArrayElement PROVE Together'
<1>1. /\ pc = "element" \/ (pc = "first" /\ c # "]")
      /\ UNCHANGED <<text, pos, c>>
  BY DEF ArrayElement
<1>2. frames # <<>> /\ Top.kind = "array"
  BY <1>1 DEF Known, IInv, Places, At
<1>3. /\ Before \in States /\ LooksAt /\ AtEnd = (c = NUL) /\ (AtEnd => Now = Before)
      /\ Now' = Now /\ Before' = Before /\ AtEnd' = AtEnd /\ SpacedComma' = SpacedComma
  BY <1>1, LookingOn DEF Looking
<1>4. \/ Before = Dead /\ SpacedComma
      \/ /\ ~ Before.digit /\ Before.open = Calls
         /\ Before.expect = IF pc = "element" THEN "value" ELSE "valueOrClose"
  BY <1>1, <1>3, ExcusedLooking DEF LooksAt, Expected, Looking
<1>5. CASE AtEnd
  <2>1. CloseArray
    BY <1>5 DEF ArrayElement
  <2>2. frames' = Front(frames) /\ pc' = "return" /\ val'.kind # "scalar"
    BY <2>1, Closing DEF CloseArray, Array
  <2> QED
    BY <1>1, <1>2, <1>3, <1>4, <1>5, <2>2, CloseTogether DEF Looking
<1>6. CASE ~ AtEnd
  <2>1. pc' = "value" /\ UNCHANGED <<frames, val>>
    BY <1>6 DEF ArrayElement, Goto
  <2>2. TextRead'
    BY <1>1, <2>1, StillRead DEF Looking
  <2>3. Calls' = Calls
    BY <2>1, CallsStay
  <2>4. LooksAt'
    <3>1. CASE Before = Dead /\ SpacedComma
      BY <1>3, <3>1 DEF LooksAt, Excused
    <3>2. CASE /\ ~ Before.digit /\ Before.open = Calls
               /\ Before.expect = IF pc = "element" THEN "value" ELSE "valueOrClose"
      <4>1. Expected(pc, Before)'
        BY <1>2, <1>3, <2>1, <2>3, <3>2 DEF Expected, Starts
      <4> QED
        BY <1>1, <1>3, <2>1, <3>2, <4>1 DEF LooksAt
    <3> QED
      BY <1>4, <3>1, <3>2
  <2> QED
    BY <2>1, <2>2, <2>4 DEF Together, InStep, Looking
<1> QED
  BY <1>5, <1>6

\* What follows a value in a container.
LEMMA NextExpected ==
  ASSUME Known, pc \in {"next", "comma"}, ~ Excused(Before)
  PROVE  /\ Before.expect = "separator" /\ Before.open = Calls /\ Inside(Before, Top.kind)
         /\ c # "1" \/ ~ Before.digit
<1>1. LooksAt /\ frames # <<>>
  BY DEF Known, InStep, IInv, Places, At, Looking
<1> QED
  BY <1>1, CallsNow DEF LooksAt, Expected, Complete, Inside

LEMMA ArrayNextTogether == ASSUME Known, ArrayNext PROVE Together'
<1>1. /\ pc = "next" /\ Top.kind = "array" /\ UNCHANGED <<text, pos, c>>
      /\ \/ c = "]" /\ CloseArray
         \/ c = Comma /\ SkipTo("element") /\ UNCHANGED <<frames, val>>
         \/ Throw
  BY Zenon DEF ArrayNext, Comma
<1>2. frames # <<>>
  BY <1>1 DEF Known, IInv, Places, At
<1>3. /\ Before \in States /\ AtEnd = (c = NUL) /\ (c # NUL => Now = Accept(Before, c))
      /\ (Before = Dead => Now = Dead)
  BY <1>1, LookingOn DEF Looking
<1>4. CASE c = "]" /\ CloseArray
  <2>1. frames' = Front(frames) /\ pc' = "return" /\ val'.kind # "scalar"
    BY <1>4, Closing DEF CloseArray, Array
  <2>2. ~ AtEnd /\ Now = Accept(Before, "]")
    BY <1>3, <1>4 DEF NUL
  <2>3. (Now = Dead /\ SpacedComma) \/ Now = Behind(Front(Calls), FALSE)
    BY <1>1, <1>3, <2>2, ExcusedLooking, NextExpected, OnClose DEF Looking
  <2> QED
    BY <1>1, <1>2, <2>1, <2>2, <2>3, CloseTogether DEF Looking
<1>5. CASE c = Comma /\ SkipTo("element") /\ UNCHANGED <<frames, val>>
  <2>1. c # NUL
    BY <1>5, Zenon DEF Comma, NUL
  <2>2. \/ Now = Dead /\ SpacedComma
        \/ ~ Now.digit /\ Now.open = Calls /\ Now.expect = "value"
    BY <1>1, <1>3, <1>5, <2>1, ExcusedLooking, NextExpected, OnComma DEF Looking, Expect
  <2> QED
    BY <1>1, <1>2, <1>5, <2>1, <2>2, GoOnTogether DEF Looking
<1>6. CASE Throw
  BY <1>1, <1>6, Ends DEF Looking, Throw, Goto
<1> QED
  BY <1>1, <1>4, <1>5, <1>6

LEMMA KeyExpected ==
  ASSUME Known, pc = "key", ~ Excused(Before)
  PROVE  /\ ~ Before.digit /\ Before.open = Calls /\ Inside(Before, "object")
         /\ Before.expect \in {"key", "keyOrClose"}
         /\ Before.expect = "key" => CommaSpace(pos - 1) \/ (c # Brace /\ c # NUL)
<1>1. LooksAt /\ frames # <<>> /\ Top.kind = "object"
  BY DEF Known, InStep, IInv, Places, At, Looking
<1> QED
  BY <1>1, CallsNow DEF LooksAt, Expected, Inside

LEMMA ObjectEndTogether == ASSUME Known, ObjectEnd PROVE Together'
<1>1. /\ pc = "key" /\ (c = Brace \/ AtEnd)
      /\ CloseObject /\ UNCHANGED <<text, pos, c>>
  BY Zenon DEF ObjectEnd, Brace
<1>2. frames # <<>>
  BY <1>1 DEF Known, IInv, Places, At
<1>3. /\ Before \in States /\ AtEnd = (c = NUL)
      /\ (c = NUL => Now = Before) /\ (c # NUL => Now = Accept(Before, c))
      /\ (Before = Dead => Now = Dead)
  BY <1>1, LookingOn DEF Looking
<1>4. frames' = Front(frames) /\ pc' = "return" /\ val'.kind # "scalar"
  BY <1>1, Closing DEF CloseObject, Object
<1>5. \/ Now = Dead /\ SpacedComma
      \/ AtEnd /\ Now.open = Calls /\ Now.expect # "end"
      \/ ~ AtEnd /\ Now = Behind(Front(Calls), FALSE)
  <2>1. CASE Excused(Before)
    BY <1>1, <1>3, <2>1, ExcusedLooking DEF Looking
  <2>2. CASE ~ Excused(Before) /\ AtEnd
    BY <1>1, <1>3, <2>2, KeyExpected
  <2>3. CASE ~ Excused(Before) /\ ~ AtEnd /\ Before.expect = "keyOrClose"
    BY <1>1, <1>3, <2>3, KeyExpected, OnClose
  <2>4. CASE ~ Excused(Before) /\ ~ AtEnd /\ Before.expect = "key"
    <3>1. c = Brace /\ CommaSpace(pos - 1) /\ ~ Before.digit
      BY <1>1, <2>4, KeyExpected
    <3>2. pos = Len(text) /\ text[pos] = Brace /\ pos \in Nat
      BY <1>1, <3>1, LookingAt, KnownText DEF Looking
    <3>3. SpacedComma
      <4>1. /\ pos - 1 > 1 /\ text[pos - 1] = Space /\ text[pos - 1 - 1] = Comma
        BY <3>1 DEF CommaSpace
      <4>2. /\ pos - 2 \in 1 .. Len(text) - 2 /\ text[pos - 2] = Comma
            /\ text[pos - 2 + 1] = Space /\ text[pos - 2 + 2] = Brace
        BY <3>2, <4>1
      <4> HIDE DEF Comma, Brace, Space
      <4> QED
        BY <4>2, Zenon DEF SpacedComma, Comma, Brace
    <3>4. Now = Dead
      <4>1. Brace \notin {"s", "1", Space}
        BY Zenon DEF Brace, Space
      <4> QED
        BY <1>3, <2>4, <3>1, <4>1, OnOther
    <3> QED
      BY <3>3, <3>4
  <2> QED
    BY <1>1, <2>1, <2>2, <2>3, <2>4, KeyExpected
<1> QED
  BY <1>1, <1>2, <1>4, <1>5, CloseTogether DEF Looking

LEMMA ObjectKeyTogether == ASSUME Known, ObjectKey PROVE Together'
<1>1. /\ pc = "key" /\ ~ AtEnd /\ UNCHANGED c
      /\ \/ c = "s" /\ SkipTo("colon") /\ UNCHANGED <<text, pos, frames, val>>
         \/ c = "e" /\ RunOut /\ SkipTo("colon") /\ UNCHANGED <<frames, val>>
         \/ Throw /\ UNCHANGED <<text, pos>>
  BY DEF ObjectKey
<1>2. frames # <<>> /\ pc \in Looking \ {"comma", "rest"}
  BY <1>1 DEF Known, IInv, Places, At, Looking
<1>3. CASE c = "s" /\ SkipTo("colon") /\ UNCHANGED <<text, pos, frames, val>>
  <2>1. /\ Before \in States /\ Now = Accept(Before, "s") /\ c # NUL
        /\ (Before = Dead => Now = Dead)
    BY <1>2, <1>3, LookingOn DEF Looking, NUL
  <2>2. \/ Now = Dead /\ SpacedComma
        \/ ~ Now.digit /\ Now.open = Calls /\ Now.expect = "colon"
    BY <1>1, <1>2, <2>1, ExcusedLooking, KeyExpected, OnKey DEF Expect, Looking
  <2> QED
    BY <1>1, <1>2, <1>3, <2>1, <2>2, GoOnTogether
<1>4. CASE c = "e" /\ RunOut /\ SkipTo("colon") /\ UNCHANGED <<frames, val>>
  <2>1. /\ pos' = Len(text') /\ pos' > 1 /\ text'[pos'] = NUL
        /\ \A i \in 1 .. pos' - 1 : text'[i] # NUL
        /\ AtEnd' /\ Now' = Dead
    BY <1>2, <1>4, RunOutStep DEF Unclosed
  <2>2. pc' = "skip" /\ then' = "colon"
    BY <1>4 DEF SkipTo
  <2>3. TextRead'
    BY <2>1, <2>2 DEF TextRead, Looking
  <2>4. Skipping'
    BY <2>1, <2>2 DEF Skipping, Dead
  <2> QED
    BY <2>2, <2>3, <2>4 DEF Together, InStep, Looking
<1>5. CASE Throw /\ UNCHANGED <<text, pos>>
  BY <1>1, <1>2, <1>5, Ends DEF Throw, Goto
<1> QED
  BY <1>1, <1>3, <1>4, <1>5

LEMMA ObjectColonTogether == ASSUME Known, ObjectColon PROVE Together'
<1>1. /\ pc = "colon" /\ UNCHANGED <<text, pos, c>>
      /\ \/ c = ":" /\ SkipTo("value") /\ UNCHANGED <<frames, val>>
         \/ Throw
  BY DEF ObjectColon
<1>2. frames # <<>> /\ pc \in Looking \ {"comma", "rest"}
  BY <1>1 DEF Known, IInv, Places, At, Looking
<1>3. CASE c = ":" /\ SkipTo("value") /\ UNCHANGED <<frames, val>>
  <2>1. /\ Before \in States /\ Now = Accept(Before, ":") /\ c # NUL /\ LooksAt
        /\ (Before = Dead => Now = Dead)
    BY <1>1, <1>2, <1>3, LookingOn DEF NUL
  <2>2. \/ Now = Dead /\ SpacedComma
        \/ ~ Now.digit /\ Now.open = Calls /\ Now.expect = "value"
    <3>1. CASE Excused(Before)
      BY <1>2, <2>1, <3>1, ExcusedLooking
    <3>2. CASE ~ Excused(Before)
      <4>1. Before.expect = "colon" /\ Before.open = Calls
        BY <1>1, <2>1, <3>2 DEF LooksAt, Expected
      <4> QED
        BY <2>1, <4>1, OnColon DEF Expect
    <3> QED
      BY <3>1, <3>2
  <2> QED
    BY <1>1, <1>2, <1>3, <2>1, <2>2, GoOnTogether
<1>4. CASE Throw
  BY <1>1, <1>2, <1>4, Ends DEF Throw, Goto
<1> QED
  BY <1>1, <1>3, <1>4

LEMMA ObjectNextTogether == ASSUME Known, ObjectNext PROVE Together'
<1>1. /\ pc = "next" /\ Top.kind = "object" /\ UNCHANGED <<text, pos, c>>
      /\ \/ c = Brace /\ CloseObject
         \/ c = Comma /\ Goto("comma") /\ UNCHANGED <<frames, val>>
         \/ Throw
  BY Zenon DEF ObjectNext, Comma, Brace
<1>2. frames # <<>> /\ pc \in Looking \ {"comma", "rest"}
  BY <1>1 DEF Known, IInv, Places, At, Looking
<1>3. /\ Before \in States /\ AtEnd = (c = NUL) /\ (c # NUL => Now = Accept(Before, c))
      /\ Before' = Before /\ SpacedComma' = SpacedComma
      /\ (Before = Dead => Now = Dead)
  BY <1>1, LookingOn DEF Looking
<1>4. CASE c = Brace /\ CloseObject
  <2>1. frames' = Front(frames) /\ pc' = "return" /\ val'.kind # "scalar"
    BY <1>4, Closing DEF CloseObject, Object
  <2>2. c # NUL
    BY <1>4, Zenon DEF Brace, NUL
  <2>3. ~ AtEnd /\ Now = Accept(Before, Brace)
    BY <1>3, <1>4, <2>2
  <2>4. (Now = Dead /\ SpacedComma) \/ Now = Behind(Front(Calls), FALSE)
    BY <1>1, <1>2, <1>3, <2>3, ExcusedLooking, NextExpected, OnClose
  <2> QED
    BY <1>1, <1>2, <2>1, <2>3, <2>4, CloseTogether
<1>5. CASE c = Comma /\ Goto("comma") /\ UNCHANGED <<frames, val>>
  <2>1. pc' = "comma" /\ Calls' = Calls
    BY <1>5, CallsStay DEF Goto
  <2>2. TextRead'
    BY <1>1, <1>2, <1>5, <2>1, StillRead
  <2>3. c # "1"
    BY <1>5, Zenon DEF Comma
  <2>4. LooksAt'
    <3>1. CASE Excused(Before)
      <4>1. Excused(Before)'
        BY <1>2, <1>3, <3>1, ExcusedLooking DEF Excused
      <4> QED
        BY <4>1 DEF LooksAt
    <3>2. CASE ~ Excused(Before)
      <4>1. Before.expect = "separator" /\ Before.open = Calls
        BY <1>1, <3>2, NextExpected
      <4>2. Expected(pc, Before)'
        BY <1>2, <1>3, <1>5, <2>1, <4>1 DEF Expected, Complete
      <4> QED
        BY <1>1, <2>1, <2>3, <4>2 DEF LooksAt
    <3> QED
      BY <3>1, <3>2
  <2> QED
    BY <2>1, <2>2, <2>4 DEF Together, InStep, Looking
<1>6. CASE Throw
  BY <1>1, <1>2, <1>6, Ends DEF Throw, Goto
<1> QED
  BY <1>1, <1>4, <1>5, <1>6

\* Behind the comma between two members.
LEMMA CommaExpected ==
  ASSUME Known, pc = "comma"
  PROVE  /\ frames # <<>> /\ ~ AtEnd
         /\ \/ Now = Dead /\ SpacedComma
            \/ ~ Now.digit /\ Now.open = Calls /\ Now.expect = "key"
         /\ pos = Len(text) /\ text[pos] = Comma
<1>1. frames # <<>> /\ Top.kind = "object" /\ c = Comma
  BY DEF Known, IInv, Places, At, TextRead
<1>2. c # NUL
  BY <1>1, Zenon DEF Comma, NUL
<1>3. /\ Before \in States /\ ~ AtEnd /\ Now = Accept(Before, Comma)
      /\ pos = Len(text) /\ text[pos] = Comma
  BY <1>1, <1>2, LookingAt DEF Looking
<1>4. CASE Excused(Before)
  BY <1>1, <1>3, <1>4, ExcusedLooking, DeadStays DEF Looking
<1>5. CASE ~ Excused(Before)
  BY <1>1, <1>3, <1>5, NextExpected, OnComma DEF Expect
<1> QED
  BY <1>1, <1>3, <1>4, <1>5

LEMMA ObjectCommaTogether == ASSUME Known, ObjectComma PROVE Together'
<1>1. PICK ch \in Characters :
        /\ Read(ch) /\ c' = ch
        /\ \/ Throw
           \/ /\ ch # Brace /\ ch # NUL
              /\ IF ch = Space THEN SkipTo("key") ELSE Goto("key")
              /\ UNCHANGED <<frames, stack, val>>
  BY Zenon DEF ObjectComma, Brace, Characters
<1>2. pc = "comma"
  BY DEF ObjectComma
<1>3. /\ pos' = pos + 1 /\ pos' = Len(text') /\ text'[pos'] = ch /\ pos' > 0
      /\ \A i \in 1 .. pos' - 1 : text'[i] = text[i] /\ text'[i] # NUL
      /\ SpacedComma => SpacedComma'
      /\ Now \in States /\ Before' = Now
      /\ AtEnd' = (ch = NUL)
      /\ Now' = IF ch = NUL THEN Now ELSE Accept(Now, ch)
  BY <1>1, ReadStep
<1>4. /\ frames # <<>>
      /\ \/ Now = Dead /\ SpacedComma
         \/ ~ Now.digit /\ Now.open = Calls /\ Now.expect = "key"
      /\ pos = Len(text) /\ text[pos] = Comma /\ pos \in Nat /\ pos > 0
  BY <1>2, CommaExpected, KnownText, LookingAt DEF Looking
<1>5. \A n \in 1 .. Len(text') - 1 : text'[n] # NUL
  BY <1>3
<1>6. CASE Throw
  <2>1. pc' = "rejected"
    BY <1>6 DEF Throw, Goto
  <2>2. TextRead'
    BY <1>3, <1>5, <2>1 DEF TextRead, Looking
  <2> QED
    BY <2>1, <2>2 DEF Together, InStep, Looking
<1>7. CASE /\ ch # Brace /\ ch # NUL /\ ch = Space
           /\ SkipTo("key") /\ UNCHANGED <<frames, stack, val>>
  <2>1. pc' = "skip" /\ then' = "key" /\ Calls' = Calls
    BY <1>7, CallsStay DEF SkipTo
  <2>2. TextRead'
    BY <1>3, <1>5, <2>1 DEF TextRead, Looking
  <2>3. ~ AtEnd' /\ Now' = Accept(Now, Space)
    BY <1>3, <1>7
  <2>4. CommaSpace(pos)'
    <3>1. pos' > 1 /\ text'[pos' - 1] = Comma /\ text'[pos'] = Space
      BY <1>3, <1>4, <1>7
    <3> QED
      BY <3>1 DEF CommaSpace
  <2>5. Skipping'
    <3>1. CASE Now = Dead /\ SpacedComma
      <4>1. Excused(Now)'
        BY <1>3, <2>3, <3>1, DeadStays DEF Excused
      <4> QED
        BY <2>3, <4>1 DEF Skipping
    <3>2. CASE ~ Now.digit /\ Now.open = Calls /\ Now.expect = "key"
      <4>1. Now' = Now
        BY <1>3, <2>3, <3>2, OnSpace
      <4>2. Expected(then, Now)'
        BY <2>1, <3>2, <4>1 DEF Expected
      <4> QED
        BY <2>1, <2>3, <2>4, <4>2 DEF Skipping
    <3> QED
      BY <1>4, <3>1, <3>2
  <2> QED
    BY <2>1, <2>2, <2>5 DEF Together, InStep, Looking
<1>8. CASE /\ ch # Brace /\ ch # NUL /\ ch # Space
           /\ Goto("key") /\ UNCHANGED <<frames, stack, val>>
  <2>1. pc' = "key" /\ Calls' = Calls
    BY <1>8, CallsStay DEF Goto
  <2>2. TextRead'
    BY <1>1, <1>3, <1>5, <1>8, <2>1 DEF TextRead, Looking
  <2>3. LooksAt'
    <3>1. CASE Now = Dead /\ SpacedComma
      <4>1. Excused(Before)'
        BY <1>3, <3>1 DEF Excused
      <4> QED
        BY <4>1 DEF LooksAt
    <3>2. CASE ~ Now.digit /\ Now.open = Calls /\ Now.expect = "key"
      <4>1. Expected(pc, Before)'
        BY <1>3, <2>1, <3>2 DEF Expected
      <4> QED
        BY <1>1, <1>8, <2>1, <4>1 DEF LooksAt
    <3> QED
      BY <1>4, <3>1, <3>2
  <2> QED
    BY <2>1, <2>2, <2>3 DEF Together, InStep, Looking
<1> QED
  BY <1>1, <1>6, <1>7, <1>8

\* What is returned.
LEMMA ReturnKnown ==
  ASSUME Known, pc = "return", UNCHANGED <<text, pos, c, frames, val>>
  PROVE  /\ Returning /\ TextRead
         /\ Now' = Now /\ AtEnd' = AtEnd /\ SpacedComma' = SpacedComma /\ Calls' = Calls
<1>1. Returning /\ TextRead
  BY DEF Known, InStep
<1> QED
  BY <1>1, Staying, CallsStay

LEMMA ReturnToFrameTogether == ASSUME Known, ReturnToFrame PROVE Together'
<1>1. /\ pc = "return" /\ frames # <<>> /\ pc' = "skip" /\ then' = "next"
      /\ UNCHANGED <<text, pos, c, frames, val>>
  BY DEF ReturnToFrame, SkipTo
<1>2. /\ Returning /\ TextRead
      /\ Now' = Now /\ AtEnd' = AtEnd /\ SpacedComma' = SpacedComma /\ Calls' = Calls
  BY <1>1, ReturnKnown
<1>3. TextRead'
  BY <1>1, <1>2 DEF TextRead, Looking
<1>4. Skipping'
  <2>1. CASE AtEnd
    BY <1>1, <1>2, <2>1 DEF Returning, CutShort, Skipping
  <2>2. CASE ~ AtEnd /\ Excused(Now)
    BY <1>1, <1>2, <2>2 DEF Excused, Skipping
  <2>3. CASE ~ AtEnd /\ Complete(Now) /\ NumberEnds(Now)
    BY <1>1, <1>2, <2>3 DEF Complete, NumberEnds, Expected, Skipping
  <2> QED
    BY <1>2, <2>1, <2>2, <2>3 DEF Returning
<1> QED
  BY <1>1, <1>3, <1>4 DEF Together, InStep, Looking

LEMMA ReturnToTopTogether == ASSUME Known, ReturnToTop PROVE Together'
<1>1. /\ pc = "return" /\ frames = <<>>
      /\ UNCHANGED <<text, pos, c, frames, val>>
      /\ IF AtEnd THEN pc' = "finish" ELSE pc' = "skip" /\ then' = "rest"
  BY DEF ReturnToTop, SkipTo, Goto
<1>2. /\ Returning /\ TextRead
      /\ Now' = Now /\ AtEnd' = AtEnd /\ SpacedComma' = SpacedComma /\ Calls' = Calls
  BY <1>1, ReturnKnown
<1>3. CASE AtEnd
  <2>1. At = "return" /\ pc' = "finish" /\ At' = "finish"
    BY <1>1, <1>3 DEF At
  <2>2. TextRead'
    <3>1. pos = Len(text) /\ pos > 0 /\ ~ pos < Len(text) /\ IsNUL(text[pos])
      BY <1>3, KnownText DEF AtEnd, IsNUL
    <3> QED
      BY <1>1, <1>2, <1>3, <2>1, <3>1 DEF TextRead, Looking
  <2>3. AtEnd' /\ Before' = Now
    BY <1>1, <1>2, <1>3 DEF Now, Before, Grammar
  <2>4. CutShort(Before)'
    BY <1>1, <1>2, <1>3, <2>1, <2>3 DEF Returning, CutShort, Excused, IsScalar
  <2> QED
    BY <2>1, <2>2, <2>3, <2>4 DEF Together, InStep, Looking, Finishing
<1>4. CASE ~ AtEnd
  <2>1. At = "return" /\ pc' = "skip" /\ then' = "rest" /\ At' = "rest"
    BY <1>1, <1>4 DEF At
  <2>2. TextRead'
    BY <1>1, <1>2, <2>1 DEF TextRead, Looking
  <2>3. Skipping'
    <3>1. CASE Excused(Now)
      BY <1>1, <1>2, <1>4, <2>1, <3>1 DEF Excused, Skipping, IsScalar
    <3>2. CASE Complete(Now) /\ NumberEnds(Now)
      BY <1>1, <1>2, <1>4, <2>1, <3>2 DEF Complete, NumberEnds, Expected, Skipping, IsScalar
    <3> QED
      BY <1>2, <1>4, <3>1, <3>2 DEF Returning
  <2> QED
    BY <2>1, <2>2, <2>3 DEF Together, InStep, Looking
<1> QED
  BY <1>3, <1>4

LEMMA RestTogether == ASSUME Known, Rest PROVE Together'
<1>1. pc = "rest" /\ UNCHANGED <<text, pos, c>>
  BY DEF Rest
<1>2. CASE IsNUL(c)
  <2>1. pc' = "finish" /\ UNCHANGED <<frames, val>>
    BY <1>2 DEF Rest, Goto
  <2>2. TextRead'
    BY <1>1, <1>2, <2>1, StillRead DEF Looking
  <2>3. LooksAt /\ Before' = Before /\ SpacedComma' = SpacedComma /\ Calls' = Calls
    BY <1>1, <1>2, <2>1, LookingOn, CallsStay DEF Looking
  <2>4. At = "rest" /\ At' = "finish"
    BY <1>1, <2>1 DEF At
  <2>5. Finishing'
    <3>1. CASE Excused(Before)
      BY <1>1, <2>1, <2>3, <2>4, <3>1 DEF Finishing, Excused, IsScalar
    <3>2. CASE ~ Excused(Before)
      BY <1>1, <2>1, <2>3, <2>4, <3>2 DEF Finishing, LooksAt, Expected, Complete, IsScalar
    <3> QED
      BY <3>1, <3>2
  <2> QED
    BY <2>1, <2>2, <2>5 DEF Together, InStep, Looking
<1>3. CASE ~ IsNUL(c)
  <2>1. Throw
    BY <1>3 DEF Rest
  <2> QED
    BY <1>1, <2>1, Ends DEF Throw, Goto, Looking
<1> QED
  BY <1>2, <1>3

LEMMA FinishTogether == ASSUME Known, Finish PROVE Together'
<1>1. pc = "finish" /\ pc' \in {"accepted", "rejected"} /\ UNCHANGED <<text, pos, c>>
  BY DEF Finish, Throw, Goto
<1>2. TextRead /\ ~ pos < Len(text)
  BY <1>1, KnownText DEF Known, TextRead
<1> QED
  BY <1>1, <1>2 DEF Together, InStep, Looking, TextRead

LEMMA OverrunTogether == ASSUME Known, Overrun PROVE Together'
<1>1. /\ pc = "skip" /\ AtEnd /\ pc' = "overrun" /\ UNCHANGED <<text, pos, c, frames, val>>
  BY DEF Overrun, Goto
<1>2. TextRead /\ Skipping
  BY <1>1 DEF Known, InStep
<1>3. AtEnd' /\ Now' = Now
  BY <1>1, Staying
<1>4. ~ pos < Len(text)
  BY <1>1, KnownText DEF AtEnd
<1>5. TextRead'
  BY <1>1, <1>2, <1>3, <1>4 DEF TextRead, Looking
<1> QED
  BY <1>1, <1>2, <1>3, <1>5 DEF Together, InStep, Skipping, Looking

LEMMA StutterTogether == ASSUME Known, UNCHANGED vars PROVE Together'
<1>1. UNCHANGED <<text, pos, c, pc, then, frames, val>>
  BY DEF vars
<1>2. /\ Now' = Now /\ Before' = Before /\ AtEnd' = AtEnd /\ SpacedComma' = SpacedComma
      /\ Calls' = Calls /\ IsScalar' = IsScalar /\ At' = At
      /\ CommaSpace(pos)' = CommaSpace(pos) /\ CommaSpace(pos - 1)' = CommaSpace(pos - 1)
  BY <1>1, Staying, CallsStay DEF IsScalar, At, CommaSpace
<1>3. TextRead /\ InStep
  BY DEF Known
<1>4. TextRead'
  BY <1>1, <1>2, <1>3 DEF TextRead
<1>5. /\ Excused(Now)' = Excused(Now) /\ Excused(Before)' = Excused(Before)
      /\ Complete(Now)' = Complete(Now) /\ NumberEnds(Now)' = NumberEnds(Now)
      /\ Expected(pc, Before)' = Expected(pc, Before)
      /\ Expected(then, Now)' = Expected(then, Now)
      /\ Complete(Before)' = Complete(Before)
  <2>1. Excused(Now)' = Excused(Now) /\ Excused(Before)' = Excused(Before)
    BY <1>1, <1>2 DEF Excused
  <2>2. Complete(Now)' = Complete(Now) /\ Complete(Before)' = Complete(Before)
    BY <1>1, <1>2 DEF Complete
  <2>3. Expected(pc, Before)' = Expected(pc, Before)
    BY <1>1, <1>2 DEF Expected, Complete
  <2>4. Expected(then, Now)' = Expected(then, Now)
    BY <1>1, <1>2 DEF Expected, Complete
  <2> QED
    BY <1>1, <1>2, <2>1, <2>2, <2>3, <2>4 DEF NumberEnds
<1>6. CutShort(Now)' = CutShort(Now) /\ CutShort(Before)' = CutShort(Before)
  BY <1>1, <1>2, <1>5 DEF CutShort
<1>7. Skipping' = Skipping
  BY <1>1, <1>2, <1>5 DEF Skipping
<1>8. LooksAt' = LooksAt
  BY <1>1, <1>2, <1>5 DEF LooksAt
<1>9. Numbering' = Numbering /\ Returning' = Returning /\ Finishing' = Finishing
  BY <1>1, <1>2, <1>5, <1>6 DEF Numbering, Returning, Finishing
<1> QED
  BY <1>1, <1>2, <1>3, <1>4, <1>7, <1>8, <1>9 DEF Together, InStep

LEMMA TogetherNext == ASSUME Known, [Next]_vars PROVE Together'
<1>1. CASE TopEmpty \/ StringThrow \/ ParseNOP
  <2>1. pc \in Looking \ {"comma"} /\ UNCHANGED <<text, pos, c>>
    BY <1>1 DEF TopEmpty, StringThrow, ParseNOP, Looking
  <2>2. pc' \in {"accepted", "rejected"}
    BY <1>1 DEF TopEmpty, StringThrow, ParseNOP, Throw, Goto
  <2> QED
    BY <2>1, <2>2, Ends
<1>2. CASE ParseArray
  BY <1>2, CallTogether DEF ParseArray, NUL, Kinds
<1>3. CASE ParseObject
  <2>1. /\ pc = "value" /\ c = LBrace /\ UNCHANGED <<text, pos, c, stack, val>>
        /\ frames' = Append(frames, [kind |-> "object", top |-> Len(stack)])
        /\ SkipTo("key")
    BY <1>3, Zenon DEF ParseObject, LBrace
  <2>2. LBrace # NUL
    BY Zenon DEF LBrace, NUL
  <2> QED
    BY <2>1, <2>2, CallTogether DEF Kinds
<1>4. CASE Done \/ UNCHANGED vars
  BY <1>4, StutterTogether DEF Done
<1> QED
  BY <1>1, <1>2, <1>3, <1>4, SkipTogether, OverrunTogether, TopValueTogether,
     ParseWordTogether, ParseNumberTogether, ParseUnclosedTogether, ArrayEmptyTogether,
     ArrayElementTogether, ArrayNextTogether, ObjectEndTogether, ObjectKeyTogether,
     ObjectColonTogether, ObjectNextTogether, ObjectCommaTogether, ReturnToFrameTogether,
     ReturnToTopTogether, RestTogether, FinishTogether
  DEF Next, Parse

\* What the parser says of a text is what the grammar says of it.
Refuted == IF AtEnd THEN Now.expect # "end"
                    ELSE /\ ~ Whole /\ Now = Dead
                         /\ StopsAtNUL => pos = Len(text) /\ Before.expect # "end"

Granted ==
  /\ pos > 0 /\ pos = Len(text) /\ IsNUL(text[pos])
  /\ \/ Before.expect = "end" \/ SpacedComma
     \/ ~ UseRFC4627 /\ \A n \in 1 .. pos - 1 : text[n] = Space
     \/ AtEnd /\ Len(Before.open) = 1
     \/ AtEnd /\ ~ UseRFC4627 /\ pos > 1 /\ text[pos - 1] = "e"

Decided == (pc = "rejected" => Refuted) /\ (pc = "accepted" => Granted)

\* The grammar has no NUL.
LEMMA OnNUL == ASSUME NEW m PROVE Accept(m, InnerNUL) = Dead
  BY Zenon DEF Accept, InnerNUL, Opens, Starts

LEMMA RefutedLooking ==
  ASSUME Known, pc \in Looking, UNCHANGED <<text, pos>>,
         \/ Excused(Before)
         \/ IsNUL(c) /\ Before.expect # "end"
         \/ ~ IsNUL(c) /\ Now = Dead
  PROVE  Refuted'
<1>1. pos = Len(text) /\ pos > 0 /\ c = text[pos] /\ AtEnd = (c = NUL)
  BY LookingAt DEF Looking
<1>2. /\ (c = NUL => Now = Before) /\ (Before = Dead => Now = Dead)
      /\ (c # NUL => Now = Accept(Before, c))
      /\ Now' = Now /\ Before' = Before /\ AtEnd' = AtEnd
  BY LookingOn
<1>3. (c # NUL => ~ Whole) /\ (StopsAtNUL => c = InnerNUL)
  BY <1>1 DEF Whole, StopsAtNUL, Last
<1>4. Dead.expect # "end"
  BY DEF Dead
<1>5. Excused(Before) => Before = Dead
  BY DEF Excused
<1>6. Whole' = Whole /\ StopsAtNUL' = StopsAtNUL
  BY DEF Whole, StopsAtNUL
<1>7. c = InnerNUL => Now = Dead
  <2>1. InnerNUL # NUL
    BY DEF InnerNUL, NUL
  <2> QED
    BY <1>2, <2>1, OnNUL
<1>8. IsNUL(c) <=> c = NUL \/ c = InnerNUL
  BY DEF IsNUL
<1>9. CASE c = NUL
  BY <1>1, <1>2, <1>4, <1>5, <1>8, <1>9 DEF Refuted
<1>10. CASE c = InnerNUL /\ c # NUL
  BY <1>1, <1>2, <1>3, <1>4, <1>5, <1>6, <1>7, <1>8, <1>10 DEF Refuted
<1>11. CASE c # InnerNUL /\ c # NUL
  BY <1>1, <1>2, <1>3, <1>5, <1>6, <1>8, <1>11 DEF Refuted
<1> QED
  BY <1>9, <1>10, <1>11

LEMMA OnUnclosed == ASSUME NEW m, NEW ch \in Unclosed PROVE Accept(m, ch) = Dead
  BY Zenon DEF Accept, Unclosed, Opens, Starts

LEMMA DecidedNext == ASSUME Known, Decided, [Next]_vars PROVE Decided'
<1>1. CASE pc' \notin {"accepted", "rejected"}
  BY <1>1 DEF Decided
<1> SUFFICES ASSUME pc' \in {"accepted", "rejected"} PROVE Decided'
  BY <1>1
<1>2. CASE UNCHANGED vars
  <2>1. UNCHANGED <<text, pos, pc>>
    BY <1>2 DEF vars
  <2>2. /\ Now' = Now /\ Before' = Before /\ AtEnd' = AtEnd
        /\ SpacedComma' = SpacedComma /\ Whole' = Whole /\ StopsAtNUL' = StopsAtNUL
    BY <2>1, Staying DEF Whole, StopsAtNUL
  <2> QED
    BY <2>1, <2>2 DEF Decided, Refuted, Granted
<1>3. ASSUME pc' = "rejected", pc \in Looking, UNCHANGED <<text, pos>>,
             \/ Excused(Before)
             \/ IsNUL(c) /\ Before.expect # "end"
             \/ ~ IsNUL(c) /\ Now = Dead
      PROVE  Decided'
  BY <1>3, RefutedLooking DEF Decided
<1>4. ASSUME pc \in Looking
      PROVE  /\ Before \in States /\ LooksAt
             /\ c # NUL => Now = Accept(Before, c)
             /\ pc # "comma" => c # Space
  <2>1. c # NUL => Now = Accept(Before, c)
    BY <1>4, LookingAt DEF Looking
  <2> QED
    BY <1>4, <2>1, LookingAt DEF Looking, Known, InStep, TextRead
<1>5. CASE TopEmpty
  <2>1. pc = "top" /\ IsNUL(c) /\ UNCHANGED <<text, pos>>
        /\ (UseRFC4627 <=> pc' = "rejected")
    BY <1>5 DEF TopEmpty, Throw, Goto
  <2>2. Excused(Before) \/ Before.expect \in {"container", "value"}
    BY <1>4, <2>1 DEF LooksAt, Expected, Looking, Start
  <2>3. CASE UseRFC4627
    BY <1>3, <2>1, <2>2, <2>3 DEF Looking
  <2>4. CASE ~ UseRFC4627
    <3>1. \A n \in 1 .. pos - 1 : text[n] = Space
      BY <2>1 DEF Known, TextRead
    <3>2. pos > 0 /\ pos = Len(text) /\ c = text[pos]
      BY <2>1, LookingAt DEF Looking
    <3> QED
      BY <2>1, <2>4, <3>1, <3>2 DEF Decided, Granted
  <2> QED
    BY <2>3, <2>4
<1>6. CASE StringThrow
  <2>1. pc \in {"value", "key"} /\ c = "u" /\ UNCHANGED <<text, pos>> /\ pc' = "rejected"
    BY <1>6 DEF StringThrow, Throw, Goto
  <2>2. Now = Dead /\ ~ IsNUL(c)
    BY <1>4, <2>1, OnUnclosed DEF Looking, Unclosed, NUL, InnerNUL, IsNUL
  <2> QED
    BY <1>3, <2>1, <2>2 DEF Looking
<1>7. CASE ParseNOP
  <2>1. /\ pc = "value" /\ c \notin {"[", LBrace, "s", "w", "1"}
        /\ UNCHANGED <<text, pos>> /\ pc' = "rejected"
    BY <1>7, Zenon DEF ParseNOP, Throw, Goto, LBrace, Scalars
  <2>2. c # NUL /\ ~ Excused(Before) => Now = Dead
    <3>1. c # Space /\ (c # NUL => Now = Accept(Before, c)) /\ Before \in States
      BY <1>4, <2>1 DEF Looking
    <3> QED
      BY <2>1, <3>1, ValueExpected, OnOther DEF LBrace
  <2>3. ~ Excused(Before) => Before.expect # "end"
    BY <2>1, ValueExpected DEF Opens
  <2> QED
    BY <1>3, <2>1, <2>2, <2>3 DEF Looking, IsNUL
<1>8. CASE ArrayNext
  <2>1. /\ pc = "next" /\ Top.kind = "array" /\ c \notin {"]", Comma}
        /\ UNCHANGED <<text, pos>> /\ pc' = "rejected"
    BY <1>8, Zenon DEF ArrayNext, Throw, Goto, CloseArray, Close, Return, SkipTo, Comma
  <2>2. c # NUL /\ ~ Excused(Before) => Now = Dead
    BY <1>4, <2>1, NextExpected, OnOther DEF Looking
  <2>3. ~ Excused(Before) => Before.expect # "end"
    BY <2>1, NextExpected
  <2> QED
    BY <1>3, <2>1, <2>2, <2>3 DEF Looking, IsNUL
<1>9. CASE ObjectNext
  <2>1. /\ pc = "next" /\ Top.kind = "object" /\ c \notin {Brace, Comma}
        /\ UNCHANGED <<text, pos>> /\ pc' = "rejected"
    BY <1>9, Zenon DEF ObjectNext, Throw, Goto, CloseObject, Close, Return, Comma, Brace
  <2>2. c # NUL /\ ~ Excused(Before) => Now = Dead
    BY <1>4, <2>1, NextExpected, OnOther DEF Looking
  <2>3. ~ Excused(Before) => Before.expect # "end"
    BY <2>1, NextExpected
  <2> QED
    BY <1>3, <2>1, <2>2, <2>3 DEF Looking, IsNUL
<1>10. CASE ObjectKey
  <2>1. /\ pc = "key" /\ ~ AtEnd /\ c # Brace /\ c # "s"
        /\ UNCHANGED <<text, pos>> /\ pc' = "rejected"
    BY <1>10, Zenon DEF ObjectKey, Throw, Goto, SkipTo, Brace, Quoted
  <2>2. c # NUL
    BY <2>1, LookingAt DEF Looking
  <2>3. ~ Excused(Before) => Now = Dead /\ Before.expect # "end"
    BY <1>4, <2>1, <2>2, KeyExpected, OnOther DEF Looking
  <2> QED
    BY <1>3, <2>1, <2>2, <2>3 DEF Looking
<1>11. CASE ObjectColon
  <2>1. /\ pc = "colon" /\ c # ":"
        /\ UNCHANGED <<text, pos>> /\ pc' = "rejected"
    BY <1>11, Zenon DEF ObjectColon, Throw, Goto, SkipTo
  <2>2. ~ Excused(Before) => Before.expect = "colon" /\ ~ Before.digit
    BY <1>4, <2>1 DEF LooksAt, Expected, Looking
  <2>3. c # NUL /\ ~ Excused(Before) => Now = Dead
    BY <1>4, <2>1, <2>2, OnOther DEF Looking
  <2> QED
    BY <1>3, <2>1, <2>2, <2>3 DEF Looking, IsNUL
<1>12. CASE Rest
  <2>1. pc = "rest" /\ ~ IsNUL(c) /\ c # NUL /\ UNCHANGED <<text, pos>> /\ pc' = "rejected"
    BY <1>12 DEF Rest, Goto, Throw, IsNUL
  <2>2. frames = <<>>
    BY <2>1 DEF Known, IInv, Places, At
  <2>3. ~ Excused(Before) => Before.expect = "end" /\ (c # "1" \/ ~ Before.digit)
    BY <1>4, <2>1, <2>2 DEF LooksAt, Expected, Complete, Looking
  <2>4. ~ Excused(Before) => Now = Dead
    BY <1>4, <2>1, <2>3, OnOther DEF Looking
  <2> QED
    BY <1>3, <2>1, <2>4 DEF Looking
<1>13. CASE ObjectComma
  <2>1. PICK ch \in Characters : Read(ch) /\ ch \in {Brace, NUL}
    BY <1>13, Zenon DEF ObjectComma, Goto, SkipTo, Characters, Brace
  <2>2. pc = "comma" /\ pc' = "rejected"
    BY <1>13 DEF ObjectComma, Throw, Goto, SkipTo
  <2>3. /\ text'[pos'] = ch /\ pos' = Len(text') /\ pos' > 0
        /\ Now \in States
        /\ AtEnd' = (ch = NUL)
        /\ Now' = IF ch = NUL THEN Now ELSE Accept(Now, ch)
    BY <2>1, ReadStep
  <2>4. \/ Now = Dead
        \/ ~ Now.digit /\ Now.expect = "key"
    BY <2>2, CommaExpected
  <2>5. Brace \notin {"s", "1", Space}
    BY Zenon DEF Brace, Space
  <2>6. ch # NUL => Now' = Dead
    BY <2>1, <2>3, <2>4, <2>5, OnOther, DeadStays
  <2>7. (ch # NUL => ~ Whole') /\ ~ StopsAtNUL'
    BY <2>1, <2>3 DEF Whole, StopsAtNUL, Last, Brace, NUL, InnerNUL
  <2>8. ch = NUL => Now'.expect # "end"
    BY <2>3, <2>4 DEF Dead
  <2> QED
    BY <2>2, <2>3, <2>6, <2>7, <2>8 DEF Decided, Refuted
<1>14. CASE Finish
  <2>1. pc = "finish" /\ UNCHANGED <<text, pos>> /\ (UseRFC4627 /\ IsScalar <=> pc' = "rejected")
    BY <1>14 DEF Finish, Throw, Goto, IsScalar
  <2>2. /\ Finishing /\ frames = <<>> /\ Len(frames) = 0
        /\ pos > 0 /\ pos = Len(text) /\ IsNUL(text[pos])
    BY <2>1 DEF Known, InStep, TextRead, IInv, Places, At
  <2>3. /\ Now' = Now /\ Before' = Before /\ AtEnd' = AtEnd /\ SpacedComma' = SpacedComma
        /\ Whole' = Whole /\ StopsAtNUL' = StopsAtNUL
    BY <2>1, Staying DEF Whole, StopsAtNUL
  <2>4. CASE pc' = "rejected"
    <3>1. Before.expect # "end"
      BY <2>1, <2>2, <2>4 DEF Finishing, CutShort, Complete, Excused, Dead
    <3>2. AtEnd => Now = Before
      BY DEF Now, Before
    <3>3. ~ AtEnd => ~ Whole /\ Now = Dead
      <4>1. /\ ~ AtEnd => text[pos] # NUL
            /\ text[pos] # NUL => text[pos] = InnerNUL
        BY <2>2 DEF AtEnd, IsNUL
      <4>2. text \in Seq(Characters) /\ pos \in 1 .. Len(text)
        BY <2>2, KnownText
      <4>3. Grammar(pos) = Accept(Before, text[pos])
        BY <4>2, GrammarFollows DEF Before, Known
      <4>4. ~ AtEnd => Now = Grammar(pos)
        BY DEF Now
      <4>5. Accept(Before, InnerNUL) = Dead
        BY OnNUL
      <4> QED
        BY <2>2, <4>1, <4>3, <4>4, <4>5 DEF Whole, Last
    <3> QED
      BY <2>1, <2>2, <2>3, <2>4, <3>1, <3>2, <3>3 DEF Decided, Refuted
  <2>5. CASE pc' = "accepted"
    <3>1. \/ Before.expect = "end" \/ SpacedComma
          \/ AtEnd /\ Len(Before.open) = 1
          \/ AtEnd /\ ~ UseRFC4627 /\ pos > 1 /\ text[pos - 1] = "e"
      <4>1. Excused(Before) => SpacedComma
        BY <2>1, <2>2, <2>5 DEF Excused
      <4>2. Complete(Before) => Before.expect = "end"
        BY <2>2 DEF Complete
      <4>3. CutShort(Before) => \/ SpacedComma \/ Len(Before.open) = 1
                                \/ IsScalar /\ pos > 1 /\ text[pos - 1] = "e"
        BY <2>2, <4>1 DEF CutShort
      <4> QED
        BY <2>1, <2>2, <2>5, <4>1, <4>2, <4>3 DEF Finishing
    <3> QED
      BY <2>1, <2>2, <2>3, <2>5, <3>1 DEF Decided, Granted
  <2> QED
    BY <2>4, <2>5
<1>15. ~ (Skip \/ Overrun \/ TopValue \/ ParseArray \/ ParseObject \/ ParseWord \/ ParseNumber
          \/ ParseUnclosed \/ ArrayEmpty \/ ArrayElement \/ ObjectEnd \/ ReturnToFrame
          \/ ReturnToTop)
  <2>1. then \in Looking \/ pc # "skip"
    BY DEF Known, TextRead
  <2>2. ~ Skip
    BY <2>1 DEF Skip, Goto, Looking
  <2> QED
    BY <2>2 DEF Overrun, TopValue, ParseArray, ParseObject, ParseWord, ParseNumber,
       ParseUnclosed, ArrayEmpty, ArrayElement, ObjectEnd, ReturnToFrame, ReturnToTop,
       Goto, SkipTo, Return, Close, CloseArray, CloseObject
<1> QED
  BY <1>2, <1>5, <1>6, <1>7, <1>8, <1>9, <1>10, <1>11, <1>12, <1>13, <1>14, <1>15
  DEF Next, Parse, Done

\* The text in front of its NUL, and the part of it that was read.
LEMMA Readings ==
  ASSUME Known
  PROVE  /\ AtEnd => Whole /\ After(Body, UseRFC4627) = Now
         /\ After(Seen, UseRFC4627) = Now
         /\ pos > 0 /\ pos = Len(text) /\ IsNUL(text[pos])
              => /\ Whole \/ StopsAtNUL
                 /\ Body = SubSeq(text, 1, pos - 1) /\ After(Body, UseRFC4627) = Before
                 /\ AtEnd => Whole
         /\ StopsAtNUL /\ pos = Len(text) => pos > 0 /\ IsNUL(text[pos])
<1>1. AtEnd => Whole /\ Front(text) = SubSeq(text, 1, pos - 1)
  BY KnownText DEF AtEnd, Whole, Last, Front
<1>2. StopsAtNUL /\ pos = Len(text) => pos > 0 /\ IsNUL(text[pos])
  BY KnownText, EmptySeq DEF StopsAtNUL, Last, IsNUL
<1>3. ASSUME pos > 0, pos = Len(text), IsNUL(text[pos])
      PROVE  /\ Whole \/ StopsAtNUL
             /\ Body = SubSeq(text, 1, pos - 1) /\ After(Body, UseRFC4627) = Before
  <2>1. text # <<>> /\ Last(text) = text[pos] /\ Front(text) = SubSeq(text, 1, pos - 1)
    BY <1>3, KnownText DEF Last, Front
  <2>2. Whole \/ StopsAtNUL
    BY <1>3, <2>1 DEF Whole, StopsAtNUL, IsNUL
  <2> QED
    BY <2>1, <2>2 DEF Body, Before, Grammar
<1> QED
  BY <1>1, <1>2, <1>3 DEF Body, Seen, Now, Grammar

LEMMA DecidedMeans ==
  ASSUME Known, Decided
  PROVE  JSONIsAccepted /\ LenientOnlyAtTheEnd
<1>1. pc = "overrun" => AtEnd /\ Now.expect # "end"
  BY DEF Known, InStep, TextRead
<1>2. JSONIsAccepted
  <2>1. pc = "overrun" => ~ IsJSON(Body, UseRFC4627)
    BY <1>1, Readings DEF IsJSON
  <2>2. ASSUME pc = "rejected", AtEnd
        PROVE  Whole /\ ~ IsJSON(Body, UseRFC4627)
    BY <2>2, Readings DEF Decided, Refuted, IsJSON
  <2>3. ASSUME pc = "rejected", ~ AtEnd
        PROVE  /\ ~ Whole /\ ~ IsBeginning(Seen, UseRFC4627)
               /\ StopsAtNUL => ~ IsJSON(Body, UseRFC4627)
    BY <2>3, Readings DEF Decided, Refuted, IsJSON, IsBeginning, Dead
  <2> QED
    BY <2>1, <2>2, <2>3 DEF JSONIsAccepted
<1>3. LenientOnlyAtTheEnd
  <2> SUFFICES ASSUME pc = "accepted"
               PROVE  /\ Whole \/ StopsAtNUL
                      /\ \/ After(Body, UseRFC4627).expect = "end"
                         \/ SpacedComma
                         \/ ~ UseRFC4627 /\ Blank
                         \/ Whole /\ Len(After(Body, UseRFC4627).open) = 1
                         \/ Whole /\ ~ UseRFC4627 /\ EndsOpen
    BY DEF LenientOnlyAtTheEnd, IsJSON
  <2>1. Granted /\ (Whole \/ StopsAtNUL) /\ After(Body, UseRFC4627) = Before
        /\ (AtEnd => Whole)
    BY Readings DEF Decided, Granted
  <2>2. /\ text \in Seq(Characters) /\ pos = Len(text) /\ pos \in Nat /\ pos > 0
        /\ Body = SubSeq(text, 1, pos - 1) /\ pos - 1 \in 0 .. Len(text)
    BY <2>1, KnownText, Readings DEF Granted
  <2>3. /\ Body \in Seq(Characters) /\ Len(Body) = pos - 1
        /\ \A i \in 1 .. pos - 1 : Body[i] = text[i]
    BY <2>2, Cut
  <2>4. (\A n \in 1 .. pos - 1 : text[n] = Space) => Blank
    BY <2>2, <2>3 DEF Blank, ToSet
  <2>5. pos > 1 /\ text[pos - 1] = "e" => EndsOpen
    <3> SUFFICES ASSUME pos > 1, text[pos - 1] = "e" PROVE EndsOpen
      OBVIOUS
    <3>1. Body[Len(Body)] = "e" /\ Len(Body) > 0
      BY <2>2, <2>3
    <3>2. Body # <<>>
      BY <3>1, EmptySeq
    <3> QED
      BY <3>1, <3>2 DEF EndsOpen, Last
  <2> QED
    BY <2>1, <2>4, <2>5 DEF Granted
<1> QED
  BY <1>2, <1>3
-----------------------------------------------------------------------------
\* All of it together.
SimInv == IInv /\ TextRead /\ InStep /\ Decided

LEMMA InitSim == ASSUME UseRFC4627 \in BOOLEAN, Init PROVE SimInv
<1>1. IInv
  BY InitInv
<1>2. /\ text = <<>> /\ pos = 0 /\ pc = "skip" /\ then = "top" /\ frames = <<>>
  BY DEF Init
<1>3. TextRead
  BY <1>2 DEF TextRead, Looking
<1>4. ~ AtEnd /\ Now = Start(UseRFC4627)
  <2>1. ~ AtEnd /\ text \in Seq(Characters)
    BY <1>2 DEF AtEnd
  <2> QED
    BY <1>2, <2>1, GrammarFollows DEF Now
<1>5. InStep
  BY <1>2, <1>4 DEF InStep, Skipping, Expected, Looking
<1> QED
  BY <1>1, <1>2, <1>3, <1>5 DEF SimInv, Decided

LEMMA NextSim == ASSUME UseRFC4627 \in BOOLEAN, SimInv, [Next]_vars PROVE SimInv'
<1>1. Known /\ Decided
  BY DEF SimInv, Known
<1>2. IInv'
  BY NextInv DEF SimInv
<1> QED
  BY <1>1, <1>2, TogetherNext, DecidedNext DEF Together, SimInv

\* What the parser rejects, or reads past the end of, is no JSON text and no
\* beginning of one: a JSON text is accepted, whatever its length and depth, and
\* with a NUL behind it in the range or without.
THEOREM JSONAccepted == Spec => []JSONIsAccepted
<1>1. Init => SimInv
  BY ParserAssumption, InitSim
<1>2. SimInv /\ [Next]_vars => SimInv'
  BY ParserAssumption, NextSim
<1>3. SimInv => JSONIsAccepted
  BY ParserAssumption, DecidedMeans DEF SimInv, Known
<1> QED
  BY <1>1, <1>2, <1>3, PTL DEF Spec

\* What is accepted is JSON up to its end or to the first NUL in it, whatever its
\* length and depth and whatever lies behind that NUL; but for a comma and white
\* space in front of a brace, a blank text where scalars are documents, and a text
\* whose end is inside one container or in a string with an escape.
THEOREM LenientAtTheEnd == Spec => []LenientOnlyAtTheEnd
<1>1. Init => SimInv
  BY ParserAssumption, InitSim
<1>2. SimInv /\ [Next]_vars => SimInv'
  BY ParserAssumption, NextSim
<1>3. SimInv => LenientOnlyAtTheEnd
  BY ParserAssumption, DecidedMeans DEF SimInv, Known
<1> QED
  BY <1>1, <1>2, <1>3, PTL DEF Spec
=============================================================================
