------------------------------- MODULE Parser -------------------------------
(***************************************************************************)
(* The recursive-descent parser of kjson.c over its input stream           *)
(* (kstream.h), its stack of values (kstack.h) and its exceptions          *)
(* (kexception.h).  Every place where the C code reads the next character  *)
(* or skips white space is a step.                                         *)
(*                                                                         *)
(* The text is not given: each symbol is chosen when it is first read, up  *)
(* to MaxLength of them, so a run covers every text the parser reads       *)
(* differently.  A symbol is a punctuation character or stands for all the *)
(* strings, numbers or words the parser treats alike.  The range that      *)
(* JSON_parse_ is given may hold NULs.                                     *)
(***************************************************************************)
EXTENDS Integers, Sequences, SequencesExt

CONSTANTS MaxLength,     \* bound: the longest text that is tried
          UseRFC4627     \* KJSON_USE_RFC4627: the top level must be a container

ASSUME ParserAssumption == UseRFC4627 \in BOOLEAN

Space    == " "
NUL      == "NUL"       \* the byte behind the text, *e, which is 0
InnerNUL == "0"         \* a byte 0 in front of e: not the end, but the same character
Scalars  == {"s", "1", "w"}   \* a closed string, a digit, null or a boolean
Unclosed == {"u", "e"}  \* a string that is not closed, without or with escapes
Invalid  == "x"         \* a token that starts no value, or a misspelt word

Symbols == {"[", "]", "{", "}", ",", ":", Space, InnerNUL, Invalid} \cup Scalars \cup Unclosed

\* ch == 0 does not tell the two apart, ins->pos does.
IsNUL(ch) == ch \in {NUL, InnerNUL}

Quoted == {"s"} \cup Unclosed

VARIABLES
  text,    \* the symbols read or looked at so far, NUL behind its last
  pos,     \* ins->pos: how many of them were read
  c,       \* the character the parser is looking at
  pc,      \* what it does next ...
  then,    \* ... and after skipping white space
  frames,  \* the calls of parseArray and parseObject in progress
  stack,   \* ins->stack
  val      \* the value returned last

vars == <<text, pos, c, pc, then, frames, stack, val>>

Scalar(ch) == [kind |-> "scalar", is |-> ch]
Array(s)   == [kind |-> "array", items |-> s]

\* An object is the calls of JSONObject_set that build it, in their order.
Object(s)  == [kind |-> "object", sets |-> s]

Null  == Scalar("w")
Error == Scalar("error")

Outcomes == {"accepted", "rejected", "overrun"}

Top == Last(frames)

\* ins->pos == ins->end, which lies one behind the NUL.
AtEnd == pos > 0 /\ pos = Len(text) /\ text[pos] = NUL
-----------------------------------------------------------------------------
Init == /\ text = <<>>
        /\ pos = 0
        /\ c = NUL
        /\ pc = "skip" /\ then = "top"
        /\ frames = <<>>
        /\ stack = <<>>
        /\ val = Null

\* The symbols that can be next in the text.  Two spaces are like one, and a
\* string that is not closed is the rest of the text.
NextSymbols == IF pos < Len(text) THEN {text[pos + 1]}
         ELSE IF pos = MaxLength THEN {NUL}
         ELSE IF pos > 0 /\ text[pos] = Space THEN (Symbols \cup {NUL}) \ {Space}
         ELSE Symbols \cup {NUL}

\* ch is the next symbol of the text.
Look(ch) == /\ ~ AtEnd
            /\ ch \in NextSymbols
            /\ text' = IF pos < Len(text) THEN text ELSE Append(text, ch)

\* ch = NEXT(ins).
Read(ch) == Look(ch) /\ pos' = pos + 1

\* Go on at label l, or after c = skip_space(ins, NEXT(ins)).
Goto(l) == pc' = l /\ UNCHANGED then

SkipTo(l) == pc' = "skip" /\ then' = l

Return(v) == val' = v /\ Goto("return")

\* longjmp to the handler of JSON_parse2, which returns an error object and
\* disposes of the stack with the values on it.
Throw == /\ Goto("rejected")
         /\ val' = Error
         /\ frames' = <<>>
         /\ stack' = <<>>

Skip == /\ pc = "skip"
        /\ \E ch \in Symbols \cup {NUL} :
             /\ Read(ch)
             /\ c' = ch
             /\ IF ch = Space THEN UNCHANGED <<pc, then>> ELSE Goto(then)
        /\ UNCHANGED <<frames, stack, val>>

\* NEXT(ins) behind the end of the text: what it reads is not defined.
Overrun == /\ pc = "skip" /\ AtEnd
           /\ Goto("overrun")
           /\ UNCHANGED <<text, pos, c, frames, stack, val>>

\* parse: nothing but white space, up to a NUL, is a null, which is not a container.
TopEmpty == /\ pc = "top" /\ IsNUL(c)
            /\ IF UseRFC4627
                 THEN Throw
                 ELSE /\ Goto("accepted") /\ val' = Null
                      /\ UNCHANGED <<frames, stack>>
            /\ UNCHANGED <<text, pos, c>>

TopValue == /\ pc = "top" /\ ~ IsNUL(c)
            /\ Goto("value")
            /\ UNCHANGED <<text, pos, c, frames, stack, val>>

\* parseChild dispatches on the character.
ParseArray == /\ pc = "value" /\ c = "["
              /\ frames' = Append(frames, [kind |-> "array", top |-> Len(stack)])
              /\ SkipTo("first")
              /\ UNCHANGED <<text, pos, c, stack, val>>

ParseObject == /\ pc = "value" /\ c = "{"
               /\ frames' = Append(frames, [kind |-> "object", top |-> Len(stack)])
               /\ SkipTo("key")
               /\ UNCHANGED <<text, pos, c, stack, val>>

ParseWord == /\ pc = "value" /\ c \in {"s", "w"}
             /\ Return(Scalar(c))
             /\ UNCHANGED <<text, pos, c, frames, stack>>

\* Mutation: it steps back behind every digit.
ParseNumberStepsBack ==
  /\ \/ pc = "value" /\ c = "1"
     \/ pc = "number"
  /\ \E ch \in Symbols \cup {NUL} :
       /\ Look(ch)
       /\ pos' = pos
       /\ IF ch = "1" THEN Goto("number") /\ UNCHANGED val ELSE Return(Scalar("1"))
  /\ UNCHANGED <<c, frames, stack>>

\* parseNumber reads one character too many and steps back.
ParseNumber ==
  /\ \/ pc = "value" /\ c = "1"
     \/ pc = "number"
  /\ \E ch \in Symbols \cup {NUL} :
       /\ Look(ch)
       /\ IF ch = "1" THEN pos' = pos + 1 /\ Goto("number") /\ UNCHANGED val
                      ELSE pos' = pos /\ Return(Scalar("1"))
  /\ UNCHANGED <<c, frames, stack>>

\* parseString, in a string without an escape that is not closed.
StringThrow == /\ pc \in {"value", "key"} /\ c = "u"
               /\ Throw
               /\ UNCHANGED <<text, pos, c>>

\* Mutation: the loop also steps over the end.
RunOutTooFar == text' = Append(text, NUL) /\ pos' = pos + 2

\* The loop over a string with escapes also ends at the end of the text.
RunOut == text' = Append(text, NUL) /\ pos' = pos + 1

ParseUnclosed == /\ pc = "value" /\ c = "e"
                 /\ RunOut
                 /\ Return(Scalar("s"))
                 /\ UNCHANGED <<c, frames, stack>>

ParseNOP == /\ pc = "value"
            /\ c \notin {"[", "{"} \cup Scalars \cup Unclosed
            /\ Throw
            /\ UNCHANGED <<text, pos, c>>
-----------------------------------------------------------------------------
\* Mutation: what the container was built from stays on the stack.
CloseNoPop(v) == frames' = Front(frames) /\ Return(v) /\ UNCHANGED stack

\* A frame returns the container it built from its part of the stack.
Close(v) == /\ stack' = SubSeq(stack, 1, Top.top)
            /\ frames' = Front(frames)
            /\ Return(v)

Own == SubSeq(stack, Top.top + 1, Len(stack))

CloseArray == Close(Array(Own))

\* Mutation: the members are set in the order of the text.
CloseObjectInOrder ==
  Close(Object([n \in 1 .. Len(Own) \div 2 |-> <<Own[2 * n - 1].is, Own[2 * n]>>]))

\* Pops value and key of the last member first: the sets are made backwards.
CloseObject ==
  LET size == Len(Own) \div 2
  IN  Close(Object([n \in 1 .. size |->
                      <<Own[2 * (size - n) + 1].is, Own[2 * (size - n) + 2]>>]))

ArrayEmpty == /\ pc = "first" /\ c = "]"
              /\ frames' = Front(frames)
              /\ Return(Array(<<>>))
              /\ UNCHANGED <<text, pos, c, stack>>

\* The head of the loop of parseArray: the end of the text ends the array.
ArrayElement == /\ pc = "element" \/ (pc = "first" /\ c # "]")
                /\ IF AtEnd THEN CloseArray
                            ELSE Goto("value") /\ UNCHANGED <<frames, stack, val>>
                /\ UNCHANGED <<text, pos, c>>

ArrayNext == /\ pc = "next" /\ Top.kind = "array"
             /\ \/ c = "]" /\ CloseArray
                \/ c = "," /\ SkipTo("element") /\ UNCHANGED <<frames, stack, val>>
                \/ c \notin {"]", ","} /\ Throw
             /\ UNCHANGED <<text, pos, c>>

\* The head of the loop of parseObject: as in parseArray.
ObjectEnd == /\ pc = "key"
             /\ c = "}" \/ AtEnd
             /\ CloseObject
             /\ UNCHANGED <<text, pos, c>>

ObjectKey == /\ pc = "key" /\ ~ AtEnd
             /\ \/ /\ c = "s"
                   /\ stack' = Append(stack, Scalar("s"))
                   /\ SkipTo("colon")
                   /\ UNCHANGED <<text, pos, frames, val>>
                \/ /\ c = "e"
                   /\ RunOut
                   /\ stack' = Append(stack, Scalar("s"))
                   /\ SkipTo("colon")
                   /\ UNCHANGED <<frames, val>>
                \/ /\ c \notin {"}"} \cup Quoted
                   /\ Throw
                   /\ UNCHANGED <<text, pos>>
             /\ UNCHANGED c

ObjectColon == /\ pc = "colon"
               /\ IF c = ":" THEN SkipTo("value") /\ UNCHANGED <<frames, stack, val>>
                             ELSE Throw
               /\ UNCHANGED <<text, pos, c>>

\* The character after the comma is read without skipping white space.
ObjectNext == /\ pc = "next" /\ Top.kind = "object"
              /\ \/ c = "}" /\ CloseObject
                 \/ c = "," /\ Goto("comma") /\ UNCHANGED <<frames, stack, val>>
                 \/ c \notin {"}", ","} /\ Throw
              /\ UNCHANGED <<text, pos, c>>

\* Mutation: no white space may follow the comma.
ObjectCommaNoSkip == /\ pc = "comma"
                     /\ \E ch \in Symbols \cup {NUL} :
                          /\ Read(ch)
                          /\ c' = ch
                          /\ IF ch \in {"}", NUL}
                               THEN Throw
                               ELSE Goto("key") /\ UNCHANGED <<frames, stack, val>>

ObjectComma == /\ pc = "comma"
               /\ \E ch \in Symbols \cup {NUL} :
                    /\ Read(ch)
                    /\ c' = ch
                    /\ \/ ch \in {"}", NUL} /\ Throw
                       \/ /\ ch \notin {"}", NUL}
                          /\ IF ch = Space THEN SkipTo("key") ELSE Goto("key")
                          /\ UNCHANGED <<frames, stack, val>>

\* A value goes on the stack of the container it was parsed for.
ReturnToFrame == /\ pc = "return" /\ frames # <<>>
                 /\ stack' = Append(stack, val)
                 /\ SkipTo("next")
                 /\ UNCHANGED <<text, pos, c, frames, val>>

\* parse, after the top-level value: the rest of the text, if it was not read.
ReturnToTop == /\ pc = "return" /\ frames = <<>>
               /\ IF AtEnd THEN Goto("finish") ELSE SkipTo("rest")
               /\ UNCHANGED <<text, pos, c, frames, stack, val>>

\* Mutation: the rest of the text is not looked at.
RestIgnored == /\ pc = "rest"
               /\ Goto("finish")
               /\ UNCHANGED <<text, pos, c, frames, stack, val>>

\* A NUL ends the text wherever it is: what lies behind it is not looked at.
Rest == /\ pc = "rest"
        /\ IF IsNUL(c) THEN Goto("finish") /\ UNCHANGED <<frames, stack, val>>
                       ELSE Throw
        /\ UNCHANGED <<text, pos, c>>

Finish == /\ pc = "finish"
          /\ IF UseRFC4627 /\ val.kind = "scalar"
               THEN Throw
               ELSE Goto("accepted") /\ UNCHANGED <<frames, stack, val>>
          /\ UNCHANGED <<text, pos, c>>

Done == pc \in Outcomes /\ UNCHANGED vars

Parse == \/ Skip \/ Overrun \/ TopEmpty \/ TopValue
         \/ ParseArray \/ ParseObject \/ ParseWord \/ ParseNumber
         \/ StringThrow \/ ParseUnclosed \/ ParseNOP
         \/ ArrayEmpty \/ ArrayElement \/ ArrayNext
         \/ ObjectEnd \/ ObjectKey \/ ObjectColon \/ ObjectNext \/ ObjectComma
         \/ ReturnToFrame \/ ReturnToTop \/ Rest \/ Finish

Next == Parse \/ Done

Spec == Init /\ [][Next]_vars /\ WF_vars(Parse)
-----------------------------------------------------------------------------
Labels == {"top", "value", "number", "first", "element", "next", "key", "colon",
           "comma", "return", "rest", "finish"}

\* The type of the control state and of the call frames.
TypeOK ==
  /\ text \in Seq(Symbols \cup {NUL})
  /\ pos \in 0 .. Len(text)
  /\ c \in Symbols \cup {NUL}
  /\ pc \in Labels \cup {"skip"} \cup Outcomes
  /\ then \in Labels
  /\ frames \in Seq([kind : {"array", "object"}, top : Nat])

\* The label the parser is at, or will be at when it has skipped white space.
At == IF pc \in {"skip", "overrun"} THEN then ELSE pc

\* The values of the containers being parsed lie on the stack one above the
\* other: each call of parseArray and parseObject leaves alone what its callers
\* put there, an object's key is always followed by its value, and nothing is
\* left when a document is returned.  These are the assertions of parseArray,
\* parseObject, kstack_pop and kstack_deinit.
StackDiscipline ==
  /\ \A n \in DOMAIN frames :
       LET above == IF n = Len(frames) THEN Len(stack) ELSE frames[n + 1].top
           odd   == n < Len(frames) \/ At \in {"colon", "value", "number", "return"}
       IN  /\ frames[n].top <= above
           /\ frames[n].kind = "object" => (above - frames[n].top) % 2 = IF odd THEN 1 ELSE 0
  /\ frames = <<>> => stack = <<>>
=============================================================================
