--------------------------- MODULE AcceptedTexts ---------------------------
(***************************************************************************)
(* The texts that the parser accepts, against the grammar.                 *)
(***************************************************************************)
EXTENDS Parser, JSONGrammar

\* The text was read, or looked at, to its end; and up to a NUL in front of it.
Whole == text # <<>> /\ Last(text) = NUL
StopsAtNUL == text # <<>> /\ Last(text) = InnerNUL

\* The text in front of its first NUL, and the part of the text that was read.
Body == IF Whole \/ StopsAtNUL THEN Front(text) ELSE text
Seen == IF AtEnd THEN Front(text) ELSE SubSeq(text, 1, pos)

\* A JSON text is accepted, also with a NUL behind it that is counted as part of
\* it: what the parser rejects, or reads past the end of, is no JSON text and,
\* as far as it was read, no beginning of one.
JSONIsAccepted ==
  /\ pc = "rejected" => /\ Whole \/ StopsAtNUL => ~ IsJSON(Body, UseRFC4627)
                        /\ ~ Whole => ~ IsBeginning(Seen, UseRFC4627)
  /\ pc = "overrun" => ~ IsJSON(Body, UseRFC4627)

\* A text that is accepted is a JSON text, as far as it was looked at.
OnlyJSONIsAccepted == pc = "accepted" => IsJSON(Body, UseRFC4627)

\* A comma and white space in front of a brace.
SpacedComma == \E n \in 1 .. Len(text) - 2 :
                 text[n] = "," /\ text[n + 1] = Space /\ text[n + 2] = "}"

\* Nothing but white space, and a text that ends in a string that is not closed.
Blank == ToSet(Body) \subseteq {Space}
EndsOpen == Body # <<>> /\ Last(Body) = "e"

\* A text that is accepted is JSON up to its end, or up to the first NUL in it:
\* then anything follows, which is not looked at.  In front of that NUL there may
\* be a comma and white space before a brace, which is no JSON; and where scalars
\* are documents nothing but white space.  In front of the end one container may
\* be open, where scalars are documents a string with an escape instead.
LenientOnlyAtTheEnd ==
  pc = "accepted" =>
    /\ Whole \/ StopsAtNUL
    /\ \/ IsJSON(Body, UseRFC4627)
       \/ SpacedComma
       \/ ~ UseRFC4627 /\ Blank
       \/ Whole /\ Len(After(Body, UseRFC4627).open) = 1
       \/ Whole /\ ~ UseRFC4627 /\ EndsOpen
=============================================================================
