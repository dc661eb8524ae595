------------------------------ MODULE MCParser ------------------------------
(***************************************************************************)
(* The parser against the grammar: every text of at most MaxLength symbols *)
(* that the parser reads to its end.                                       *)
(***************************************************************************)
EXTENDS AcceptedTexts, JSONWritten, Serialiser

\* What an accepted JSON text parses to, written out again, is that text: no
\* value is lost, moved to another container or put in another order.
ParsesToItsText ==
  pc = "accepted" /\ IsJSON(Body, UseRFC4627) =>
    Written(val) = Essence(Body)

Occurrences(ch, seq) == Len(SelectSeq(seq, LAMBDA x : x = ch))

\* An object of two members is written in the reverse of the text's order.
Reordered == \E n, m \in 1 .. Len(Body) : n < m /\ Body[n] = ":" /\ Body[m] = ":"

\* JSON_toString of what an accepted text parses to is a JSON text, even if the
\* text was none; of a JSON text it keeps every symbol, and their order but for
\* that of an object's members.
WritesJSON ==
  pc = "accepted" =>
    LET out == Serialised(val)
    IN  /\ IsJSON(out, UseRFC4627)
        /\ IsJSON(Body, UseRFC4627) =>
             /\ \A ch \in Symbols : Occurrences(ch, out) = Occurrences(ch, Essence(Body))
             /\ ~ Reordered => out = Essence(Body)

\* The parser comes to an end on every text.
ParserStops == <>(pc \in Outcomes)
=============================================================================
