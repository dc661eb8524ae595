---------------------------- MODULE JSONGrammar ----------------------------
(***************************************************************************)
(* What a JSON text is (RFC 4627), over the symbols of Parser: a machine   *)
(* that reads one symbol at a time, with what it is inside of on a stack.  *)
(* Nothing here follows the C code.                                        *)
(***************************************************************************)
EXTENDS Integers, Sequences, SequencesExt

\* expect: what may come next; open: the arrays and objects that are not closed,
\* innermost last;
\* digit: the last symbol was a digit, so that another one is the same number.
Start(containerOnly) ==
  [expect |-> IF containerOnly THEN "container" ELSE "value",
   open   |-> <<>>,
   digit  |-> FALSE]

Dead == [expect |-> "nothing", open |-> <<>>, digit |-> FALSE]

\* Behind a complete value.
Behind(open, digit) ==
  [expect |-> IF open = <<>> THEN "end" ELSE "separator",
   open |-> open, digit |-> digit]

Opens == {"container", "value", "valueOrClose"}

Starts == {"value", "valueOrClose"}

Expect(m, e) == [expect |-> e, open |-> m.open, digit |-> FALSE]

Enter(m, kind, e) ==
  [expect |-> e, open |-> Append(m.open, kind), digit |-> FALSE]

Inside(m, kind) == m.open # <<>> /\ Last(m.open) = kind

\* The state after symbol ch.
Accept(m, ch) ==
  CASE ch = " "                             -> [m EXCEPT !.digit = FALSE]
    [] ch = "1" /\ m.digit                  -> m
    [] ch = "[" /\ m.expect \in Opens       -> Enter(m, "array", "valueOrClose")
    [] ch = "{" /\ m.expect \in Opens       -> Enter(m, "object", "keyOrClose")
    [] ch \in {"s", "w"} /\ m.expect \in Starts  -> Behind(m.open, FALSE)
    [] ch = "1" /\ ~ m.digit /\ m.expect \in Starts -> Behind(m.open, TRUE)
    [] ch = "s" /\ m.expect \in {"key", "keyOrClose"} -> Expect(m, "colon")
    [] ch = ":" /\ m.expect = "colon"       -> Expect(m, "value")
    [] ch = "," /\ m.expect = "separator" /\ Inside(m, "array") -> Expect(m, "value")
    [] ch = "," /\ m.expect = "separator" /\ Inside(m, "object") -> Expect(m, "key")
    [] ch = "]" /\ m.expect \in {"separator", "valueOrClose"} /\ Inside(m, "array")
         -> Behind(Front(m.open), FALSE)
    [] ch = "}" /\ m.expect \in {"separator", "keyOrClose"} /\ Inside(m, "object")
         -> Behind(Front(m.open), FALSE)
    [] OTHER -> Dead

After(symbols, containerOnly) ==
  LET after[n \in 0 .. Len(symbols)] ==
        IF n = 0 THEN Start(containerOnly) ELSE Accept(after[n - 1], symbols[n])
  IN  after[Len(symbols)]

IsJSON(symbols, containerOnly) == After(symbols, containerOnly).expect = "end"

\* Some JSON text begins with these symbols.
IsBeginning(symbols, containerOnly) == After(symbols, containerOnly).expect # "nothing"
=============================================================================
