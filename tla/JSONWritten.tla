---------------------------- MODULE JSONWritten ----------------------------
(***************************************************************************)
(* How a value is written as a JSON text, over the symbols of Parser.      *)
(* Nothing here follows the C code.                                        *)
(***************************************************************************)
EXTENDS Integers, Sequences, SequencesExt

\* The symbols that carry meaning: no white space, one digit for a number.
Essence(symbols) ==
  FoldLeft(LAMBDA s, ch : IF ch = " " \/ (ch = "1" /\ s # <<>> /\ Last(s) = "1")
                            THEN s ELSE Append(s, ch),
           <<>>, symbols)

Separated(seqs) ==
  FoldLeft(LAMBDA s, t : IF s = <<>> THEN t ELSE s \o <<",">> \o t, <<>>, seqs)

\* How a value is written, an object's members in the reverse of the order in
\* which they were set.
RECURSIVE Written(_)
Written(v) ==
  CASE v.kind = "scalar" -> <<v.is>>
    [] v.kind = "array"  ->
         <<"[">> \o Separated([n \in DOMAIN v.items |-> Written(v.items[n])]) \o <<"]">>
    [] v.kind = "object" ->
         <<"{">> \o Separated([n \in DOMAIN v.sets |->
                                 LET set == Reverse(v.sets)[n]
                                 IN  <<set[1], ":">> \o Written(set[2])]) \o <<"}">>
=============================================================================
