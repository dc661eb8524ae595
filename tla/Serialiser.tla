------------------------------ MODULE Serialiser ------------------------------
(***************************************************************************)
(* JSON_toString of arrays and objects, over the values of Parser.  How    *)
(* one string is written is the subject of Strings.                        *)
(***************************************************************************)
EXTENDS Integers, Sequences, SequencesExt

\* Mutation: a comma follows every element.
ListedTrailing(parts) == FlattenSeq([n \in DOMAIN parts |-> Append(parts[n], ",")])

\* The loops write a comma in front of every element but the first.
Listed(parts) ==
  IF parts = <<>> THEN <<>>
  ELSE FoldLeft(LAMBDA s, part : s \o <<",">> \o part, Head(parts), Tail(parts))

\* An object's members are written in the order in which kmap_next yields them:
\* that in which they were set, while the map is a dictmap and no name was set
\* twice.
RECURSIVE Serialised(_)
Serialised(v) ==
  CASE v.kind = "scalar" -> <<v.is>>
    [] v.kind = "array"  ->
         <<"[">> \o Listed([n \in DOMAIN v.items |-> Serialised(v.items[n])]) \o <<"]">>
    [] v.kind = "object" ->
         <<"{">> \o Listed([n \in DOMAIN v.sets |-> <<v.sets[n][1], ":">> \o Serialised(v.sets[n][2])])
                 \o <<"}">>
=============================================================================
