------------------------------- MODULE MCKMap -------------------------------
(***************************************************************************)
(* Instances of KMap for TLC.  Texts are named after a key that has them.  *)
(* Delta and DictThreshold are 2, so that two records fill a dictmap, the  *)
(* first hashmap has 4 slots and the next ones 16 and 64.                  *)
(***************************************************************************)
EXTENDS KMap

CONSTANTS a, b, c, d, v1, v2

\* Every key has a text of its own.
Distinct == [k \in {a, b, c, d} |-> k]

\* c is another JSONString object with the text of a: setting it overwrites.
Twins == [k \in {a, b, c, d} |-> IF k = c THEN a ELSE k]

\* a and b collide; d shares their home slot in the tables of 4 and of 16.
Colliding == [k \in {a, b, d} |-> IF k = d THEN 17 ELSE 1]

\* a, b and d share a home in the tables of 4 and of 16, where c is their
\* neighbour: a move to 16 slots can find no room for one of them.
Crowded == [k \in {a, b, c, d} |->
              CASE k = a -> 3 [] k = b -> 3 [] k = c -> 4 [] k = d -> 19]
=============================================================================
