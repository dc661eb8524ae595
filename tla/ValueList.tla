------------------------------ MODULE ValueList ------------------------------
(***************************************************************************)
(* What a kjson array promises the program that uses it: a list of values, *)
(* with JSONArray_append, JSONArray_get, JSONArray_set, JSON_length and    *)
(* JSON_free.  JSONArray, with its two kinds of storage, is shown to       *)
(* implement it.                                                           *)
(***************************************************************************)
EXTENDS Integers, Sequences

CONSTANTS Elements,  \* the values a program puts in an array
          Indices,   \* the indices it asks for
          Absent     \* what a get beyond the end returns

VARIABLES elems,     \* the values, in order
          open,      \* the array has not been freed
          freed,     \* the values JSON_free released with it
          ret        \* what the last get or length call returned

vars == <<elems, open, freed, ret>>

\* An array may be born with values: those that were parsed, or unset ones.
Init == /\ open = TRUE
        /\ freed = <<>>
        /\ ret = Absent

Append_(v) == /\ open
              /\ elems' = Append(elems, v)
              /\ UNCHANGED <<open, freed, ret>>

Set(n, v) == /\ open
             /\ elems' = [k \in DOMAIN elems |-> IF k = n + 1 THEN v ELSE elems[k]]
             /\ UNCHANGED <<open, freed, ret>>

Get(n) == /\ open
          /\ ret' = IF n + 1 \in DOMAIN elems THEN elems[n + 1] ELSE Absent
          /\ UNCHANGED <<elems, open, freed>>

Length == /\ open
          /\ ret' = Len(elems)
          /\ UNCHANGED <<elems, open, freed>>

Free == /\ open
        /\ open' = FALSE
        /\ freed' = elems
        /\ elems' = <<>>
        /\ UNCHANGED ret

Next == \/ \E v \in Elements : Append_(v)
        \/ \E n \in Indices : Get(n) \/ \E v \in Elements : Set(n, v)
        \/ Length
        \/ Free

Spec == Init /\ [][Next]_vars
=============================================================================
