----------------------------- MODULE Dictionary -----------------------------
(***************************************************************************)
(* What a kjson object promises the program that uses it: a finite map     *)
(* from member names to values, with JSONObject_set, JSON_get, JSON_length *)
(* and JSON_free.  KMap, the map in kmap.c, is shown to implement it.      *)
(***************************************************************************)
EXTENDS Integers, FiniteSets

CONSTANTS Names,     \* the texts of member names
          Removable, \* the names of members that can be removed
          Members,   \* the values a member can have
          Absent     \* what a lookup returns when there is no such member

VARIABLES dict,      \* name -> value, or Absent
          open,      \* the object has not been freed
          ret        \* what the last lookup or length call returned

vars == <<dict, open, ret>>

Present == {n \in Names : dict[n] # Absent}

Init == /\ dict = [n \in Names |-> Absent]
        /\ open = TRUE
        /\ ret = Absent

Set(n, v) == /\ open
             /\ dict' = [dict EXCEPT ![n] = v]
             /\ UNCHANGED <<open, ret>>

Remove(n) == /\ open
             /\ dict' = [dict EXCEPT ![n] = Absent]
             /\ UNCHANGED <<open, ret>>

Get(n) == /\ open
          /\ ret' = dict[n]
          /\ UNCHANGED <<dict, open>>

Length == /\ open
          /\ ret' = Cardinality(Present)
          /\ UNCHANGED <<dict, open>>

Free == /\ open
        /\ open' = FALSE
        /\ dict' = [n \in Names |-> Absent]
        /\ UNCHANGED ret

Next == \/ \E n \in Names, v \in Members : Set(n, v)
        \/ \E n \in Names : Get(n)
        \/ \E n \in Removable : Remove(n)
        \/ Length
        \/ Free

Spec == Init /\ [][Next]_vars
=============================================================================
