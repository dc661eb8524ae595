---------------------------- MODULE MCJSONArray ----------------------------
(***************************************************************************)
(* JSONArray for TLC: arrays of up to eight elements, so that a list that  *)
(* JSONArray_append made (8 cells) and parsed ones (3 and 4 cells) grow.   *)
(***************************************************************************)
EXTENDS JSONArray, TLC

CONSTANTS v1, v2

SymmetricElements == Permutations(Elements)
=============================================================================
