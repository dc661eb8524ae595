------------------------------ MODULE MCDocument ------------------------------
(***************************************************************************)
(* Document with values for TLC.                                           *)
(***************************************************************************)
EXTENDS Document

\* The names are interchangeable.
Symmetry == Permutations(Names)
=============================================================================
