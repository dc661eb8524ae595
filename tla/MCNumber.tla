------------------------------- MODULE MCNumber -------------------------------
(***************************************************************************)
(* Number with values for TLC: integers of few bits, so that texts of a    *)
(* few characters overflow them.                                           *)
(***************************************************************************)
EXTENDS Number
=============================================================================
