---------------------------- MODULE MCMemoryPool ----------------------------
(***************************************************************************)
(* MemoryPool for TLC.  The alignment is 2, requests above 8 are large and *)
(* a block has 16 bytes: 6 and 8 share a class, in which a block is given  *)
(* up with a rest of 2 or 4 bytes.                                         *)
(***************************************************************************)
EXTENDS MemoryPool, TLC

CONSTANTS b1, b2, b3, b4, b5

SymmetricBlocks == Permutations(Blocks)
=============================================================================
