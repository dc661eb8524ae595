----------------------------- MODULE MemoryPool -----------------------------
(***************************************************************************)
(* JSONMemoryPool (kmemory_pool.h), from which every node of a kjson       *)
(* document is allocated.  The pool has one page per size class; a page is *)
(* a list of blocks, of which the last is filled from its start.  Nothing  *)
(* is given back before JSONMemoryPool_Delete frees the blocks.            *)
(***************************************************************************)
EXTENDS Integers, FiniteSets, FiniteSetsExt

CONSTANTS
  MinAlignLog2,  \* MIN_ALIGN_LOG2, 4 in the code
  MaxAlignLog2,  \* MAX_ALIGN_LOG2, 9 in the code
  BlockSize,     \* MEMORYBLOCK_SIZE, 16 KiB in the code
  Sizes,         \* the numbers of bytes that are asked for
  Blocks         \* what malloc can return (a bound: it never fails here)

Unit    == 2 ^ MinAlignLog2
Largest == 2 ^ MaxAlignLog2
Classes == 0 .. MaxAlignLog2 - MinAlignLog2

\* ALIGN(n, 1 << MIN_ALIGN_LOG2).
Align(n) == ((n + Unit - 1) \div Unit) * Unit

\* LOG2(size) - MIN_ALIGN_LOG2, the class of an aligned size.
ClassOf(size) == Min({e \in 0 .. size : 2 ^ e >= size}) - MinAlignLog2

ASSUME PoolAssumption ==
  /\ MinAlignLog2 \in Nat /\ MaxAlignLog2 \in Nat
  /\ MinAlignLog2 <= MaxAlignLog2
  /\ Unit \in Nat \ {0} /\ BlockSize \in Nat
  /\ Sizes \subseteq Nat \ {0}
  /\ \A n \in Sizes :
       n <= Largest => /\ Align(n) \in n .. BlockSize
                       /\ ClassOf(Align(n)) \in Classes

VARIABLES
  block,    \* array: class -> the set of its blocks
  base,     \* current_block: class -> the block being filled ...
  current,  \* ... and how far it is filled
  freed,    \* block -> how many times it was passed to free
  given,    \* what Alloc returned: block, offset, bytes asked for
  deleted   \* JSONMemoryPool_Delete was called

vars == <<block, base, current, freed, given, deleted>>

Regions == [in : Blocks, at : Nat, size : Nat \ {0}]

\* The blocks malloc has returned, to the pool or for a large request.
Malloced == (UNION {block[c] : c \in Classes}) \cup {g.in : g \in given}

Fresh == Blocks \ Malloced
-----------------------------------------------------------------------------
Init == /\ base \in [Classes -> Blocks]
        /\ \A c, e \in Classes : base[c] = base[e] => c = e
        /\ block = [c \in Classes |-> {base[c]}]
        /\ current = [c \in Classes |-> 0]
        /\ freed = [b \in Blocks |-> 0]
        /\ given = {}
        /\ deleted = FALSE

\* A request above 1 << MAX_ALIGN_LOG2 goes to malloc: it is the caller's.
AllocLarge(n, b) ==
  /\ n > Largest
  /\ given' = given \cup {[in |-> b, at |-> 0, size |-> n]}
  /\ UNCHANGED <<block, base, current>>

\* Mutations: any rest of the block will do; the bytes are not aligned.
AllocCurrentAnyRest(n) ==
  LET c == ClassOf(Align(n)) IN
  /\ n <= Largest
  /\ current[c] < BlockSize
  /\ given' = given \cup {[in |-> base[c], at |-> current[c], size |-> n]}
  /\ current' = [current EXCEPT ![c] = @ + Align(n)]
  /\ UNCHANGED <<block, base>>

AllocCurrentUnaligned(n) ==
  LET c == ClassOf(Align(n)) IN
  /\ n <= Largest
  /\ current[c] + Align(n) <= BlockSize
  /\ given' = given \cup {[in |-> base[c], at |-> current[c], size |-> n]}
  /\ current' = [current EXCEPT ![c] = @ + n]
  /\ UNCHANGED <<block, base>>

\* The rest of the block is large enough.
AllocCurrent(n) ==
  LET c == ClassOf(Align(n)) IN
  /\ n <= Largest
  /\ current[c] + Align(n) <= BlockSize
  /\ given' = given \cup {[in |-> base[c], at |-> current[c], size |-> n]}
  /\ current' = [current EXCEPT ![c] = @ + Align(n)]
  /\ UNCHANGED <<block, base>>

\* Mutation: the new block is filled from its start again.
AllocBlockFromStart(n, b) ==
  LET c == ClassOf(Align(n)) IN
  /\ n <= Largest
  /\ current[c] + Align(n) > BlockSize
  /\ base' = [base EXCEPT ![c] = b]
  /\ current' = [current EXCEPT ![c] = 0]
  /\ block' = [block EXCEPT ![c] = @ \cup {b}]
  /\ given' = given \cup {[in |-> b, at |-> 0, size |-> n]}

\* It is not: its rest is given up for a new block.
AllocBlock(n, b) ==
  LET c == ClassOf(Align(n)) IN
  /\ n <= Largest
  /\ current[c] + Align(n) > BlockSize
  /\ base' = [base EXCEPT ![c] = b]
  /\ current' = [current EXCEPT ![c] = Align(n)]
  /\ block' = [block EXCEPT ![c] = @ \cup {b}]
  /\ given' = given \cup {[in |-> b, at |-> 0, size |-> n]}

Alloc(n) ==
  /\ ~ deleted
  /\ AllocCurrent(n) \/ \E b \in Fresh : AllocLarge(n, b) \/ AllocBlock(n, b)
  /\ UNCHANGED <<freed, deleted>>

\* JSONMemoryPool_Free does nothing: see JSON_free.
Free == UNCHANGED vars

\* Mutation: only the last block of a page is freed.
DeleteLast ==
  /\ ~ deleted
  /\ deleted' = TRUE
  /\ freed' = [b \in Blocks |-> freed[b] + Cardinality({c \in Classes : b = base[c]})]
  /\ UNCHANGED <<block, base, current, given>>

\* Frees the blocks of every page.
Delete ==
  /\ ~ deleted
  /\ deleted' = TRUE
  /\ freed' = [b \in Blocks |->
                 freed[b] + Cardinality({c \in Classes : b \in block[c]})]
  /\ UNCHANGED <<block, base, current, given>>

Next == \/ \E n \in Sizes : Alloc(n)
        \/ Delete
        \/ Free

Spec == Init /\ [][Next]_vars
-----------------------------------------------------------------------------
\* The type of every variable.
TypeOK == /\ block \in [Classes -> SUBSET Blocks]
          /\ base \in [Classes -> Blocks]
          /\ current \in [Classes -> 0 .. BlockSize]
          /\ freed \in [Blocks -> Nat]
          /\ given \subseteq Regions
          /\ deleted \in BOOLEAN

\* No byte is ever handed out twice: two results of Alloc, of any two sizes and
\* however much was allocated between them, do not overlap.
Disjoint ==
  \A g, h \in given : g.in = h.in => \/ g = h
                                     \/ g.at + g.size <= h.at
                                     \/ h.at + h.size <= g.at

\* A result of Alloc has the bytes asked for, inside one block of the pool, and
\* starts at a multiple of the alignment; a large one is a block of its own,
\* which the pool does not know.
Contained ==
  \A g \in given : \/ /\ \E c \in Classes : g.in \in block[c]
                      /\ g.at + g.size <= BlockSize
                      /\ g.at % Unit = 0
                   \/ /\ \A c \in Classes : g.in \notin block[c]
                      /\ g.at = 0 /\ g.size > Largest

\* Delete frees each block of the pool exactly once, and never the memory of a
\* large request: that stays its caller's to free.
FreedOnce ==
  \A b \in Blocks :
    freed[b] = IF deleted /\ \E c \in Classes : b \in block[c] THEN 1 ELSE 0
=============================================================================
