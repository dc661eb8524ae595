------------------------- MODULE MemoryPool_proofs -------------------------
(***************************************************************************)
(* Theorems about MemoryPool: results of Alloc lie in the pool's blocks,   *)
(* aligned, and never overlap, and Delete frees every block of the pool    *)
(* once.                                                                   *)
(***************************************************************************)
EXTENDS MemoryPool, FiniteSetTheorems, TLAPS

\* The pages share no block and each one's current block is one of its own.
Pages ==
  /\ \A c \in Classes : base[c] \in block[c]
  /\ \A c, e \in Classes, b \in Blocks : b \in block[c] /\ b \in block[e] => c = e

\* What was given out of a block that is being filled lies in its filled part.
Filled ==
  \A g \in given, c \in Classes : g.in = base[c] => g.at + g.size <= current[c]

\* What is handed out next is aligned.
Aligned == \A c \in Classes : current[c] % Unit = 0

\* The inductive invariant.  Disjoint alone is not inductive: that the next
\* result does not overlap follows from Filled and from the blocks of the
\* classes being different, which is Pages.  Contained needs Aligned in turn.
IInv == TypeOK /\ Pages /\ Filled /\ Aligned /\ Disjoint /\ Contained /\ FreedOnce

\* Multiples of u.
LEMMA Multiples ==
  ASSUME NEW u \in Nat \ {0}
  PROVE  /\ \A q \in Nat : (q * u) % u = 0 /\ q * u \in Nat /\ q \div u \in Nat
         /\ \A a, b \in Nat : a % u = 0 /\ b % u = 0 => (a + b) % u = 0
<1>1. ASSUME NEW q \in Nat
      PROVE  (q * u) % u = 0 /\ q * u \in Nat
  OBVIOUS
<1>2. ASSUME NEW q \in Nat
      PROVE  q \div u \in Nat
  OBVIOUS
<1>3. ASSUME NEW a \in Nat, NEW b \in Nat, a % u = 0, b % u = 0
      PROVE  (a + b) % u = 0
  <2>1. a = u * (a \div u) /\ b = u * (b \div u) /\ a \div u \in Nat /\ b \div u \in Nat
    BY <1>2, <1>3
  <2>2. a + b = (a \div u + b \div u) * u
    BY <2>1
  <2> DEFINE q == a \div u + b \div u
  <2>3. q \in Nat /\ a + b = q * u
    BY <2>1, <2>2
  <2> HIDE DEF q
  <2> QED
    BY <1>1, <2>3
<1> QED
  BY <1>1, <1>2, <1>3

\* Bytes are asked for in multiples of the alignment.
LEMMA AlignIsAligned ==
  ASSUME NEW n \in Nat, NEW m \in Nat, m % Unit = 0
  PROVE  (m + Align(n)) % Unit = 0
<1>1. Unit \in Nat \ {0} /\ n + Unit - 1 \in Nat
  BY PoolAssumption
<1> DEFINE q == (n + Unit - 1) \div Unit
<1>2. q \in Nat /\ Align(n) = q * Unit
  BY <1>1, Multiples DEF Align
<1> HIDE DEF q
<1>3. Align(n) \in Nat /\ Align(n) % Unit = 0
  BY <1>1, <1>2, Multiples
<1> QED
  BY <1>1, <1>3, Multiples

LEMMA InitInv == Init => IInv
<1> SUFFICES ASSUME Init PROVE IInv
  OBVIOUS
<1>1. TypeOK
  <2>1. base \in [Classes -> Blocks] /\ block = [c \in Classes |-> {base[c]}]
    BY DEF Init
  <2>2. block \in [Classes -> SUBSET Blocks]
    BY <2>1
  <2>3. 0 \in 0 .. BlockSize
    BY PoolAssumption
  <2> QED
    BY <2>1, <2>2, <2>3 DEF Init, TypeOK
<1>2. Pages /\ Filled /\ Disjoint /\ Contained /\ FreedOnce
  BY DEF Init, Pages, Filled, Disjoint, Contained, FreedOnce
<1>3. Aligned
  BY PoolAssumption DEF Init, Aligned
<1> QED
  BY <1>1, <1>2, <1>3 DEF IInv

\* A block malloc returns is in no page, and nothing was given out of it.
LEMMA FreshBlock ==
  ASSUME NEW b \in Fresh
  PROVE  /\ b \in Blocks
         /\ \A c \in Classes : b \notin block[c]
         /\ \A g \in given : g.in # b
<1>1. b \in Blocks /\ b \notin (UNION {block[c] : c \in Classes})
  BY DEF Fresh, Malloced
<1>2. b \notin {g.in : g \in given}
  BY DEF Fresh, Malloced
<1> QED
  BY <1>1, <1>2

LEMMA LargeInv ==
  ASSUME IInv, NEW n \in Sizes, NEW b \in Fresh, AllocLarge(n, b),
         UNCHANGED <<freed, deleted>>
  PROVE  IInv'
<1> DEFINE new == [in |-> b, at |-> 0, size |-> n]
<1>1. new \in Regions /\ new.in = b
  BY FreshBlock, PoolAssumption DEF Regions
<1>2. given' = given \cup {new} /\ UNCHANGED <<block, base, current, freed, deleted>>
  BY DEF AllocLarge
<1> HIDE DEF new
<1>3. TypeOK'
  BY <1>1, <1>2 DEF IInv, TypeOK
<1>4. Pages' /\ FreedOnce' /\ Aligned'
  BY <1>2 DEF IInv, Pages, FreedOnce, Aligned
<1>5. Filled'
  BY <1>1, <1>2, FreshBlock DEF IInv, Filled, Pages
<1>6. Disjoint'
  BY <1>1, <1>2, FreshBlock DEF IInv, Disjoint
<1>7. Contained'
  <2>1. new.at = 0 /\ new.size > Largest
    BY DEF AllocLarge, new
  <2> QED
    BY <1>1, <1>2, <2>1, FreshBlock DEF IInv, Contained
<1> QED
  BY <1>3, <1>4, <1>5, <1>6, <1>7 DEF IInv

LEMMA CurrentInv ==
  ASSUME IInv, NEW n \in Sizes, AllocCurrent(n), UNCHANGED <<freed, deleted>>
  PROVE  IInv'
<1> DEFINE c == ClassOf(Align(n))
           new == [in |-> base[c], at |-> current[c], size |-> n]
<1>1. /\ c \in Classes /\ n \in Nat \ {0}
      /\ Align(n) \in n .. BlockSize /\ BlockSize \in Nat
  BY PoolAssumption DEF AllocCurrent
<1>2. /\ given' = given \cup {new}
      /\ current' = [current EXCEPT ![c] = current[c] + Align(n)]
      /\ current[c] + Align(n) <= BlockSize
      /\ UNCHANGED <<block, base, freed, deleted>>
  BY DEF AllocCurrent
<1>3. new \in Regions /\ new.in = base[c] /\ new.at = current[c] /\ new.size = n
  BY <1>1 DEF Regions, IInv, TypeOK
<1>4. current[c] \in Nat /\ Align(n) \in Nat /\ n <= Align(n)
  BY <1>1 DEF IInv, TypeOK
<1> HIDE DEF c, new
<1>5. current'[c] = current[c] + Align(n)
      /\ \A e \in Classes : e # c => current'[e] = current[e]
  BY <1>1, <1>2 DEF IInv, TypeOK
<1>6. TypeOK'
  BY <1>1, <1>2, <1>3, <1>4 DEF IInv, TypeOK
<1>7. Pages' /\ FreedOnce'
  BY <1>2 DEF IInv, Pages, FreedOnce
<1>8. Filled'
  <2> SUFFICES ASSUME NEW g \in given', NEW e \in Classes, g.in = base[e]
               PROVE  g.at + g.size <= current'[e]
    BY <1>2 DEF Filled
  <2>1. g \in Regions
    BY <1>6 DEF TypeOK
  <2>2. CASE g = new
    <3>1. e = c
      BY <1>1, <1>3, <2>2 DEF IInv, Pages, TypeOK
    <3> QED
      BY <1>1, <1>3, <1>4, <1>5, <2>2, <3>1
  <2>3. CASE g \in given
    <3>1. g.at + g.size <= current[e]
      BY <2>3 DEF IInv, Filled
    <3>2. current[e] <= current'[e] /\ current[e] \in Nat /\ current'[e] \in Nat
      BY <1>4, <1>5, <1>6 DEF IInv, TypeOK
    <3> QED
      BY <2>1, <3>1, <3>2 DEF Regions
  <2> QED
    BY <1>2, <2>2, <2>3
<1>9. Disjoint'
  <2>1. \A h \in given : h.in = new.in => h.at + h.size <= new.at
    BY <1>1, <1>3 DEF IInv, Filled
  <2> QED
    BY <1>2, <2>1 DEF IInv, Disjoint
<1>10. Aligned'
  BY <1>1, <1>2, <1>4, <1>5, AlignIsAligned DEF IInv, Aligned
<1>11. Contained'
  <2>1. new.at + new.size <= BlockSize /\ new.at % Unit = 0
    BY <1>1, <1>2, <1>3, <1>4 DEF IInv, Aligned
  <2> QED
    BY <1>1, <1>2, <1>3, <2>1 DEF IInv, Pages, Contained
<1> QED
  BY <1>6, <1>7, <1>8, <1>9, <1>10, <1>11 DEF IInv

LEMMA BlockInv ==
  ASSUME IInv, NEW n \in Sizes, NEW b \in Fresh, AllocBlock(n, b), ~ deleted,
         UNCHANGED <<freed, deleted>>
  PROVE  IInv'
<1> DEFINE c == ClassOf(Align(n))
           new == [in |-> b, at |-> 0, size |-> n]
<1>1. /\ c \in Classes /\ n \in Nat \ {0}
      /\ Align(n) \in n .. BlockSize /\ BlockSize \in Nat
  BY PoolAssumption DEF AllocBlock
<1>2. /\ given' = given \cup {new}
      /\ current' = [current EXCEPT ![c] = Align(n)]
      /\ base' = [base EXCEPT ![c] = b]
      /\ block' = [block EXCEPT ![c] = block[c] \cup {b}]
      /\ UNCHANGED <<freed, deleted>>
  BY DEF AllocBlock
<1>3. new \in Regions /\ new.in = b /\ new.at = 0 /\ new.size = n
  BY <1>1, FreshBlock DEF Regions
<1> HIDE DEF c, new
<1>4. /\ base'[c] = b /\ current'[c] = Align(n) /\ block'[c] = block[c] \cup {b}
      /\ \A e \in Classes : e # c => /\ base'[e] = base[e]
                                     /\ current'[e] = current[e]
                                     /\ block'[e] = block[e]
  BY <1>1, <1>2 DEF IInv, TypeOK
<1>5. TypeOK'
  BY <1>1, <1>2, <1>3, FreshBlock DEF IInv, TypeOK
<1>6. Pages'
  BY <1>4, FreshBlock DEF IInv, Pages
<1>7. Filled'
  <2> SUFFICES ASSUME NEW g \in given', NEW e \in Classes, g.in = base'[e]
               PROVE  g.at + g.size <= current'[e]
    BY DEF Filled
  <2>1. CASE g = new
    <3>1. e = c
      BY <1>3, <1>4, <2>1, FreshBlock DEF IInv, Pages
    <3> QED
      BY <1>1, <1>3, <1>4, <2>1, <3>1
  <2>2. CASE g \in given
    <3>1. e # c
      BY <1>4, <2>2, FreshBlock
    <3> QED
      BY <1>4, <2>2, <3>1 DEF IInv, Filled
  <2> QED
    BY <1>2, <2>1, <2>2
<1>8. Disjoint'
  BY <1>2, <1>3, FreshBlock DEF IInv, Disjoint
<1>9. FreedOnce'
  BY <1>2 DEF IInv, FreedOnce
<1>10. Aligned'
  <2>1. Align(n) % Unit = 0
    <3>1. (0 + Align(n)) % Unit = 0
      BY <1>1, PoolAssumption, AlignIsAligned
    <3> QED
      BY <1>1, <3>1
  <2> QED
    BY <1>4, <2>1 DEF IInv, Aligned
<1>11. Contained'
  <2>1. new.at + new.size <= BlockSize /\ new.at % Unit = 0 /\ new.in \in block'[c]
    BY <1>1, <1>3, <1>4, PoolAssumption
  <2>2. \A g \in given : \A e \in Classes : g.in \in block'[e] <=> g.in \in block[e]
    BY <1>1, <1>4, FreshBlock DEF IInv, TypeOK
  <2> QED
    BY <1>1, <1>2, <2>1, <2>2 DEF IInv, Contained
<1> QED
  BY <1>5, <1>6, <1>7, <1>8, <1>9, <1>10, <1>11 DEF IInv

LEMMA DeleteInv == ASSUME IInv, Delete PROVE IInv'
<1> DEFINE In(b) == {c \in Classes : b \in block[c]}
<1>1. ASSUME NEW b \in Blocks
      PROVE  Cardinality(In(b)) =
               IF \E c \in Classes : b \in block[c] THEN 1 ELSE 0
  <2>1. CASE \E c \in Classes : b \in block[c]
    <3>1. PICK c \in Classes : b \in block[c]
      BY <2>1
    <3>2. In(b) = {c}
      BY <3>1 DEF IInv, Pages
    <3> QED
      BY <2>1, <3>2, FS_Singleton
  <2>2. CASE ~ \E c \in Classes : b \in block[c]
    <3>1. In(b) = {}
      BY <2>2
    <3> QED
      BY <2>2, <3>1, FS_EmptySet
  <2> QED
    BY <2>1, <2>2
<1>2. /\ freed' = [b \in Blocks |-> freed[b] + Cardinality(In(b))]
      /\ deleted' = TRUE /\ ~ deleted
      /\ UNCHANGED <<block, base, current, given>>
  BY DEF Delete
<1> HIDE DEF In
<1>3. \A b \in Blocks : freed'[b] = IF \E c \in Classes : b \in block[c] THEN 1 ELSE 0
  BY <1>1, <1>2 DEF IInv, FreedOnce
<1>4. freed' \in [Blocks -> Nat]
  BY <1>2, <1>3
<1>5. TypeOK' /\ Pages' /\ Filled' /\ Aligned' /\ Disjoint' /\ Contained'
  BY <1>2, <1>4 DEF IInv, TypeOK, Pages, Filled, Aligned, Disjoint, Contained
<1>6. FreedOnce'
  BY <1>2, <1>3 DEF FreedOnce
<1> QED
  BY <1>5, <1>6 DEF IInv

LEMMA NextInv == IInv /\ [Next]_vars => IInv'
<1> SUFFICES ASSUME IInv, [Next]_vars PROVE IInv'
  OBVIOUS
<1>1. ASSUME NEW n \in Sizes, Alloc(n)
      PROVE  IInv'
  BY <1>1, LargeInv, CurrentInv, BlockInv DEF Alloc
<1>2. CASE Delete
  BY <1>2, DeleteInv
<1>3. CASE UNCHANGED vars
  BY <1>3 DEF vars, IInv, TypeOK, Pages, Filled, Aligned, Disjoint, Contained, FreedOnce
<1> QED
  BY <1>1, <1>2, <1>3 DEF Next, Free

LEMMA Invariance == Spec => []IInv
  BY InitInv, NextInv, PTL DEF Spec

\* Every variable of the pool keeps its type.
THEOREM Typing == Spec => []TypeOK
<1>1. IInv => TypeOK
  BY DEF IInv
<1> QED
  BY <1>1, Invariance, PTL

\* No byte of the pool is ever handed out twice.
THEOREM NoOverlap == Spec => []Disjoint
<1>1. IInv => Disjoint
  BY DEF IInv
<1> QED
  BY <1>1, Invariance, PTL

\* What Alloc returns lies inside one block of its page and is aligned, or is a
\* block of its own.
THEOREM WithinBlocks == Spec => []Contained
<1>1. IInv => Contained
  BY DEF IInv
<1> QED
  BY <1>1, Invariance, PTL

\* Delete frees each block of the pool once and nothing else.
THEOREM BlocksFreedOnce == Spec => []FreedOnce
<1>1. IInv => FreedOnce
  BY DEF IInv
<1> QED
  BY <1>1, Invariance, PTL
=============================================================================
