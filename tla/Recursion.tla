------------------------------- MODULE Recursion -------------------------------
(***************************************************************************)
(* Induction and recursion in a first-order form.  The induction theorems  *)
(* of the library have a predicate for a parameter; here it is a set, and  *)
(* the step of a recursive definition is a function.                       *)
(***************************************************************************)
EXTENDS Integers, Sequences, SequenceTheorems, WellFoundedInduction, TLAPS

\* What holds for 0, and for the next number whenever it holds for one.
LEMMA InductionTo ==
  ASSUME NEW n \in Nat, NEW S, 0 \in S, \A i \in 0 .. n - 1 : i \in S => i + 1 \in S
  PROVE  \A i \in 0 .. n : i \in S
<1> SUFFICES ASSUME NEW j \in 0 .. n, j \notin S
             PROVE  FALSE
  OBVIOUS
<1> DEFINE R == {ss \in Nat \X Nat : ss[1] < ss[2]}
           T == {i \in 0 .. n : i \notin S}
<1>1. IsWellFoundedOn(R, Nat)
  BY NatLessThanWellFounded DEF OpToRel
<1>2. ASSUME NEW x \in Nat, NEW y \in Nat, y < x
      PROVE  <<y, x>> \in R
  BY <1>2 DEF R
<1>3. T \subseteq Nat /\ T # {}
  OBVIOUS
<1> HIDE DEF R
<1>4. PICK k \in T : \A i \in T : ~ (<<i, k>> \in R)
  <2> HIDE DEF T
  <2> QED
    BY <1>1, <1>3, WFMin
<1>5. k \in 0 .. n /\ k \notin S /\ k # 0
  OBVIOUS
<1>6. k - 1 \in 0 .. n - 1 /\ k - 1 \in Nat /\ k \in Nat /\ k - 1 < k
  BY <1>5
<1>7. k - 1 \notin T
  BY <1>2, <1>4, <1>6
<1>8. k - 1 \in S
  BY <1>6, <1>7
<1>9. (k - 1) + 1 \in S
  BY <1>6, <1>8
<1> QED
  BY <1>5, <1>9

LEMMA Induction ==
  ASSUME NEW S, 0 \in S, \A i \in Nat : i \in S => i + 1 \in S
  PROVE  \A i \in Nat : i \in S
<1> TAKE n \in Nat
<1> QED
  BY InductionTo

\* f is defined by recursion up to n.
Follows(f, n, base, step) ==
  f[0] = base /\ \A i \in 1 .. n : f[i] = step[<<i, f[i - 1]>>]

\* A recursive definition defines something.
LEMMA RecursionDefines ==
  ASSUME NEW S, NEW base \in S, NEW n \in Nat, NEW step \in [(1 .. n) \X S -> S]
  PROVE  \E f \in [0 .. n -> S] : Follows(f, n, base, step)
<1> DEFINE K == {k \in 0 .. n : \E f \in [0 .. k -> S] : Follows(f, k, base, step)}
<1>1. 0 \in K
  <2> DEFINE f == [i \in 0 .. 0 |-> base]
  <2>1. f \in [0 .. 0 -> S] /\ Follows(f, 0, base, step)
    BY DEF Follows
  <2> QED
    BY <2>1
<1>2. ASSUME NEW k \in 0 .. n - 1, k \in K
      PROVE  k + 1 \in K
  <2>1. PICK f \in [0 .. k -> S] : Follows(f, k, base, step)
    BY <1>2
  <2> DEFINE g == [i \in 0 .. k + 1 |-> IF i = k + 1 THEN step[<<k + 1, f[k]>>] ELSE f[i]]
  <2>2. step[<<k + 1, f[k]>>] \in S
    OBVIOUS
  <2>3. g \in [0 .. k + 1 -> S]
    BY <2>2
  <2>4. \A i \in 1 .. k : g[i] = f[i] /\ g[i - 1] = f[i - 1]
    OBVIOUS
  <2>5. g[k + 1] = step[<<k + 1, f[k]>>] /\ g[k] = f[k] /\ g[0] = f[0]
    OBVIOUS
  <2> HIDE DEF g
  <2>6. Follows(g, k + 1, base, step)
    <3> SUFFICES ASSUME NEW i \in 1 .. k + 1
                 PROVE  g[i] = step[<<i, g[i - 1]>>]
      BY <2>1, <2>5 DEF Follows
    <3>1. CASE i = k + 1
      BY <2>5, <3>1
    <3>2. CASE i \in 1 .. k
      BY <2>1, <2>4, <3>2 DEF Follows
    <3> QED
      BY <3>1, <3>2
  <2> QED
    BY <2>3, <2>6
<1>3. n \in K
  <2> HIDE DEF K
  <2> QED
    BY <1>1, <1>2, InductionTo
<1> QED
  BY <1>3

\* Two recursive definitions that agree up to n define the same there.
LEMMA RecursionUnique ==
  ASSUME NEW n \in Nat, NEW base, NEW step, NEW f, NEW g,
         Follows(f, n, base, step), Follows(g, n, base, step)
  PROVE  \A i \in 0 .. n : f[i] = g[i]
<1> DEFINE K == {i \in 0 .. n : f[i] = g[i]}
<1>1. 0 \in K
  BY DEF Follows
<1>2. ASSUME NEW i \in 0 .. n - 1, i \in K
      PROVE  i + 1 \in K
  <2>1. i + 1 \in 1 .. n /\ (i + 1) - 1 = i
    OBVIOUS
  <2>2. f[i + 1] = step[<<i + 1, f[i]>>] /\ g[i + 1] = step[<<i + 1, g[i]>>]
    BY <2>1 DEF Follows
  <2> QED
    BY <1>2, <2>1, <2>2
<1>3. \A i \in 0 .. n : i \in K
  <2> HIDE DEF K
  <2> QED
    BY <1>1, <1>2, InductionTo
<1> QED
  BY <1>3
=============================================================================
