---------------------------- MODULE Document_proofs ----------------------------
(***************************************************************************)
(* Theorems about Document, for all numbers of nodes, names, depths of the *)
(* stack and counts.                                                       *)
(***************************************************************************)
EXTENDS Document, FiniteSetTheorems, FunctionTheorems, SequenceTheorems,
        WellFoundedInduction, TLAPS

(***************************************************************************)
(* Counting references.                                                    *)
(***************************************************************************)
LEMMA MinIsMember ==
  ASSUME NEW S, S \subseteq Nat, S # {}
  PROVE  Min(S) \in S /\ \A y \in S : Min(S) <= y
<1> DEFINE R == {ss \in Nat \X Nat : ss[1] < ss[2]}
<1>1. IsWellFoundedOn(R, Nat)
  BY NatLessThanWellFounded DEF OpToRel
<1> HIDE DEF R
<1>2. PICK n \in S : \A y \in S : ~ (<<y, n>> \in R)
  BY <1>1, WFMin
<1>3. ASSUME NEW x \in Nat, NEW y \in Nat, y < x
      PROVE  <<y, x>> \in R
  BY <1>3 DEF R
<1>4. \A y \in S : n <= y
  <2>1. ASSUME NEW y \in S, ~ n <= y
        PROVE  FALSE
    <3>1. n \in Nat /\ y \in Nat /\ y < n
      BY <2>1
    <3> QED
      BY <1>2, <1>3, <2>1, <3>1
  <2> QED
    BY <2>1
<1> QED
  BY <1>4 DEF Min

LEMMA OccurrencesNat ==
  ASSUME NEW f, IsFiniteSet(DOMAIN f), NEW x
  PROVE  /\ IsFiniteSet({n \in DOMAIN f : f[n] = x})
         /\ Occurrences(x, f) \in Nat
         /\ Occurrences(x, f) = 0 <=> \A n \in DOMAIN f : f[n] # x
<1> DEFINE S == {n \in DOMAIN f : f[n] = x}
<1>1. IsFiniteSet(S)
  BY FS_Subset
<1>2. Cardinality(S) \in Nat /\ (Cardinality(S) = 0 <=> S = {})
  BY <1>1, FS_CardinalityType, FS_EmptySet
<1> QED
  BY <1>1, <1>2 DEF Occurrences

LEMMA OccurrencesSome ==
  ASSUME NEW f, IsFiniteSet(DOMAIN f), NEW x
  PROVE  Occurrences(x, f) > 0 <=> \E n \in DOMAIN f : f[n] = x
<1>1. Occurrences(x, f) \in Nat /\ (Occurrences(x, f) = 0 <=> \A n \in DOMAIN f : f[n] # x)
  BY OccurrencesNat
<1> QED
  BY <1>1

\* g is f but for its value at a, where it is y.
LEMMA OccurrencesChange ==
  ASSUME NEW f, IsFiniteSet(DOMAIN f), NEW g, NEW a, NEW y, NEW x,
         DOMAIN g = DOMAIN f \cup {a}, g[a] = y,
         \A n \in DOMAIN f \ {a} : g[n] = f[n]
  PROVE  /\ IsFiniteSet(DOMAIN g)
         /\ Occurrences(x, g) + (IF a \in DOMAIN f /\ f[a] = x THEN 1 ELSE 0)
              = Occurrences(x, f) + (IF y = x THEN 1 ELSE 0)
<1> DEFINE F == {n \in DOMAIN f : f[n] = x}
           G == {n \in DOMAIN g : g[n] = x}
           R == {n \in DOMAIN f : n # a /\ f[n] = x}
<1>1. IsFiniteSet(DOMAIN g)
  BY FS_AddElement
<1>2. IsFiniteSet(R) /\ Cardinality(R) \in Nat /\ a \notin R
  <2>1. IsFiniteSet(R)
    BY FS_Subset
  <2> QED
    BY <2>1, FS_CardinalityType
<1>3. F = IF a \in DOMAIN f /\ f[a] = x THEN R \cup {a} ELSE R
  OBVIOUS
<1>4. G = IF y = x THEN R \cup {a} ELSE R
  OBVIOUS
<1>5. Cardinality(R \cup {a}) = Cardinality(R) + 1
  BY <1>2, FS_AddElement
<1> HIDE DEF R
<1>6. Cardinality(F) = Cardinality(R) + (IF a \in DOMAIN f /\ f[a] = x THEN 1 ELSE 0)
  <2> HIDE DEF F
  <2> QED BY <1>2, <1>3, <1>5
<1>7. Cardinality(G) = Cardinality(R) + (IF y = x THEN 1 ELSE 0)
  <2> HIDE DEF G
  <2> QED BY <1>2, <1>4, <1>5
<1> HIDE DEF F, G
<1>8. Cardinality(G) + (IF a \in DOMAIN f /\ f[a] = x THEN 1 ELSE 0)
        = Cardinality(F) + (IF y = x THEN 1 ELSE 0)
  BY <1>2, <1>6, <1>7
<1> QED
  BY <1>1, <1>8 DEF Occurrences, F, G

LEMMA OccurrencesReplaced ==
  ASSUME NEW f, IsFiniteSet(DOMAIN f), NEW i \in DOMAIN f, NEW y, NEW x
  PROVE  Occurrences(x, [f EXCEPT ![i] = y])
           = Occurrences(x, f) + (IF y = x THEN 1 ELSE 0) - (IF f[i] = x THEN 1 ELSE 0)
<1> DEFINE g == [f EXCEPT ![i] = y]
<1>1. /\ DOMAIN g = DOMAIN f \cup {i} /\ g[i] = y
      /\ \A n \in DOMAIN f \ {i} : g[n] = f[n]
  OBVIOUS
<1> HIDE DEF g
<1>2. IsFiniteSet(DOMAIN g)
      /\ Occurrences(x, g) + (IF i \in DOMAIN f /\ f[i] = x THEN 1 ELSE 0)
           = Occurrences(x, f) + (IF y = x THEN 1 ELSE 0)
  BY <1>1, OccurrencesChange, SMTT(30)
<1>3. Occurrences(x, g) \in Nat /\ Occurrences(x, f) \in Nat
  BY <1>2, OccurrencesNat
<1> QED
  BY <1>2, <1>3 DEF g

\* g is f without its value at a.
LEMMA OccurrencesWithout ==
  ASSUME NEW f, IsFiniteSet(DOMAIN f), NEW g, NEW a \in DOMAIN f, NEW x,
         DOMAIN g = DOMAIN f \ {a}, \A n \in DOMAIN g : g[n] = f[n]
  PROVE  /\ IsFiniteSet(DOMAIN g)
         /\ Occurrences(x, g) + (IF f[a] = x THEN 1 ELSE 0) = Occurrences(x, f)
<1> DEFINE F == {n \in DOMAIN f : f[n] = x}
           G == {n \in DOMAIN g : g[n] = x}
<1>1. IsFiniteSet(DOMAIN g)
  BY FS_RemoveElement
<1>2. IsFiniteSet(G) /\ Cardinality(G) \in Nat
  BY <1>1, OccurrencesNat DEF Occurrences
<1>3. F = (IF f[a] = x THEN G \cup {a} ELSE G) /\ a \notin G
  OBVIOUS
<1> HIDE DEF F, G
<1>4. Cardinality(F) = Cardinality(G) + (IF f[a] = x THEN 1 ELSE 0)
  <2>1. Cardinality(G \cup {a}) = Cardinality(G) + 1
    BY <1>2, <1>3, FS_AddElement
  <2> QED
    BY <1>2, <1>3, <2>1
<1> QED
  BY <1>1, <1>2, <1>4 DEF Occurrences, F, G

\* g yields what f yields, in another order.
LEMMA OccurrencesReordered ==
  ASSUME NEW f, IsFiniteSet(DOMAIN f), NEW A, NEW b \in Bijection(A, DOMAIN f),
         NEW g, DOMAIN g = A, \A n \in A : g[n] = f[b[n]], NEW x
  PROVE  Occurrences(x, g) = Occurrences(x, f)
<1> DEFINE F == {n \in DOMAIN f : f[n] = x}
           G == {n \in DOMAIN g : g[n] = x}
           c == [n \in G |-> b[n]]
<1>1. c \in Bijection(G, F)
  <2>1. b \in [A -> DOMAIN f] /\ (\A m, n \in A : b[m] = b[n] => m = n)
        /\ (\A n \in DOMAIN f : \E m \in A : b[m] = n)
    BY DEF Bijection, Injection, Surjection, IsInjective
  <2>2. c \in [G -> F]
    BY <2>1
  <2>3. \A m, n \in G : c[m] = c[n] => m = n
    BY <2>1
  <2>4. \A n \in F : \E m \in G : c[m] = n
    BY <2>1
  <2> HIDE DEF c, F, G
  <2> QED
    BY <2>2, <2>3, <2>4 DEF Bijection, Injection, Surjection, IsInjective
<1>2. IsFiniteSet(F)
  BY OccurrencesNat
<1> HIDE DEF c, F, G
<1>3. Cardinality(G) = Cardinality(F)
  <2>1. c \in Injection(G, F) /\ c \in Surjection(G, F)
    BY <1>1 DEF Bijection
  <2> QED
    BY <1>2, <2>1, FS_Injection
<1> QED
  BY <1>3 DEF Occurrences, F, G

LEMMA OccurrencesNone ==
  ASSUME NEW f, DOMAIN f = {}, NEW x
  PROVE  Occurrences(x, f) = 0
BY FS_EmptySet, OccurrencesNat

LEMMA SeqFinite ==
  ASSUME NEW S, NEW s \in Seq(S)
  PROVE  IsFiniteSet(DOMAIN s) /\ DOMAIN s = 1 .. Len(s) /\ Len(s) \in Nat
BY FS_Interval, LenProperties

LEMMA OccurrencesConcat ==
  ASSUME NEW S, NEW s \in Seq(S), NEW t \in Seq(S), NEW x
  PROVE  Occurrences(x, s \o t) = Occurrences(x, s) + Occurrences(x, t)
<1> DEFINE st == s \o t
           m == Len(s)
           A == {n \in DOMAIN s : s[n] = x}
           B == {n \in DOMAIN t : t[n] = x}
           C == {n \in DOMAIN st : st[n] = x}
           D == {n \in C : n > m}
           c == [n \in D |-> n - m]
<1>1. /\ DOMAIN s = 1 .. m /\ m \in Nat /\ DOMAIN t = 1 .. Len(t) /\ Len(t) \in Nat
      /\ DOMAIN st = 1 .. m + Len(t)
      /\ \A n \in 1 .. m + Len(t) : st[n] = IF n <= m THEN s[n] ELSE t[n - m]
  BY SeqFinite, ConcatProperties
<1>2. IsFiniteSet(A) /\ IsFiniteSet(B)
  BY SeqFinite, OccurrencesNat
<1> HIDE DEF st, m
<1>3. C = A \cup D /\ A \cap D = {}
  BY <1>1
<1>4. c \in Bijection(D, B)
  <2>1. c \in [D -> B]
    BY <1>1
  <2>2. \A k, n \in D : c[k] = c[n] => k = n
    BY <1>1
  <2>3. \A n \in B : n + m \in D /\ c[n + m] = n
    BY <1>1
  <2> HIDE DEF c, D, B
  <2> QED
    BY <2>1, <2>2, <2>3 DEF Bijection, Injection, Surjection, IsInjective
<1> HIDE DEF A, B, C, D, c
<1>5. IsFiniteSet(D) /\ Cardinality(D) = Cardinality(B)
  <2>1. c \in Injection(D, B) /\ c \in Surjection(D, B)
    BY <1>4 DEF Bijection
  <2> QED
    BY <1>2, <2>1, FS_Injection
<1>6. Cardinality(C) = Cardinality(A) + Cardinality(D)
  <2>1. Cardinality(A) \in Nat /\ Cardinality(D) \in Nat /\ Cardinality(A \cap D) = 0
    BY <1>2, <1>3, <1>5, FS_CardinalityType, FS_EmptySet
  <2>2. Cardinality(A \cup D) = Cardinality(A) + Cardinality(D) - Cardinality(A \cap D)
    BY <1>2, <1>5, FS_Union
  <2> QED
    BY <1>3, <2>1, <2>2
<1> QED
  BY <1>5, <1>6 DEF Occurrences, A, B, C, st

LEMMA OccurrencesAppend ==
  ASSUME NEW S, NEW s \in Seq(S), NEW y \in S, NEW x
  PROVE  Occurrences(x, Append(s, y)) = Occurrences(x, s) + (IF y = x THEN 1 ELSE 0)
<1> DEFINE g == Append(s, y)
           a == Len(s) + 1
<1>1. IsFiniteSet(DOMAIN s) /\ DOMAIN s = 1 .. Len(s) /\ Len(s) \in Nat
  BY SeqFinite
<1>2. /\ DOMAIN g = 1 .. a /\ g[a] = y
      /\ \A n \in 1 .. Len(s) : g[n] = s[n]
  BY AppendProperties, SeqFinite
<1>3. /\ DOMAIN g = DOMAIN s \cup {a} /\ g[a] = y /\ a \notin DOMAIN s
      /\ \A n \in DOMAIN s \ {a} : g[n] = s[n]
  BY <1>1, <1>2
<1> HIDE DEF g, a
<1>4. Occurrences(x, g) + (IF a \in DOMAIN s /\ s[a] = x THEN 1 ELSE 0)
        = Occurrences(x, s) + (IF y = x THEN 1 ELSE 0)
  BY <1>1, <1>3, OccurrencesChange, SMTT(30)
<1>5. Occurrences(x, g) \in Nat
  <2>1. IsFiniteSet(DOMAIN g)
    BY <1>1, <1>3, OccurrencesChange
  <2> QED
    BY <2>1, OccurrencesNat
<1> QED
  BY <1>3, <1>4, <1>5 DEF g

LEMMA OccurrencesSingle ==
  ASSUME NEW x, NEW y
  PROVE  Occurrences(x, <<y>>) = IF y = x THEN 1 ELSE 0
<1>1. CASE y = x
  <2>1. {n \in DOMAIN <<y>> : <<y>>[n] = x} = {1}
    BY <1>1
  <2> QED
    BY <1>1, <2>1, FS_Singleton DEF Occurrences
<1>2. CASE y # x
  <2>1. {n \in DOMAIN <<y>> : <<y>>[n] = x} = {}
    BY <1>2
  <2> QED
    BY <1>2, <2>1, FS_EmptySet DEF Occurrences
<1> QED
  BY <1>1, <1>2

LEMMA OccurrencesTail ==
  ASSUME NEW S, NEW s \in Seq(S), s # <<>>, NEW x
  PROVE  /\ Tail(s) \in Seq(S)
         /\ Occurrences(x, s) = Occurrences(x, Tail(s)) + (IF Head(s) = x THEN 1 ELSE 0)
<1>1. /\ Head(s) \in S /\ Tail(s) \in Seq(S)
      /\ s = <<Head(s)>> \o Tail(s) /\ <<Head(s)>> \in Seq(S)
  BY HeadTailProperties
<1> DEFINE h == Head(s)
           t == Tail(s)
<1> HIDE DEF h, t
<1>2. Occurrences(x, <<h>> \o t) = Occurrences(x, <<h>>) + Occurrences(x, t)
  BY <1>1, OccurrencesConcat DEF h, t
<1>3. Occurrences(x, t) \in Nat
  BY <1>1, SeqFinite, OccurrencesNat DEF t
<1>4. Occurrences(x, <<h>>) = IF h = x THEN 1 ELSE 0
  BY OccurrencesSingle
<1>5. s = <<h>> \o t /\ t \in Seq(S)
  BY <1>1 DEF h, t
<1>6. Occurrences(x, s) = Occurrences(x, t) + (IF h = x THEN 1 ELSE 0)
  BY <1>2, <1>3, <1>4, <1>5
<1> QED
  BY <1>5, <1>6 DEF h, t

\* A sequence in two parts.
LEMMA OccurrencesSplit ==
  ASSUME NEW S, NEW s \in Seq(S), NEW m \in 0 .. Len(s), NEW x
  PROVE  /\ SubSeq(s, 1, m) \in Seq(S) /\ SubSeq(s, m + 1, Len(s)) \in Seq(S)
         /\ Len(SubSeq(s, 1, m)) = m
         /\ \A n \in 1 .. m : SubSeq(s, 1, m)[n] = s[n]
         /\ Occurrences(x, s) = Occurrences(x, SubSeq(s, 1, m))
                                  + Occurrences(x, SubSeq(s, m + 1, Len(s)))
<1> DEFINE n == Len(s)
<1>1. n \in Nat /\ m \in Int /\ 0 <= m /\ m <= n /\ \A i \in 1 .. n : s[i] \in S
  BY LenProperties, ElementOfSeq
<1>2. /\ SubSeq(s, 1, m) \in Seq(S) /\ Len(SubSeq(s, 1, m)) = m
      /\ \A i \in 1 .. m : SubSeq(s, 1, m)[i] = s[i]
  BY <1>1, SubSeqProperties
<1>3. SubSeq(s, m + 1, n) \in Seq(S)
  BY <1>1, SubSeqProperties
<1>4. s = SubSeq(s, 1, m) \o SubSeq(s, m + 1, n)
  <2>1. 1 \in 1 .. Len(s) + 1 /\ m \in 1 - 1 .. Len(s) /\ Len(s) \in m .. Len(s)
    BY <1>1
  <2>2. SubSeq(s, 1, m) \o SubSeq(s, m + 1, Len(s)) = SubSeq(s, 1, Len(s))
    BY <2>1, ConcatAdjacentSubSeq
  <2> QED
    BY <2>2, SubSeqFull
<1> DEFINE u == SubSeq(s, 1, m)
           t == SubSeq(s, m + 1, n)
<1> HIDE DEF u, t, n
<1>5. Occurrences(x, u \o t) = Occurrences(x, u) + Occurrences(x, t)
  BY <1>2, <1>3, OccurrencesConcat DEF u, t, n
<1>6. s = u \o t
  BY <1>4 DEF u, t
<1>7. Occurrences(x, s) = Occurrences(x, u) + Occurrences(x, t)
  BY <1>5, <1>6
<1> QED
  BY <1>2, <1>3, <1>7 DEF u, t, n

LEMMA OccurrencesPrefix ==
  ASSUME NEW S, NEW s \in Seq(S), NEW m \in 1 .. Len(s), NEW x
  PROVE  /\ Occurrences(x, SubSeq(s, 1, m - 1)) \in Nat
         /\ Occurrences(x, SubSeq(s, 1, m))
              = Occurrences(x, SubSeq(s, 1, m - 1)) + (IF s[m] = x THEN 1 ELSE 0)
<1> DEFINE f == SubSeq(s, 1, m - 1)
           g == SubSeq(s, 1, m)
<1>1. Len(s) \in Nat /\ m \in Nat /\ m - 1 \in 0 .. Len(s) /\ m \in 0 .. Len(s)
  BY LenProperties
<1>2. /\ f \in Seq(S) /\ Len(f) = m - 1 /\ \A i \in 1 .. m - 1 : f[i] = s[i]
      /\ g \in Seq(S) /\ Len(g) = m /\ \A i \in 1 .. m : g[i] = s[i]
  BY <1>1, OccurrencesSplit
<1> HIDE DEF f, g
<1>3. /\ DOMAIN f = 1 .. m - 1 /\ IsFiniteSet(DOMAIN f)
      /\ DOMAIN g = 1 .. m /\ IsFiniteSet(DOMAIN g)
  BY <1>2, SeqFinite
<1>4. /\ DOMAIN g = DOMAIN f \cup {m} /\ g[m] = s[m] /\ m \notin DOMAIN f
      /\ \A n \in DOMAIN f \ {m} : g[n] = f[n]
  BY <1>1, <1>2, <1>3
<1>5. Occurrences(x, g) + (IF m \in DOMAIN f /\ f[m] = x THEN 1 ELSE 0)
        = Occurrences(x, f) + (IF s[m] = x THEN 1 ELSE 0)
  <2>1. PICK y : y = s[m]
    OBVIOUS
  <2>2. /\ IsFiniteSet(DOMAIN f) /\ DOMAIN g = DOMAIN f \cup {m} /\ g[m] = y
        /\ \A n \in DOMAIN f \ {m} : g[n] = f[n]
    BY <1>3, <1>4, <2>1
  <2>3. Occurrences(x, g) + (IF m \in DOMAIN f /\ f[m] = x THEN 1 ELSE 0)
          = Occurrences(x, f) + (IF y = x THEN 1 ELSE 0)
    BY <2>2, OccurrencesChange
  <2> QED
    BY <2>1, <2>3
<1>6. Occurrences(x, f) \in Nat /\ Occurrences(x, g) \in Nat
  BY <1>3, OccurrencesNat
<1> QED
  BY <1>4, <1>5, <1>6 DEF f, g

\* What two calls of kstack_pop take.
LEMMA OccurrencesPopped ==
  ASSUME NEW S, NEW s \in Seq(S), Len(s) >= 2, NEW x
  PROVE  Occurrences(x, s) = Occurrences(x, SubSeq(s, 1, Len(s) - 2))
                               + (IF s[Len(s) - 1] = x THEN 1 ELSE 0) + (IF s[Len(s)] = x THEN 1 ELSE 0)
<1> DEFINE n == Len(s)
           m == n - 1
<1>1. n \in Nat /\ m \in 1 .. n /\ n \in 1 .. n /\ m - 1 = n - 2 /\ SubSeq(s, 1, n) = s
  BY LenProperties, SubSeqFull
<1>2. Occurrences(x, SubSeq(s, 1, n)) = Occurrences(x, SubSeq(s, 1, m)) + (IF s[n] = x THEN 1 ELSE 0)
  BY <1>1, OccurrencesPrefix
<1>3. /\ Occurrences(x, SubSeq(s, 1, m - 1)) \in Nat
      /\ Occurrences(x, SubSeq(s, 1, m))
           = Occurrences(x, SubSeq(s, 1, m - 1)) + (IF s[m] = x THEN 1 ELSE 0)
  BY <1>1, OccurrencesPrefix
<1> QED
  BY <1>1, <1>2, <1>3

LEMMA OccurrencesCalls ==
  ASSUME NEW s, NEW x
  PROVE  /\ Occurrences(<<"free", x>>, Calls(s)) = Occurrences(x, s)
         /\ Occurrences(<<"finish", x>>, Calls(s)) = 0
<1>1. {n \in DOMAIN Calls(s) : Calls(s)[n] = <<"free", x>>} = {n \in DOMAIN s : s[n] = x}
  BY DEF Calls
<1>2. {n \in DOMAIN Calls(s) : Calls(s)[n] = <<"finish", x>>} = {}
  BY DEF Calls
<1> QED
  BY <1>1, <1>2, FS_EmptySet DEF Occurrences

LEMMA CallsSeq ==
  ASSUME NEW s \in Seq(Values)
  PROVE  Calls(s) \in Seq({"free", "finish"} \X Values) /\ Len(Calls(s)) = Len(s)
<1> DEFINE n == Len(s)
<1>1. n \in Nat /\ s \in [1 .. n -> Values] /\ DOMAIN s = 1 .. n
  BY LenProperties
<1> HIDE DEF n
<1>2. Calls(s) \in [1 .. n -> {"free", "finish"} \X Values]
  BY <1>1 DEF Calls
<1> QED
  BY <1>1, <1>2 DEF n

(***************************************************************************)
(* The references that all containers hold.                                *)
(***************************************************************************)
Places(x, f) == {r \in UNION {{p} \X DOMAIN f[p] : p \in DOMAIN f} : f[r[1]][r[2]] = x}

LEMMA NodesFinite == IsFiniteSet(Nodes)
BY BoundsAssumption, FS_Interval DEF Nodes

LEMMA PlacesFinite ==
  ASSUME NEW f, DOMAIN f = Nodes, \A p \in Nodes : IsFiniteSet(DOMAIN f[p]), NEW x
  PROVE  /\ IsFiniteSet(Places(x, f))
         /\ References(x, f) = Cardinality(Places(x, f))
         /\ References(x, f) \in Nat
         /\ References(x, f) = 0 <=> Places(x, f) = {}
<1> DEFINE F == {{p} \X DOMAIN f[p] : p \in DOMAIN f}
           s == [p \in Nodes |-> {p} \X DOMAIN f[p]]
<1>1. IsFiniteSet(F)
  <2>1. s \in Surjection(Nodes, F)
    BY DEF Surjection
  <2> HIDE DEF s, F
  <2> QED
    BY <2>1, NodesFinite, FS_Surjection
<1>2. \A T \in F : IsFiniteSet(T)
  <2> SUFFICES ASSUME NEW p \in Nodes
               PROVE  IsFiniteSet({p} \X DOMAIN f[p])
    OBVIOUS
  <2> QED
    BY FS_Singleton, FS_Product
<1>3. IsFiniteSet(UNION F)
  <2> HIDE DEF F
  <2> QED
    BY <1>1, <1>2, FS_UNION
<1>4. Places(x, f) \subseteq UNION F
  BY DEF Places
<1>5. IsFiniteSet(Places(x, f))
  <2> HIDE DEF F
  <2> QED
    BY <1>3, <1>4, FS_Subset
<1>6. References(x, f) = Cardinality(Places(x, f))
  BY DEF References, Places
<1> QED
  BY <1>5, <1>6, FS_CardinalityType, FS_EmptySet

\* A place refers to x if one of the containers does.
LEMMA ReferenceFrom ==
  ASSUME NEW f, DOMAIN f = Nodes, \A p \in Nodes : IsFiniteSet(DOMAIN f[p]), NEW x,
         NEW p \in Nodes, NEW n \in DOMAIN f[p], f[p][n] = x
  PROVE  References(x, f) > 0
<1>1. <<p, n>> \in Places(x, f)
  BY DEF Places
<1> QED
  BY <1>1, PlacesFinite

\* When one container changes, the references change as its own do.
LEMMA ReferencesChange ==
  ASSUME NEW f, DOMAIN f = Nodes, \A p \in Nodes : IsFiniteSet(DOMAIN f[p]), NEW x,
         NEW a \in Nodes, NEW h, IsFiniteSet(DOMAIN h)
  PROVE  /\ References(x, f) \in Nat /\ Occurrences(x, f[a]) \in Nat /\ Occurrences(x, h) \in Nat
         /\ References(x, [f EXCEPT ![a] = h]) \in Nat
         /\ References(x, [f EXCEPT ![a] = h])
              = References(x, f) + Occurrences(x, h) - Occurrences(x, f[a])
<1> DEFINE g == [f EXCEPT ![a] = h]
           R == {r \in Places(x, f) : r[1] # a}
           F == {n \in DOMAIN f[a] : f[a][n] = x}
           H == {n \in DOMAIN h : h[n] = x}
<1>1. DOMAIN g = Nodes /\ \A p \in Nodes : IsFiniteSet(DOMAIN g[p])
  OBVIOUS
<1>2. Places(x, f) = R \cup ({a} \X F)
  BY DEF Places
<1>3. Places(x, g) = R \cup ({a} \X H)
  BY DEF Places
<1>4. IsFiniteSet(R) /\ IsFiniteSet(F) /\ IsFiniteSet(H)
  BY PlacesFinite, FS_Subset, OccurrencesNat
<1>5. R \cap ({a} \X F) = {} /\ R \cap ({a} \X H) = {}
  OBVIOUS
<1> HIDE DEF R, F, H, g
<1>6. ASSUME NEW S, IsFiniteSet(S), R \cap ({a} \X S) = {}
      PROVE  /\ Cardinality(R) \in Nat /\ Cardinality(S) \in Nat
             /\ Cardinality(R \cup ({a} \X S)) = Cardinality(R) + Cardinality(S)
  <2>1. IsFiniteSet({a} \X S) /\ Cardinality({a} \X S) = 1 * Cardinality(S)
    <3>1. IsFiniteSet({a}) /\ Cardinality({a}) = 1
      BY FS_Singleton
    <3>2. /\ IsFiniteSet({a} \X S)
          /\ Cardinality({a} \X S) = Cardinality({a}) * Cardinality(S)
      BY <1>6, <3>1, FS_Product
    <3> QED
      BY <3>1, <3>2
  <2>2. Cardinality(R) \in Nat /\ Cardinality(S) \in Nat
    BY <1>4, <1>6, FS_CardinalityType
  <2>3. Cardinality(R \cup ({a} \X S))
          = Cardinality(R) + Cardinality({a} \X S) - Cardinality(R \cap ({a} \X S))
    BY <1>4, <2>1, FS_Union
  <2>4. Cardinality(R \cap ({a} \X S)) = 0
    BY <1>6, FS_EmptySet
  <2> QED
    BY <2>1, <2>2, <2>3, <2>4
<1>7. References(x, f) = Cardinality(R) + Cardinality(F)
  BY <1>2, <1>4, <1>5, <1>6, PlacesFinite
<1>8. References(x, g) = Cardinality(R) + Cardinality(H)
  BY <1>1, <1>3, <1>4, <1>5, <1>6, PlacesFinite
<1>9. Occurrences(x, f[a]) = Cardinality(F) /\ Occurrences(x, h) = Cardinality(H)
  BY DEF Occurrences, F, H
<1>10. Cardinality(R) \in Nat /\ Cardinality(F) \in Nat /\ Cardinality(H) \in Nat
  BY <1>4, FS_CardinalityType
<1> QED
  BY <1>7, <1>8, <1>9, <1>10 DEF g

(***************************************************************************)
(* The inductive invariant.                                                *)
(***************************************************************************)
\* The parts of Owners(x), and the calls of JSON_free that will dispose of x.
ByElems(x)   == References(x, elems)
ByKeys(x)    == References(x, KeysHeld)
ByVals(x)    == References(x, ValsHeld)
ByStack(x)   == Occurrences(x, stack)
ByBuilder(x) == IF building = x THEN 1 ELSE 0
ByCalls(x)   == Occurrences(<<"free", x>>, todo)
Finishing(x) == Occurrences(<<"finish", x>>, todo)

\* x is there, and not being taken apart: who refers to it may go on doing so.
Secure(x) == kind[x] \notin {"unused", "disposed"} /\ Finishing(x) = 0

\* The references that x's count stands for.
Top(x) == IF count[x] > 1 THEN count[x] ELSE 1

\* CountsCover for all nodes, with nothing for those that nobody may refer to, and
\* OnlySpentLeaks.
Covered ==
  \A x \in Nodes :
    /\ Owners(x) <= IF Secure(x) THEN Top(x) ELSE 0
    /\ Secure(x) /\ x \notin spent => Owners(x) = Top(x)

MapsFinite == \A n \in Nodes : IsFiniteSet(DOMAIN members[n])

\* What is taken apart is still there, is disposed of once, and holds nothing any
\* more; only its count may have become negative.
Endings ==
  /\ \A x \in Values : Finishing(x) <= 1
  /\ Finishing(Scalar) = 0
  /\ \A x \in Nodes :
       /\ Finishing(x) = 1 => /\ kind[x] \notin {"unused", "disposed"}
                              /\ elems[x] = <<>> /\ DOMAIN members[x] = {} /\ x \notin hashed
       /\ Finishing(x) = 0 => count[x] >= 0
       /\ kind[x] = "unused" => count[x] = 0

\* The parser counts what it pushes once, and the container that it builds not at
\* all; one with members to set is an object.
Building ==
  /\ pc = "program" => stack = <<>> /\ building = 0
  /\ \A n \in DOMAIN stack : stack[n] \in Nodes => count[stack[n]] = 1
  /\ building # 0 =>
       /\ kind[building] \in {"array", "object"} /\ count[building] = 0
       /\ left > 0 => kind[building] = "object"
       /\ 2 * left <= Len(stack)
       /\ \A f \in 1 .. left : IsString(stack[Len(stack) - 2 * f + 1])

IInv == TypeOK /\ MapsFinite /\ Covered /\ Endings /\ Building

\* A map from names to keys and values.
IsMap(m) == /\ DOMAIN m \subseteq Names
            /\ m \in [DOMAIN m -> [key : Nodes, val : Values]]

LEMMA MapsAre ==
  \A m : m \in UNION {[A -> [key : Nodes, val : Values]] : A \in SUBSET Names} <=> IsMap(m)
BY DEF IsMap

LEMMA NodesAre == Nodes \subseteq Nat \ {0} /\ Scalar = 0 /\ Scalar \notin Nodes
                  /\ Values = Nodes \cup {0}
BY BoundsAssumption DEF Nodes, Scalar, Values

\* Containers are finite, so that references can be counted.
LEMMA HoldsFinite ==
  ASSUME TypeOK, MapsFinite
  PROVE  /\ DOMAIN elems = Nodes /\ DOMAIN KeysHeld = Nodes /\ DOMAIN ValsHeld = Nodes
         /\ \A p \in Nodes : /\ IsFiniteSet(DOMAIN elems[p])
                             /\ IsFiniteSet(DOMAIN KeysHeld[p])
                             /\ IsFiniteSet(DOMAIN ValsHeld[p])
<1>1. \A p \in Nodes : elems[p] \in Seq(Values)
  BY DEF TypeOK
<1>2. \A p \in Nodes : IsFiniteSet(DOMAIN elems[p])
  BY <1>1, SeqFinite
<1> QED
  BY <1>2 DEF TypeOK, MapsFinite, KeysHeld, ValsHeld

LEMMA PartsNat ==
  ASSUME TypeOK, MapsFinite, NEW x
  PROVE  /\ ByElems(x) \in Nat /\ ByKeys(x) \in Nat /\ ByVals(x) \in Nat
         /\ ByStack(x) \in Nat /\ ByBuilder(x) \in Nat
         /\ ByCalls(x) \in Nat /\ Finishing(x) \in Nat
         /\ x \in Nodes => held[x] \in Nat /\ count[x] \in Int
<1>1. ByElems(x) \in Nat /\ ByKeys(x) \in Nat /\ ByVals(x) \in Nat
  BY HoldsFinite, PlacesFinite DEF ByElems, ByKeys, ByVals
<1>2. IsFiniteSet(DOMAIN stack) /\ IsFiniteSet(DOMAIN todo)
  BY SeqFinite DEF TypeOK
<1>3. ByStack(x) \in Nat /\ ByCalls(x) \in Nat /\ Finishing(x) \in Nat
  BY <1>2, OccurrencesNat DEF ByStack, ByCalls, Finishing
<1>4. ByBuilder(x) \in Nat
  BY DEF ByBuilder
<1>5. x \in Nodes => held[x] \in Nat /\ count[x] \in Int
  BY BoundsAssumption DEF TypeOK
<1> QED
  BY <1>1, <1>3, <1>4, <1>5

LEMMA OwnersAre ==
  ASSUME NEW x
  PROVE  Owners(x) = ByElems(x) + ByKeys(x) + ByVals(x) + ByStack(x) + ByBuilder(x)
                       + held[x] + ByCalls(x)
BY DEF Owners, ByElems, ByKeys, ByVals, ByStack, ByBuilder, ByCalls

LEMMA OwnersNat ==
  ASSUME TypeOK, MapsFinite, NEW x \in Nodes
  PROVE  Owners(x) \in Nat
BY OwnersAre, PartsNat

\* Whoever is referred to is secure.
LEMMA OwnedSecure ==
  ASSUME TypeOK, MapsFinite, Covered, NEW x \in Nodes,
         \/ ByElems(x) > 0 \/ ByKeys(x) > 0 \/ ByVals(x) > 0 \/ ByStack(x) > 0
         \/ ByBuilder(x) > 0 \/ held[x] > 0 \/ ByCalls(x) > 0
  PROVE  Secure(x) /\ Owners(x) <= Top(x) /\ Owners(x) > 0
<1>1. Owners(x) > 0 /\ Owners(x) \in Nat
  BY OwnersAre, PartsNat
<1>2. Owners(x) <= IF Secure(x) THEN Top(x) ELSE 0
  BY DEF Covered
<1> QED
  BY <1>1, <1>2

\* The places from which a value is referred to.
LEMMA References1 ==
  ASSUME TypeOK, MapsFinite
  PROVE  /\ \A n \in Nodes : \A i \in DOMAIN elems[n] : ByElems(elems[n][i]) > 0
         /\ \A n \in Nodes : \A a \in DOMAIN members[n] :
              ByKeys(members[n][a].key) > 0 /\ ByVals(members[n][a].val) > 0
         /\ \A n \in DOMAIN stack : ByStack(stack[n]) > 0
         /\ \A n \in DOMAIN todo : \A x : todo[n] = <<"free", x>> => ByCalls(x) > 0
         /\ \A n \in DOMAIN todo : \A x : todo[n] = <<"finish", x>> => Finishing(x) > 0
<1>1. \A n \in Nodes : \A i \in DOMAIN elems[n] : ByElems(elems[n][i]) > 0
  BY HoldsFinite, ReferenceFrom DEF ByElems
<1>2. ASSUME NEW n \in Nodes, NEW a \in DOMAIN members[n]
      PROVE  ByKeys(members[n][a].key) > 0 /\ ByVals(members[n][a].val) > 0
  <2>1. /\ a \in DOMAIN KeysHeld[n] /\ KeysHeld[n][a] = members[n][a].key
        /\ a \in DOMAIN ValsHeld[n] /\ ValsHeld[n][a] = members[n][a].val
    BY DEF KeysHeld, ValsHeld
  <2> QED
    BY <2>1, HoldsFinite, ReferenceFrom DEF ByKeys, ByVals
<1>3. IsFiniteSet(DOMAIN stack) /\ IsFiniteSet(DOMAIN todo)
  BY SeqFinite DEF TypeOK
<1>4. \A n \in DOMAIN stack : ByStack(stack[n]) > 0
  BY <1>3, OccurrencesSome DEF ByStack
<1>5. \A n \in DOMAIN todo : \A x : todo[n] = <<"free", x>> => ByCalls(x) > 0
  BY <1>3, OccurrencesSome DEF ByCalls
<1>6. \A n \in DOMAIN todo : \A x : todo[n] = <<"finish", x>> => Finishing(x) > 0
  BY <1>3, OccurrencesSome DEF Finishing
<1> QED
  BY <1>1, <1>2, <1>4, <1>5, <1>6

LEMMA FinishingDying ==
  ASSUME TypeOK, NEW x \in Nodes
  PROVE  x \in Dying <=> Finishing(x) > 0
<1>1. IsFiniteSet(DOMAIN todo)
  BY SeqFinite DEF TypeOK
<1> QED
  BY <1>1, OccurrencesSome DEF Dying, Finishing

LEMMA TopIsCounts ==
  ASSUME TypeOK, NEW x \in Nodes
  PROVE  Counts(x) = Top(x)
<1>1. count[x] \in Int
  BY BoundsAssumption DEF TypeOK
<1> DEFINE t == Top(x)
<1>2. t \in {count[x], 1} /\ \A y \in {count[x], 1} : t >= y
  BY <1>1 DEF Top
<1>3. \A u \in {count[x], 1} : (\A y \in {count[x], 1} : u >= y) => u = t
  BY <1>1 DEF Top
<1> QED
  BY <1>2, <1>3 DEF Counts, Max, Top

\* The properties that the runs check follow from the invariant.
LEMMA InvariantImplies ==
  ASSUME IInv
  PROVE  NoDangling /\ CountsCover /\ OnlySpentLeaks
<1> USE DEF IInv
<1>1. \A x \in Nodes : Secure(x) => x \in Live
  BY DEF Secure, Live
<1>2. \A x \in Live \ Dying : x \in Nodes /\ Secure(x)
  <2>1. \A x \in Nodes : Finishing(x) \in Nat
    BY PartsNat
  <2> QED
    BY <2>1, FinishingDying DEF Secure, Live
<1>3. CountsCover /\ OnlySpentLeaks
  BY <1>2, TopIsCounts DEF CountsCover, OnlySpentLeaks, Covered
<1>4. \A n \in Live : Children(n) \subseteq Live
  <2> SUFFICES ASSUME NEW n \in Nodes, NEW x \in Children(n)
               PROVE  x \in Live
    BY DEF Live
  <2>1. CASE x \in ToSet(elems[n])
    <3>1. PICK i \in DOMAIN elems[n] : x = elems[n][i]
      BY <2>1 DEF ToSet
    <3>2. elems[n] \in Seq(Values)
      BY DEF TypeOK
    <3>3. x \in Nodes
      BY <3>1, <3>2, SeqFinite, ElementOfSeq, NodesAre DEF Children
    <3> QED
      BY <1>1, <3>1, <3>3, References1, OwnedSecure
  <2>2. CASE x \in MemberKeys(n) \cup MemberVals(n)
    <3>1. PICK a \in DOMAIN members[n] : x = members[n][a].key \/ x = members[n][a].val
      BY <2>2 DEF MemberKeys, MemberVals
    <3>2. members[n][a] \in [key : Nodes, val : Values]
      BY MapsAre DEF TypeOK, IsMap
    <3>3. x \in Nodes
      BY <3>1, <3>2, NodesAre DEF Children
    <3> QED
      BY <1>1, <3>1, <3>3, References1, OwnedSecure
  <2> QED
    BY <2>1, <2>2 DEF Children
<1>5. ToSet(stack) \ {Scalar} \subseteq Live
  <2> SUFFICES ASSUME NEW i \in DOMAIN stack, stack[i] # Scalar
               PROVE  stack[i] \in Live
    BY DEF ToSet
  <2>1. stack[i] \in Nodes
    BY SeqFinite, ElementOfSeq, NodesAre DEF TypeOK
  <2> QED
    BY <1>1, <2>1, References1, OwnedSecure
<1>6. \A v \in Nodes : held[v] > 0 => v \in Live
  BY <1>1, OwnedSecure
<1>7. ASSUME NEW t \in DOMAIN todo, todo[t] # <<"free", Scalar>>
      PROVE  todo[t][2] \in Live
  <2>1. todo[t] \in {"free", "finish"} \X Values
    BY SeqFinite, ElementOfSeq DEF TypeOK
  <2>2. PICK x \in Values : todo[t] = <<"free", x>> \/ todo[t] = <<"finish", x>>
    BY <2>1
  <2>3. CASE todo[t] = <<"free", x>>
    BY <1>1, <1>7, <2>3, References1, OwnedSecure, NodesAre
  <2>4. CASE todo[t] = <<"finish", x>>
    <3>1. Finishing(x) > 0 /\ Finishing(x) \in Nat
      BY <2>4, References1, PartsNat
    <3>2. Finishing(x) = 1 /\ x \in Nodes
      BY <3>1, NodesAre DEF Endings
    <3> QED
      BY <2>4, <3>2 DEF Endings, Live
  <2> QED
    BY <2>2, <2>3, <2>4
<1> QED
  BY <1>3, <1>4, <1>5, <1>6, <1>7 DEF NoDangling

(***************************************************************************)
(* What steps do to the references.                                        *)
(***************************************************************************)
LEMMA ElemsEffect ==
  ASSUME TypeOK, MapsFinite, NEW a \in Nodes, NEW s \in Seq(Values),
         elems' = [elems EXCEPT ![a] = s], NEW x
  PROVE  ByElems(x)' = ByElems(x) + Occurrences(x, s) - Occurrences(x, elems[a])
<1>1. IsFiniteSet(DOMAIN s)
  BY SeqFinite
<1>2. References(x, [elems EXCEPT ![a] = s])
        = References(x, elems) + Occurrences(x, s) - Occurrences(x, elems[a])
  BY <1>1, HoldsFinite, ReferencesChange
<1> QED
  BY <1>2 DEF ByElems

\* The keys and the values of a map.
KeysOf(m) == [a \in DOMAIN m |-> m[a].key]
ValsOf(m) == [a \in DOMAIN m |-> m[a].val]

LEMMA HeldBy ==
  ASSUME NEW o \in Nodes
  PROVE  KeysHeld[o] = KeysOf(members[o]) /\ ValsHeld[o] = ValsOf(members[o])
BY DEF KeysHeld, ValsHeld, KeysOf, ValsOf

LEMMA MembersEffect ==
  ASSUME TypeOK, MapsFinite, NEW o \in Nodes, NEW m, IsFiniteSet(DOMAIN m),
         members' = [members EXCEPT ![o] = m], NEW x
  PROVE  /\ MapsFinite'
         /\ ByKeys(x)' = ByKeys(x) + Occurrences(x, KeysOf(m)) - Occurrences(x, KeysHeld[o])
         /\ ByVals(x)' = ByVals(x) + Occurrences(x, ValsOf(m)) - Occurrences(x, ValsHeld[o])
<1> DEFINE K == [n \in Nodes |-> KeysOf(members'[n])]
           V == [n \in Nodes |-> ValsOf(members'[n])]
<1>1. DOMAIN members = Nodes
  BY DEF TypeOK
<1>2. MapsFinite'
  BY <1>1 DEF MapsFinite
<1>3. K = [KeysHeld EXCEPT ![o] = KeysOf(m)] /\ V = [ValsHeld EXCEPT ![o] = ValsOf(m)]
  BY <1>1 DEF KeysHeld, ValsHeld, KeysOf, ValsOf
<1>4. IsFiniteSet(DOMAIN KeysOf(m)) /\ IsFiniteSet(DOMAIN ValsOf(m))
  BY DEF KeysOf, ValsOf
<1>5. KeysHeld' = K /\ ValsHeld' = V
  BY DEF KeysHeld, ValsHeld, KeysOf, ValsOf
<1> HIDE DEF K, V
<1>6. References(x, K) = References(x, KeysHeld) + Occurrences(x, KeysOf(m))
                           - Occurrences(x, KeysHeld[o])
  BY <1>3, <1>4, HoldsFinite, ReferencesChange
<1>7. References(x, V) = References(x, ValsHeld) + Occurrences(x, ValsOf(m))
                           - Occurrences(x, ValsHeld[o])
  BY <1>3, <1>4, HoldsFinite, ReferencesChange
<1> QED
  BY <1>2, <1>5, <1>6, <1>7 DEF ByKeys, ByVals

\* Who is left alone refers to the same.
LEMMA SameParts ==
  ASSUME NEW x
  PROVE  /\ elems' = elems => ByElems(x)' = ByElems(x)
         /\ members' = members => ByKeys(x)' = ByKeys(x) /\ ByVals(x)' = ByVals(x)
         /\ members' = members => (MapsFinite => MapsFinite')
         /\ stack' = stack => ByStack(x)' = ByStack(x)
         /\ building' = building => ByBuilder(x)' = ByBuilder(x)
         /\ todo' = todo => ByCalls(x)' = ByCalls(x) /\ Finishing(x)' = Finishing(x)
<1>1. members' = members => KeysHeld' = KeysHeld /\ ValsHeld' = ValsHeld
  BY DEF KeysHeld, ValsHeld
<1> QED
  BY <1>1 DEF ByElems, ByKeys, ByVals, ByStack, ByBuilder, ByCalls, Finishing, MapsFinite

LEMMA OwnersNext ==
  ASSUME NEW x
  PROVE  Owners(x)' = ByElems(x)' + ByKeys(x)' + ByVals(x)' + ByStack(x)' + ByBuilder(x)'
                        + held'[x] + ByCalls(x)'
BY DEF Owners, ByElems, ByKeys, ByVals, ByStack, ByBuilder, ByCalls

\* No JSON_free is in progress, or that of one value.
LEMMA NoCalls ==
  ASSUME NEW x
  PROVE  /\ todo = <<>> => ByCalls(x) = 0 /\ Finishing(x) = 0
         /\ todo' = <<>> => ByCalls(x)' = 0 /\ Finishing(x)' = 0
BY OccurrencesNone DEF ByCalls, Finishing

LEMMA OneCall ==
  ASSUME NEW v, todo' = <<<<"free", v>>>>, NEW x
  PROVE  ByCalls(x)' = (IF x = v THEN 1 ELSE 0) /\ Finishing(x)' = 0
BY OccurrencesSingle DEF ByCalls, Finishing

\* The node that Make takes: nothing refers to it.
LEMMA FreshIs ==
  ASSUME IInv, Unused # {}
  PROVE  /\ Fresh \in Nodes /\ kind[Fresh] = "unused" /\ count[Fresh] = 0
         /\ ~ Secure(Fresh) /\ Owners(Fresh) = 0 /\ Finishing(Fresh) = 0
         /\ ByElems(Fresh) = 0 /\ ByKeys(Fresh) = 0 /\ ByVals(Fresh) = 0 /\ ByStack(Fresh) = 0
         /\ ByBuilder(Fresh) = 0 /\ held[Fresh] = 0 /\ ByCalls(Fresh) = 0
         /\ elems[Fresh] = <<>> /\ DOMAIN members[Fresh] = {} /\ Fresh \notin hashed
         /\ building # Fresh /\ \A n \in DOMAIN stack : stack[n] # Fresh
<1> USE DEF IInv
<1>1. Unused \subseteq Nat
  BY NodesAre DEF Unused
<1>2. Fresh \in Unused
  BY <1>1, MinIsMember DEF Fresh
<1>3. Fresh \in Nodes /\ kind[Fresh] = "unused" /\ ~ Secure(Fresh)
  BY <1>2 DEF Unused, Secure
<1>4. /\ ~ ByElems(Fresh) > 0 /\ ~ ByKeys(Fresh) > 0 /\ ~ ByVals(Fresh) > 0 /\ ~ ByStack(Fresh) > 0
      /\ ~ ByBuilder(Fresh) > 0 /\ ~ held[Fresh] > 0 /\ ~ ByCalls(Fresh) > 0
  BY <1>3, OwnedSecure
<1>5. /\ ByElems(Fresh) = 0 /\ ByKeys(Fresh) = 0 /\ ByVals(Fresh) = 0 /\ ByStack(Fresh) = 0
      /\ ByBuilder(Fresh) = 0 /\ held[Fresh] = 0 /\ ByCalls(Fresh) = 0
  <2> DEFINE f == Fresh
  <2> HIDE DEF f
  <2>1. f \in Nodes
    BY <1>3 DEF f
  <2>2. /\ ByElems(f) \in Nat /\ ByKeys(f) \in Nat /\ ByVals(f) \in Nat
        /\ ByStack(f) \in Nat /\ ByBuilder(f) \in Nat
        /\ ByCalls(f) \in Nat /\ held[f] \in Nat
    BY <2>1, PartsNat
  <2> QED
    BY <1>4, <2>2 DEF f
<1>6. Owners(Fresh) = 0
  BY <1>5, OwnersAre
<1>7. count[Fresh] = 0 /\ Finishing(Fresh) = 0
  <2>1. Fresh \in Values /\ Finishing(Fresh) \in Nat
    BY <1>3, NodesAre, PartsNat
  <2> QED
    BY <1>3, <2>1 DEF Endings
<1>8. elems[Fresh] = <<>> /\ DOMAIN members[Fresh] = {} /\ Fresh \notin hashed
  BY <1>3 DEF TypeOK
<1>9. building # Fresh /\ \A n \in DOMAIN stack : stack[n] # Fresh
  BY <1>5, References1 DEF ByBuilder
<1> QED
  BY <1>3, <1>5, <1>6, <1>7, <1>8, <1>9

(***************************************************************************)
(* The steps.                                                              *)
(***************************************************************************)
LEMMA New ==
  ASSUME IInv, NewString \/ NewArray \/ \E size \in {0, DictThreshold + 1} : NewObject(size)
  PROVE  IInv'
<1> USE DEF IInv
<1> DEFINE f == Fresh
<1>1. PICK k \in {"string", "array", "object"} :
        /\ Unused # {} /\ pc = "program"
        /\ kind' = [kind EXCEPT ![f] = k] /\ count' = [count EXCEPT ![f] = 0]
        /\ held' = [held EXCEPT ![f] = @ + 1]
        /\ hashed' = hashed \/ (k = "object" /\ hashed' = hashed \cup {f})
        /\ UNCHANGED <<elems, members, stack, building, left, pc, todo, spent>>
  BY DEF NewString, NewArray, NewObject, Make, Hand, Idle, parse
<1>2. /\ f \in Nodes /\ kind[f] = "unused" /\ Owners(f) = 0 /\ held[f] = 0 /\ Finishing(f) = 0
      /\ elems[f] = <<>> /\ DOMAIN members[f] = {} /\ count[f] = 0
      /\ building # f /\ \A n \in DOMAIN stack : stack[n] # f
  BY <1>1, FreshIs
<1> HIDE DEF f
<1>3. TypeOK'
  <2>1. kind' \in [Nodes -> {"unused", "string", "array", "object", "disposed"}]
        /\ count' \in [Nodes -> -1 .. MaxCount] /\ held' \in [Nodes -> Nat]
    BY <1>1, <1>2, BoundsAssumption DEF TypeOK
  <2>2. \A n \in Nodes :
          /\ elems[n] # <<>> => kind'[n] = "array"
          /\ DOMAIN members[n] # {} => kind'[n] = "object"
          /\ \A a \in DOMAIN members[n] :
               members[n][a].key # Scalar /\ kind'[members[n][a].key] = "string"
    BY <1>1, <1>2 DEF TypeOK, IsString
  <2>3. hashed' \subseteq {o \in Nodes : kind'[o] = "object"}
    BY <1>1, <1>2 DEF TypeOK
  <2> QED
    BY <1>1, <2>1, <2>2, <2>3 DEF TypeOK, IsString
<1>4. \A x : /\ ByElems(x)' = ByElems(x) /\ ByKeys(x)' = ByKeys(x) /\ ByVals(x)' = ByVals(x)
             /\ ByStack(x)' = ByStack(x) /\ ByBuilder(x)' = ByBuilder(x)
             /\ ByCalls(x)' = ByCalls(x) /\ Finishing(x)' = Finishing(x)
  BY <1>1, SameParts
<1>5. MapsFinite'
  BY <1>1 DEF MapsFinite
<1>6. Covered'
  <2> SUFFICES ASSUME NEW x \in Nodes
               PROVE  /\ Owners(x)' <= IF Secure(x)' THEN Top(x)' ELSE 0
                      /\ Secure(x)' /\ x \notin spent' => Owners(x)' = Top(x)'
    BY DEF Covered
  <2>1. Owners(x)' = Owners(x) + (IF x = f THEN 1 ELSE 0)
    <3>1. held'[x] = held[x] + (IF x = f THEN 1 ELSE 0)
      BY <1>1 DEF TypeOK
    <3> QED
      BY <1>4, <3>1, PartsNat, OwnersAre, OwnersNext
  <2>2. CASE x = f
    BY <1>1, <1>2, <1>4, <2>1, <2>2 DEF Secure, Top, TypeOK
  <2>3. CASE x # f
    <3>1. Owners(x)' = Owners(x)
      BY <2>1, <2>3, OwnersNat
    <3>2. Secure(x)' = Secure(x) /\ Top(x)' = Top(x) /\ spent' = spent
      BY <1>1, <1>2, <1>4, <2>3 DEF Secure, Top, TypeOK
    <3> QED
      BY <3>1, <3>2 DEF Covered
  <2> QED
    BY <2>2, <2>3
<1>7. Endings'
  BY <1>1, <1>2, <1>4 DEF Endings, TypeOK
<1>8. Building'
  BY <1>1, <1>2, <1>4 DEF Building, TypeOK, IsString
<1> QED
  BY <1>3, <1>5, <1>6, <1>7, <1>8

LEMMA Retained ==
  ASSUME IInv, NEW v \in Nodes, Retain(v)
  PROVE  IInv'
<1> USE DEF IInv
<1>1. /\ pc = "program" /\ held[v] = 0 /\ count[v] < MaxShared /\ count[v] > 0
      /\ count' = [count EXCEPT ![v] = @ + 1] /\ held' = [held EXCEPT ![v] = @ + 1]
      /\ UNCHANGED <<kind, elems, members, hashed, stack, building, left, pc, todo, spent>>
  BY DEF Retain, Sharable, Hand, Idle, nodes, parse, TypeOK
<1>2. TypeOK'
  <2>1. count' \in [Nodes -> -1 .. MaxCount] /\ held' \in [Nodes -> Nat]
    BY <1>1, BoundsAssumption DEF TypeOK
  <2> QED
    BY <1>1, <2>1 DEF TypeOK, IsString
<1>3. \A x : /\ ByElems(x)' = ByElems(x) /\ ByKeys(x)' = ByKeys(x) /\ ByVals(x)' = ByVals(x)
             /\ ByStack(x)' = ByStack(x) /\ ByBuilder(x)' = ByBuilder(x)
             /\ ByCalls(x)' = ByCalls(x) /\ Finishing(x)' = Finishing(x)
  BY <1>1, SameParts
<1>4. MapsFinite'
  BY <1>1 DEF MapsFinite
<1>5. Covered'
  <2> SUFFICES ASSUME NEW x \in Nodes
               PROVE  /\ Owners(x)' <= IF Secure(x)' THEN Top(x)' ELSE 0
                      /\ Secure(x)' /\ x \notin spent' => Owners(x)' = Top(x)'
    BY DEF Covered
  <2>1. held'[x] = held[x] + (IF x = v THEN 1 ELSE 0)
        /\ count'[x] = count[x] + (IF x = v THEN 1 ELSE 0)
    BY <1>1, BoundsAssumption DEF TypeOK
  <2>2. Owners(x)' = Owners(x) + (IF x = v THEN 1 ELSE 0)
    BY <1>3, <2>1, PartsNat, OwnersAre, OwnersNext
  <2>3. Secure(x)' = Secure(x) /\ spent' = spent
    BY <1>1, <1>3 DEF Secure
  <2>4. Owners(x) \in Nat /\ count[x] \in Int
    BY OwnersNat, PartsNat
  <2>5. x = v => Secure(x)
    BY NoCalls DEF Retain, Sharable, Known, Live, Idle, Secure
  <2>6. CASE x = v
    <3>1. Owners(x) <= Top(x) /\ (x \notin spent => Owners(x) = Top(x))
      BY <2>5, <2>6 DEF Covered
    <3>2. Top(x) = count[x] /\ Top(x)' = count[x] + 1
      BY <1>1, <2>1, <2>4, <2>6 DEF Top
    <3> QED
      BY <2>2, <2>3, <2>4, <2>5, <2>6, <3>1, <3>2
  <2>7. CASE x # v
    <3>1. Owners(x)' = Owners(x) /\ Top(x)' = Top(x)
      BY <2>1, <2>2, <2>4, <2>7 DEF Top
    <3> QED
      BY <2>3, <3>1 DEF Covered
  <2> QED
    BY <2>6, <2>7
<1>6. Endings'
  BY <1>1, <1>3 DEF Endings, TypeOK
<1>7. Building'
  BY <1>1 DEF Building, TypeOK, IsString
<1> QED
  BY <1>2, <1>4, <1>5, <1>6, <1>7

\* When references only move, or are given up by those whose loss is known.
LEMMA Moved ==
  ASSUME TypeOK, MapsFinite, Covered, UNCHANGED <<kind, count>>,
         \A x \in Nodes : Finishing(x)' = Finishing(x),
         \A x \in Nodes : /\ Owners(x)' \in Int /\ Owners(x)' <= Owners(x)
                          /\ x \notin spent' => x \notin spent /\ Owners(x)' = Owners(x)
  PROVE  Covered'
<1> SUFFICES ASSUME NEW x \in Nodes
             PROVE  /\ Owners(x)' <= IF Secure(x)' THEN Top(x)' ELSE 0
                    /\ Secure(x)' /\ x \notin spent' => Owners(x)' = Top(x)'
  BY DEF Covered
<1>1. Secure(x)' = Secure(x) /\ Top(x)' = Top(x)
  BY DEF Secure, Top
<1>2. Owners(x) \in Nat /\ count[x] \in Int
  BY OwnersNat, PartsNat
<1>3. Top(x) \in Int
  BY <1>2 DEF Top
<1> QED
  BY <1>1, <1>2, <1>3 DEF Covered

LEMMA Freed ==
  ASSUME IInv, NEW v \in Nodes, Free(v)
  PROVE  IInv'
<1> USE DEF IInv
<1>1. /\ pc = "program" /\ todo = <<>> /\ held[v] > 0 /\ todo' = <<<<"free", v>>>>
      /\ held' = [held EXCEPT ![v] = @ - 1]
      /\ UNCHANGED <<kind, elems, members, hashed, count, stack, building, left, pc, spent>>
  BY DEF Free, Idle, nodes, parse
<1>2. TypeOK'
  <2>1. held' \in [Nodes -> Nat]
    BY <1>1 DEF TypeOK
  <2>2. todo' \in Seq({"free", "finish"} \X Values)
    BY <1>1, NodesAre
  <2> QED
    BY <1>1, <2>1, <2>2 DEF TypeOK, IsString
<1>3. \A x : /\ ByElems(x)' = ByElems(x) /\ ByKeys(x)' = ByKeys(x) /\ ByVals(x)' = ByVals(x)
             /\ ByStack(x)' = ByStack(x) /\ ByBuilder(x)' = ByBuilder(x)
             /\ ByCalls(x) = 0 /\ ByCalls(x)' = (IF x = v THEN 1 ELSE 0)
             /\ Finishing(x) = 0 /\ Finishing(x)' = 0
  BY <1>1, SameParts, NoCalls, OneCall
<1>4. MapsFinite'
  BY <1>1 DEF MapsFinite
<1>5. Covered'
  <2>1. ASSUME NEW x \in Nodes
        PROVE  Owners(x)' = Owners(x) /\ Owners(x)' \in Int
    <3>1. held'[x] = held[x] - (IF x = v THEN 1 ELSE 0)
      BY <1>1 DEF TypeOK
    <3> QED
      BY <1>3, <3>1, PartsNat, OwnersAre, OwnersNext
  <2> QED
    BY <1>1, <1>3, <2>1, Moved
<1>6. Endings'
  BY <1>1, <1>3 DEF Endings
<1>7. Building'
  BY <1>1 DEF Building, IsString
<1> QED
  BY <1>2, <1>4, <1>5, <1>6, <1>7

LEMMA Appended ==
  ASSUME IInv, NEW a \in Nodes, NEW v \in Nodes, ArrayAppend(a, v)
  PROVE  IInv'
<1> USE DEF IInv
<1> DEFINE s == Append(elems[a], v)
<1>1. /\ pc = "program" /\ todo = <<>> /\ held[v] > 0 /\ kind[a] = "array"
      /\ elems' = [elems EXCEPT ![a] = s] /\ held' = [held EXCEPT ![v] = @ - 1]
      /\ UNCHANGED <<kind, members, hashed, count, stack, building, left, pc, todo, spent>>
  BY DEF ArrayAppend, Idle, parse
<1>2. elems[a] \in Seq(Values) /\ v \in Values
  BY NodesAre DEF TypeOK
<1>3. s \in Seq(Values)
  BY <1>2, AppendProperties
<1>4. \A x : Occurrences(x, s) = Occurrences(x, elems[a]) + (IF v = x THEN 1 ELSE 0)
  BY <1>2, OccurrencesAppend
<1>5. \A x : Occurrences(x, elems[a]) \in Nat
  BY HoldsFinite, OccurrencesNat
<1> HIDE DEF s
<1>6. TypeOK'
  <2>1. held' \in [Nodes -> Nat]
    BY <1>1 DEF TypeOK
  <2>2. /\ elems' \in [Nodes -> Seq(Values)]
        /\ \A n \in Nodes : elems'[n] # <<>> => kind[n] = "array"
    BY <1>1, <1>3 DEF TypeOK
  <2> QED
    BY <1>1, <2>1, <2>2 DEF TypeOK, IsString
<1>7. ASSUME NEW x
      PROVE  /\ ByElems(x)' = ByElems(x) + (IF v = x THEN 1 ELSE 0)
             /\ ByKeys(x)' = ByKeys(x) /\ ByVals(x)' = ByVals(x)
             /\ ByStack(x)' = ByStack(x) /\ ByBuilder(x)' = ByBuilder(x)
             /\ ByCalls(x)' = ByCalls(x) /\ Finishing(x)' = Finishing(x) /\ Finishing(x) = 0
  <2>1. ByElems(x)' = ByElems(x) + Occurrences(x, s) - Occurrences(x, elems[a])
    BY <1>1, <1>3, ElemsEffect
  <2>2. ByElems(x)' = ByElems(x) + (IF v = x THEN 1 ELSE 0)
    BY <1>4, <1>5, <2>1, PartsNat
  <2> QED
    BY <1>1, <2>2, SameParts, NoCalls
<1>8. MapsFinite'
  BY <1>1 DEF MapsFinite
<1>9. Covered'
  <2>1. ASSUME NEW x \in Nodes
        PROVE  Owners(x)' = Owners(x) /\ Owners(x)' \in Int
    <3>1. held'[x] = held[x] - (IF v = x THEN 1 ELSE 0)
      BY <1>1 DEF TypeOK
    <3> QED
      BY <1>7, <3>1, PartsNat, OwnersAre, OwnersNext
  <2> QED
    BY <1>1, <1>7, <2>1, Moved
<1>10. Endings'
  BY <1>1, <1>7 DEF Endings
<1>11. Building'
  BY <1>1 DEF Building, IsString
<1> QED
  BY <1>6, <1>8, <1>9, <1>10, <1>11

LEMMA ElementSet ==
  ASSUME IInv, NEW a \in Nodes, NEW v \in Nodes, NEW i \in DOMAIN elems[a], ArraySet(a, i, v)
  PROVE  IInv'
<1> USE DEF IInv
<1> DEFINE s == [elems[a] EXCEPT ![i] = v]
           old == elems[a][i]
<1>1. /\ pc = "program" /\ todo = <<>> /\ held[v] > 0 /\ kind[a] = "array"
      /\ elems' = [elems EXCEPT ![a] = s]
      /\ held' = [held EXCEPT ![v] = @ - 1, ![old] = @ + 1]
      /\ UNCHANGED <<kind, members, hashed, count, stack, building, left, pc, todo, spent>>
  BY DEF ArraySet, Idle, parse
<1>2. elems[a] \in Seq(Values) /\ v \in Values /\ i \in 1 .. Len(elems[a])
  BY NodesAre, SeqFinite DEF TypeOK
<1>3. s \in Seq(Values)
  BY <1>2, ExceptSeq
<1>4. \A x : Occurrences(x, s) = Occurrences(x, elems[a]) + (IF v = x THEN 1 ELSE 0)
                                    - (IF old = x THEN 1 ELSE 0)
  BY HoldsFinite, OccurrencesReplaced
<1>5. \A x : Occurrences(x, elems[a]) \in Nat /\ Occurrences(x, s) \in Nat
  BY <1>2, <1>3, SeqFinite, OccurrencesNat
<1> HIDE DEF s, old
<1>6. TypeOK'
  <2>1. \A n \in Nodes : held'[n] \in Nat
    <3>1. held \in [Nodes -> Nat]
      BY DEF TypeOK
    <3>2. \A n \in Nodes : held'[n] = held[n] - (IF n = v THEN 1 ELSE 0)
                                              + (IF n = old THEN 1 ELSE 0)
      BY <1>1, <3>1
    <3> QED
      BY <1>1, <3>1, <3>2
  <2>2. held' \in [Nodes -> Nat]
    BY <1>1, <2>1 DEF TypeOK
  <2>3. /\ elems' \in [Nodes -> Seq(Values)]
        /\ \A n \in Nodes : elems'[n] # <<>> => kind[n] = "array"
    BY <1>1, <1>3 DEF TypeOK
  <2> QED
    BY <1>1, <2>2, <2>3 DEF TypeOK, IsString
<1>7. ASSUME NEW x
      PROVE  /\ ByElems(x)' = ByElems(x) + (IF v = x THEN 1 ELSE 0) - (IF old = x THEN 1 ELSE 0)
             /\ ByKeys(x)' = ByKeys(x) /\ ByVals(x)' = ByVals(x)
             /\ ByStack(x)' = ByStack(x) /\ ByBuilder(x)' = ByBuilder(x)
             /\ ByCalls(x)' = ByCalls(x) /\ Finishing(x)' = Finishing(x) /\ Finishing(x) = 0
  <2>1. ByElems(x)' = ByElems(x) + Occurrences(x, s) - Occurrences(x, elems[a])
    BY <1>1, <1>3, ElemsEffect
  <2>2. ByElems(x)' = ByElems(x) + (IF v = x THEN 1 ELSE 0) - (IF old = x THEN 1 ELSE 0)
    BY <1>4, <1>5, <2>1, PartsNat
  <2> QED
    BY <1>1, <2>2, SameParts, NoCalls
<1>8. MapsFinite'
  BY <1>1 DEF MapsFinite
<1>9. Covered'
  <2>1. ASSUME NEW x \in Nodes
        PROVE  Owners(x)' = Owners(x) /\ Owners(x)' \in Int
    <3> DEFINE p == IF v = x THEN 1 ELSE 0
               q == IF old = x THEN 1 ELSE 0
    <3>1. p \in Int /\ q \in Int /\ ByElems(x)' = ByElems(x) + p - q
      BY <1>7
    <3>2. held'[x] = held[x] - p + q
      BY <1>1, SMTT(30) DEF TypeOK
    <3> HIDE DEF p, q
    <3> QED
      BY <1>7, <3>1, <3>2, PartsNat, OwnersAre, OwnersNext
  <2> QED
    BY <1>1, <1>7, <2>1, Moved
<1>10. Endings'
  BY <1>1, <1>7 DEF Endings
<1>11. Building'
  BY <1>1 DEF Building, IsString
<1> QED
  BY <1>6, <1>8, <1>9, <1>10, <1>11

\* The value of the record that kmap_set overwrites, if x is it.
OldVal(o, a, x) == IF a \in DOMAIN members[o] /\ members[o][a].val = x THEN 1 ELSE 0

OldKey(o, a, x) == IF x \in Overwritten(o, a) THEN 1 ELSE 0

LEMMA StoreEffect ==
  ASSUME TypeOK, MapsFinite, NEW o \in Nodes, NEW a \in Names, NEW k \in Nodes, NEW v \in Values,
         Store(o, a, k, v), kind[o] = "object"
  PROVE  /\ MapsFinite'
         /\ members' \in [Nodes -> UNION {[A -> [key : Nodes, val : Values]] : A \in SUBSET Names}]
         /\ \A n \in Nodes : DOMAIN members'[n] # {} => kind[n] = "object"
         /\ \A n \in Nodes : \A b \in DOMAIN members'[n] :
              members'[n][b].key = k \/ (b \in DOMAIN members[n] /\ members'[n][b] = members[n][b])
         /\ hashed' \subseteq hashed \cup {o}
         /\ todo' \in Seq({"free", "finish"} \X Values)
         /\ Overwritten(o, a) \subseteq Nodes
         /\ \A x : /\ ByKeys(x)' = ByKeys(x) + (IF k = x THEN 1 ELSE 0) - OldKey(o, a, x)
                  /\ ByVals(x)' = ByVals(x) + (IF v = x THEN 1 ELSE 0) - OldVal(o, a, x)
                  /\ ByCalls(x)' = OldVal(o, a, x)
                  /\ Finishing(x)' = 0
<1> DEFINE D == DOMAIN members[o]
           m == [b \in D \cup {a} |-> IF b = a THEN [key |-> k, val |-> v] ELSE members[o][b]]
<1>1. members' = [members EXCEPT ![o] = m] /\ hashed' \subseteq hashed \cup {o}
      /\ todo' = IF a \in D THEN Calls(<<members[o][a].val>>) ELSE <<>>
  BY DEF Store
<1>2. /\ DOMAIN m = D \cup {a} /\ m[a] = [key |-> k, val |-> v]
      /\ \A b \in D \ {a} : m[b] = members[o][b]
  OBVIOUS
<1>3. IsMap(members[o]) /\ IsFiniteSet(D)
  BY MapsAre DEF TypeOK, MapsFinite
<1>4. IsMap(m) /\ IsFiniteSet(DOMAIN m)
  <2>1. m = [b \in D \cup {a} |-> m[b]]
    OBVIOUS
  <2>2. \A b \in D \cup {a} : b \in Names /\ m[b] \in [key : Nodes, val : Values]
    BY <1>2, <1>3 DEF IsMap
  <2>3. IsFiniteSet(D \cup {a})
    BY <1>3, FS_AddElement
  <2> HIDE DEF m, D
  <2> QED
    BY <1>2, <2>1, <2>2, <2>3 DEF IsMap
<1> HIDE DEF m
<1>5. MapsFinite'
  BY <1>1, <1>4 DEF MapsFinite, TypeOK
<1>6. members' \in [Nodes -> UNION {[A -> [key : Nodes, val : Values]] : A \in SUBSET Names}]
  BY <1>1, <1>4, MapsAre DEF TypeOK
<1>7. \A n \in Nodes : DOMAIN members'[n] # {} => kind[n] = "object"
  BY <1>1 DEF TypeOK
<1>8. \A n \in Nodes : \A b \in DOMAIN members'[n] :
        members'[n][b].key = k \/ (b \in DOMAIN members[n] /\ members'[n][b] = members[n][b])
  BY <1>1, <1>2, SMTT(30) DEF TypeOK
<1>9. todo' \in Seq({"free", "finish"} \X Values)
  <2>1. CASE a \in D
    <3>1. members[o][a].val \in Values
      BY <1>3, <2>1 DEF IsMap
    <3>2. <<members[o][a].val>> \in Seq(Values)
      BY <3>1
    <3> QED
      BY <1>1, <2>1, <3>2, CallsSeq
  <2>2. CASE a \notin D
    BY <1>1, <2>2
  <2> QED
    BY <2>1, <2>2
<1>10. Overwritten(o, a) \subseteq Nodes
  BY <1>3 DEF Overwritten, IsMap
<1>11. ASSUME NEW x
       PROVE  ByKeys(x)' = ByKeys(x) + (IF k = x THEN 1 ELSE 0) - OldKey(o, a, x)
  <2> DEFINE f == KeysHeld[o]
             g == KeysOf(m)
  <2>1. /\ DOMAIN f = D /\ \A b \in D : f[b] = members[o][b].key
        /\ DOMAIN g = D \cup {a} /\ g[a] = k /\ \A b \in D \ {a} : g[b] = f[b]
    BY <1>2 DEF KeysHeld, KeysOf
  <2> HIDE DEF f, g
  <2>2. IsFiniteSet(DOMAIN g)
        /\ Occurrences(x, g) + (IF a \in DOMAIN f /\ f[a] = x THEN 1 ELSE 0)
             = Occurrences(x, f) + (IF k = x THEN 1 ELSE 0)
    BY <1>3, <2>1, OccurrencesChange
  <2>3. Occurrences(x, g) \in Nat /\ Occurrences(x, f) \in Nat
    BY <1>3, <2>1, <2>2, OccurrencesNat
  <2>4. OldKey(o, a, x) = IF a \in DOMAIN f /\ f[a] = x THEN 1 ELSE 0
    BY <2>1 DEF OldKey, Overwritten
  <2>5. ByKeys(x)' = ByKeys(x) + Occurrences(x, g) - Occurrences(x, f)
    BY <1>1, <1>4, MembersEffect DEF f, g
  <2> QED
    BY <2>2, <2>3, <2>4, <2>5, PartsNat
<1>12. ASSUME NEW x
       PROVE  ByVals(x)' = ByVals(x) + (IF v = x THEN 1 ELSE 0) - OldVal(o, a, x)
  <2> DEFINE f == ValsHeld[o]
             g == ValsOf(m)
  <2>1. /\ DOMAIN f = D /\ \A b \in D : f[b] = members[o][b].val
        /\ DOMAIN g = D \cup {a} /\ g[a] = v /\ \A b \in D \ {a} : g[b] = f[b]
    BY <1>2 DEF ValsHeld, ValsOf
  <2> HIDE DEF f, g
  <2>2. IsFiniteSet(DOMAIN g)
        /\ Occurrences(x, g) + (IF a \in DOMAIN f /\ f[a] = x THEN 1 ELSE 0)
             = Occurrences(x, f) + (IF v = x THEN 1 ELSE 0)
    BY <1>3, <2>1, OccurrencesChange
  <2>3. Occurrences(x, g) \in Nat /\ Occurrences(x, f) \in Nat
    BY <1>3, <2>1, <2>2, OccurrencesNat
  <2>4. OldVal(o, a, x) = IF a \in DOMAIN f /\ f[a] = x THEN 1 ELSE 0
    BY <2>1 DEF OldVal
  <2>5. ByVals(x)' = ByVals(x) + Occurrences(x, g) - Occurrences(x, f)
    BY <1>1, <1>4, MembersEffect DEF f, g
  <2> QED
    BY <2>2, <2>3, <2>4, <2>5, PartsNat
<1>13. ASSUME NEW x
       PROVE  ByCalls(x)' = OldVal(o, a, x) /\ Finishing(x)' = 0
  <2>1. CASE a \in D
    <3> DEFINE y == members[o][a].val
    <3>1. todo' = Calls(<<y>>) /\ OldVal(o, a, x) = IF y = x THEN 1 ELSE 0
      BY <1>1, <2>1 DEF OldVal
    <3> HIDE DEF y
    <3> QED
      BY <3>1, OccurrencesCalls, OccurrencesSingle DEF ByCalls, Finishing
  <2>2. CASE a \notin D
    <3>1. todo' = <<>> /\ OldVal(o, a, x) = 0
      BY <1>1, <2>2 DEF OldVal
    <3> QED
      BY <3>1, NoCalls
  <2> QED
    BY <2>1, <2>2
<1> QED
  BY <1>1, <1>5, <1>6, <1>7, <1>8, <1>9, <1>10, <1>11, <1>12, <1>13

LEMMA CountedIs ==
  ASSUME TypeOK, NEW v \in Values, count' = Counted(count, v)
  PROVE  /\ count' = [x \in Nodes |-> count'[x]]
         /\ \A x \in Nodes : count'[x] = count[x] + (IF v = x THEN 1 ELSE 0)
<1>1. count \in [Nodes -> -1 .. MaxCount] /\ \A x \in Nodes : count[x] \in Int
  BY BoundsAssumption DEF TypeOK
<1>2. CASE v = Scalar
  BY <1>1, <1>2, NodesAre DEF Counted
<1>3. CASE v # Scalar
  <2>1. v \in Nodes /\ count' = [count EXCEPT ![v] = @ + 1]
    BY <1>3, NodesAre DEF Counted
  <2>2. count' = [x \in Nodes |-> count'[x]]
    BY <1>1, <2>1
  <2>3. \A x \in Nodes : count'[x] = IF v = x THEN count[x] + 1 ELSE count[x]
    BY <1>1, <2>1
  <2>4. \A x \in Nodes : count'[x] = count[x] + (IF v = x THEN 1 ELSE 0)
    BY <1>1, <2>3
  <2> QED
    BY <2>2, <2>4
<1> QED
  BY <1>2, <1>3

LEMMA MemberSet ==
  ASSUME IInv, NEW o \in Nodes, NEW v \in Values, NEW a \in Names, SetMember(o, a, v)
  PROVE  IInv'
<1> USE DEF IInv
<1> DEFINE f == Fresh
           h(x) == IF x = v /\ count[v] = 0 THEN 1 ELSE 0
<1>1. /\ pc = "program" /\ todo = <<>> /\ kind[o] = "object" /\ Unused # {}
      /\ kind' = [kind EXCEPT ![f] = "string"]
      /\ count' = Counted(count, v) /\ Store(o, a, f, v)
      /\ held' = [n \in Nodes |-> IF n = v /\ count[v] = 0 THEN held[n] - 1 ELSE held[n]]
      /\ spent' = spent \cup Overwritten(o, a)
      /\ UNCHANGED <<elems, stack, building, left, pc>>
  BY DEF SetMember, Idle, parse
<1>2. /\ f \in Nodes /\ kind[f] = "unused" /\ Owners(f) = 0 /\ count[f] = 0
      /\ ByKeys(f) = 0 /\ held[f] = 0
      /\ elems[f] = <<>> /\ DOMAIN members[f] = {}
      /\ building # f /\ \A n \in DOMAIN stack : stack[n] # f
  BY <1>1, FreshIs
<1> HIDE DEF f
<1>3. v \in Nodes => Secure(v) /\ v # f /\ count[v] < MaxShared /\ (count[v] > 0 \/ held[v] > 0)
  BY <1>1, <1>2, NoCalls, NodesAre DEF SetMember, Sharable, Known, Live, Secure
<1>4. /\ MapsFinite'
      /\ members' \in [Nodes -> UNION {[A -> [key : Nodes, val : Values]] : A \in SUBSET Names}]
      /\ \A n \in Nodes : DOMAIN members'[n] # {} => kind[n] = "object"
      /\ \A n \in Nodes : \A b \in DOMAIN members'[n] :
           members'[n][b].key = f \/ (b \in DOMAIN members[n] /\ members'[n][b] = members[n][b])
      /\ hashed' \subseteq hashed \cup {o}
      /\ todo' \in Seq({"free", "finish"} \X Values)
      /\ Overwritten(o, a) \subseteq Nodes
  BY <1>1, <1>2, StoreEffect
<1>5. \A x : /\ ByKeys(x)' = ByKeys(x) + (IF f = x THEN 1 ELSE 0) - OldKey(o, a, x)
             /\ ByVals(x)' = ByVals(x) + (IF v = x THEN 1 ELSE 0) - OldVal(o, a, x)
             /\ ByCalls(x)' = OldVal(o, a, x) /\ Finishing(x)' = 0
             /\ ByElems(x)' = ByElems(x) /\ ByStack(x)' = ByStack(x) /\ ByBuilder(x)' = ByBuilder(x)
             /\ ByCalls(x) = 0 /\ Finishing(x) = 0
  BY <1>1, <1>2, StoreEffect, SameParts, NoCalls
<1>6. \A x \in Nodes : /\ count[x] \in -1 .. MaxCount /\ count[x] >= 0
                       /\ count'[x] = count[x] + (IF v = x THEN 1 ELSE 0)
  <2>1. \A x \in Nodes : count[x] \in -1 .. MaxCount /\ count[x] >= 0
    BY <1>5 DEF TypeOK, Endings
  <2> QED
    BY <1>1, <2>1, CountedIs
<1>7. TypeOK'
  <2>1. kind' \in [Nodes -> {"unused", "string", "array", "object", "disposed"}]
    BY <1>1, <1>2 DEF TypeOK
  <2>2. count' \in [Nodes -> -1 .. MaxCount]
    <3>1. \A x \in Nodes : count'[x] \in -1 .. MaxCount
      BY <1>3, <1>6, BoundsAssumption
    <3> QED
      BY <1>1, <3>1, CountedIs
  <2>3. held' \in [Nodes -> Nat]
    BY <1>1, <1>3 DEF TypeOK
  <2>4. \A n \in Nodes :
          /\ elems[n] # <<>> => kind'[n] = "array"
          /\ DOMAIN members'[n] # {} => kind'[n] = "object"
    BY <1>1, <1>2, <1>4 DEF TypeOK
  <2>5. \A n \in Nodes : \A b \in DOMAIN members'[n] :
          members'[n][b].key # Scalar /\ kind'[members'[n][b].key] = "string"
    BY <1>1, <1>2, <1>4, NodesAre, SMTT(30) DEF TypeOK, IsString
  <2>6. hashed' \subseteq {n \in Nodes : kind'[n] = "object"}
    BY <1>1, <1>2, <1>4 DEF TypeOK
  <2> QED
    BY <1>1, <1>4, <2>1, <2>2, <2>3, <2>4, <2>5, <2>6 DEF TypeOK, IsString
<1>8. Covered'
  <2> SUFFICES ASSUME NEW x \in Nodes
               PROVE  /\ Owners(x)' <= IF Secure(x)' THEN Top(x)' ELSE 0
                      /\ Secure(x)' /\ x \notin spent' => Owners(x)' = Top(x)'
    BY DEF Covered
  <2>1. held'[x] = held[x] - h(x)
    BY <1>1 DEF TypeOK
  <2>2. Owners(x)' = Owners(x) + (IF f = x THEN 1 ELSE 0) - OldKey(o, a, x)
                       + (IF v = x THEN 1 ELSE 0) - h(x)
    <3> DEFINE p == IF f = x THEN 1 ELSE 0
               q == IF v = x THEN 1 ELSE 0
               r == h(x)
    <3>1. /\ p \in Int /\ q \in Int /\ r \in Int /\ OldKey(o, a, x) \in Int /\ OldVal(o, a, x) \in Int
          /\ ByKeys(x)' = ByKeys(x) + p - OldKey(o, a, x)
          /\ ByVals(x)' = ByVals(x) + q - OldVal(o, a, x)
          /\ held'[x] = held[x] - r
      BY <1>5, <2>1 DEF OldKey, OldVal
    <3> HIDE DEF p, q, r
    <3>2. Owners(x)' = Owners(x) + p - OldKey(o, a, x) + q - r
      BY <1>5, <3>1, PartsNat, OwnersAre, OwnersNext
    <3> QED
      BY <3>2 DEF p, q, r
  <2>3. Owners(x) \in Nat /\ OldKey(o, a, x) \in {0, 1}
        /\ (x \notin spent' => OldKey(o, a, x) = 0 /\ x \notin spent)
    BY <1>1, OwnersNat DEF OldKey
  <2>4. CASE x = f
    <3>1. OldKey(o, a, x) = 0
      <4>1. ByKeys(x)' = 1 - OldKey(o, a, x)
        BY <1>2, <1>5, <2>3, <2>4
      <4>2. CASE x \in Overwritten(o, a)
        <5>1. a \in DOMAIN members[o] /\ x = members[o][a].key
          BY <4>2 DEF Overwritten
        <5> QED
          BY <1>2, <2>4, <5>1, References1
      <4> QED
        BY <4>2 DEF OldKey
    <3>2. x # v /\ Owners(x) = 0 /\ count[x] = 0
      BY <1>2, <1>3, <2>4, NodesAre
    <3>3. Owners(x)' = 1
      BY <2>2, <2>4, <3>1, <3>2
    <3>4. Secure(x)' /\ Top(x)' = 1
      <4>1. kind'[x] = "string" /\ Finishing(x)' = 0 /\ count'[x] = 0
        <5>1. kind'[x] = "string"
          BY <1>1, <1>2, <2>4 DEF TypeOK
        <5>2. count'[x] = count[x] + (IF v = x THEN 1 ELSE 0)
          BY <1>6
        <5> QED
          BY <1>5, <3>2, <5>1, <5>2
      <4> QED
        BY <4>1 DEF Secure, Top
    <3> QED
      BY <3>3, <3>4
  <2>5. CASE x # f
    <3>1. Secure(x)' = Secure(x)
      BY <1>1, <1>5, <2>5 DEF Secure, TypeOK
    <3>2. CASE x = v
      <4>1. Secure(x) /\ Owners(x) <= Top(x) /\ (x \notin spent => Owners(x) = Top(x))
        BY <1>3, <3>2 DEF Covered
      <4>2. Top(x)' = (IF count[x] = 0 THEN 1 ELSE Top(x) + 1)
            /\ (count[x] = 0 => Top(x) = 1) /\ Top(x) \in Int
        BY <1>6, <3>2 DEF Top
      <4>3. Owners(x)' = Owners(x) - OldKey(o, a, x) + (IF count[x] = 0 THEN 0 ELSE 1)
        BY <2>2, <2>3, <2>5, <3>2
      <4> QED
        BY <2>3, <3>1, <4>1, <4>2, <4>3
    <3>3. CASE x # v
      <4>1. Owners(x)' = Owners(x) - OldKey(o, a, x)
        BY <2>2, <2>3, <2>5, <3>3
      <4>2. Top(x)' = Top(x) /\ Top(x) \in Int
        BY <1>6, <3>3 DEF Top
      <4> QED
        BY <2>3, <3>1, <4>1, <4>2 DEF Covered
    <3> QED
      BY <3>2, <3>3
  <2> QED
    BY <2>4, <2>5
<1>9. Endings'
  <2>1. \A x \in Nodes : kind'[x] = "unused" => count'[x] = 0
    <3> SUFFICES ASSUME NEW x \in Nodes, kind'[x] = "unused"
                 PROVE  count'[x] = 0
      OBVIOUS
    <3>1. kind[x] = "unused"
      BY <1>1 DEF TypeOK
    <3>2. count[x] = 0 /\ x # v
      BY <1>3, <3>1 DEF Endings, Secure
    <3> QED
      BY <1>6, <3>2
  <2> QED
    BY <1>5, <1>6, <2>1 DEF Endings
<1>10. Building'
  BY <1>1 DEF Building
<1> QED
  BY <1>4, <1>7, <1>8, <1>9, <1>10

\* The two uppermost places of the parser's stack.
LEMMA StackTop ==
  ASSUME TypeOK, Len(stack) >= 2, stack' = SubSeq(stack, 1, Len(stack) - 2)
  PROVE  /\ Last(stack) \in Values /\ stack[Len(stack) - 1] \in Values
         /\ Last(stack) = stack[Len(stack)]
         /\ Len(stack) \in Nat
         /\ stack' \in Seq(Values) /\ Len(stack') = Len(stack) - 2
         /\ DOMAIN stack' = 1 .. Len(stack) - 2 /\ DOMAIN stack = 1 .. Len(stack)
         /\ \A n \in DOMAIN stack' : stack'[n] = stack[n]
         /\ \A x : /\ ByStack(x)' \in Nat
                  /\ ByStack(x)' = ByStack(x) - (IF stack[Len(stack) - 1] = x THEN 1 ELSE 0)
                                             - (IF Last(stack) = x THEN 1 ELSE 0)
         /\ \A n \in DOMAIN stack' : ByStack(stack[n])' > 0
<1> DEFINE n == Len(stack)
           m == n - 2
<1>1. stack \in Seq(Values) /\ n \in Nat /\ m \in 0 .. n /\ Last(stack) = stack[n]
      /\ DOMAIN stack = 1 .. n
  BY SeqFinite DEF TypeOK, Last
<1>2. Last(stack) \in Values /\ stack[n - 1] \in Values
  BY <1>1, ElementOfSeq
<1>3. stack' \in Seq(Values) /\ Len(stack') = m /\ \A i \in 1 .. m : stack'[i] = stack[i]
  BY <1>1, OccurrencesSplit
<1>4. DOMAIN stack' = 1 .. m /\ IsFiniteSet(DOMAIN stack')
  BY <1>3, SeqFinite
<1>5. ASSUME NEW x
      PROVE  /\ ByStack(x)' \in Nat
             /\ ByStack(x)' = ByStack(x) - (IF stack[n - 1] = x THEN 1 ELSE 0)
                                        - (IF Last(stack) = x THEN 1 ELSE 0)
  <2>1. Occurrences(x, stack) = Occurrences(x, stack') + (IF stack[n - 1] = x THEN 1 ELSE 0)
                                  + (IF stack[n] = x THEN 1 ELSE 0)
    BY <1>1, OccurrencesPopped
  <2>2. Occurrences(x, stack') \in Nat
    BY <1>4, OccurrencesNat
  <2> QED
    BY <1>1, <2>1, <2>2 DEF ByStack
<1>6. \A i \in 1 .. m : ByStack(stack[i])' > 0
  <2> SUFFICES ASSUME NEW i \in 1 .. m
               PROVE  Occurrences(stack[i], stack') > 0
    BY DEF ByStack
  <2> QED
    BY <1>3, <1>4, OccurrencesSome
<1> QED
  BY <1>1, <1>2, <1>3, <1>4, <1>5, <1>6

LEMMA MemberParsed ==
  ASSUME IInv, NEW a \in Names, ParseMember(a)
  PROVE  IInv'
<1> USE DEF IInv
<1> DEFINE o == building
           v == Last(stack)
           L == Len(stack)
           k == stack[L - 1]
<1>1. /\ o # 0 /\ left > 0 /\ todo = <<>>
      /\ count' = Counted(count, v) /\ Store(o, a, k, v)
      /\ spent' = spent \cup ({v} \ {Scalar}) \cup Overwritten(o, a)
      /\ stack' = SubSeq(stack, 1, L - 2) /\ left' = left - 1
      /\ UNCHANGED <<kind, elems, held, building, pc>>
  BY DEF ParseMember
<1>2. /\ o \in Nodes /\ left \in 1 .. MaxStack /\ kind[o] = "object" /\ count[o] = 0
      /\ 2 * left <= L /\ \A f \in 1 .. left : IsString(stack[L - 2 * f + 1])
  BY <1>1, NodesAre, BoundsAssumption, SMTT(30) DEF TypeOK, Building
<1>3. L >= 2 /\ L \in Nat
  BY <1>2, SeqFinite, BoundsAssumption DEF TypeOK
<1>4. /\ v \in Values /\ k \in Values /\ v = stack[L] /\ k = stack[L - 1]
      /\ stack' \in Seq(Values) /\ Len(stack') = L - 2
      /\ DOMAIN stack' = 1 .. L - 2 /\ DOMAIN stack = 1 .. L
      /\ \A n \in DOMAIN stack' : stack'[n] = stack[n]
  BY <1>1, <1>3, StackTop
<1>5. \A x : /\ ByStack(x)' \in Nat
             /\ ByStack(x)' = ByStack(x) - (IF k = x THEN 1 ELSE 0) - (IF v = x THEN 1 ELSE 0)
  BY <1>1, <1>3, StackTop
<1>6. \A n \in DOMAIN stack' : ByStack(stack[n])' > 0
  BY <1>1, <1>3, StackTop
<1>7. k \in Nodes /\ IsString(k)
  <2>1. IsString(stack[L - 2 * 1 + 1])
    BY <1>2
  <2>2. L - 2 * 1 + 1 = L - 1
    BY <1>3
  <2> QED
    BY <1>4, <2>1, <2>2, NodesAre DEF IsString
<1>8. /\ MapsFinite'
      /\ members' \in [Nodes -> UNION {[A -> [key : Nodes, val : Values]] : A \in SUBSET Names}]
      /\ \A n \in Nodes : DOMAIN members'[n] # {} => kind[n] = "object"
      /\ \A n \in Nodes : \A b \in DOMAIN members'[n] :
           members'[n][b].key = k \/ (b \in DOMAIN members[n] /\ members'[n][b] = members[n][b])
      /\ hashed' \subseteq hashed \cup {o}
      /\ todo' \in Seq({"free", "finish"} \X Values)
      /\ Overwritten(o, a) \subseteq Nodes
  BY <1>1, <1>2, <1>4, <1>7, StoreEffect
<1>9. \A x : /\ ByKeys(x)' = ByKeys(x) + (IF k = x THEN 1 ELSE 0) - OldKey(o, a, x)
             /\ ByVals(x)' = ByVals(x) + (IF v = x THEN 1 ELSE 0) - OldVal(o, a, x)
             /\ ByCalls(x)' = OldVal(o, a, x) /\ Finishing(x)' = 0
             /\ ByElems(x)' = ByElems(x) /\ ByBuilder(x)' = ByBuilder(x)
             /\ ByCalls(x) = 0 /\ Finishing(x) = 0
  <2>1. \A x : /\ ByKeys(x)' = ByKeys(x) + (IF k = x THEN 1 ELSE 0) - OldKey(o, a, x)
               /\ ByVals(x)' = ByVals(x) + (IF v = x THEN 1 ELSE 0) - OldVal(o, a, x)
               /\ ByCalls(x)' = OldVal(o, a, x) /\ Finishing(x)' = 0
    BY <1>1, <1>2, <1>4, <1>7, StoreEffect
  <2>2. \A x : ByElems(x)' = ByElems(x) /\ ByBuilder(x)' = ByBuilder(x)
    BY <1>1, SameParts
  <2> QED
    BY <1>1, <2>1, <2>2, NoCalls
<1>16. o = building
  OBVIOUS
<1> HIDE DEF v, k, o, L
\* The value was counted once, for its place on the stack; it has no other there.
<1>10. v \in Nodes => /\ Secure(v) /\ count[v] = 1 /\ v # o
                      /\ \A n \in DOMAIN stack' : stack[n] # v
  <2> SUFFICES ASSUME v \in Nodes
               PROVE  /\ Secure(v) /\ count[v] = 1 /\ v # o
                      /\ \A n \in DOMAIN stack' : stack[n] # v
    OBVIOUS
  <2>1. L \in DOMAIN stack /\ ByStack(v) > 0
    BY <1>3, <1>4, References1
  <2>2. count[v] = 1 /\ Secure(v) /\ Owners(v) <= 1
    <3>1. count[v] = 1
      BY <1>4, <2>1 DEF Building
    <3> QED
      BY <2>1, <3>1, OwnedSecure DEF Top
  <2>3. v # o
    BY <1>2, <2>2
  <2>4. ASSUME NEW n \in DOMAIN stack', stack[n] = v
        PROVE  FALSE
    <3>1. PICK w \in Nodes : w = v
      OBVIOUS
    <3>2. /\ ByStack(w)' \in Nat
          /\ ByStack(w)' = ByStack(w) - (IF k = w THEN 1 ELSE 0) - (IF v = w THEN 1 ELSE 0)
      BY <1>5
    <3>3. stack'[n] = w
      BY <1>4, <2>4, <3>1
    <3>4. ByStack(w)' > 0
      BY <1>6, <1>4, <3>3 DEF ByStack
    <3>5. ByStack(w) > 1
      BY <3>1, <3>2, <3>4, PartsNat
    <3> QED
      BY <2>2, <3>1, <3>5, PartsNat, OwnersAre
  <2> QED
    BY <2>2, <2>3, <2>4
<1>11. \A x \in Nodes : /\ count[x] \in -1 .. MaxCount /\ count[x] >= 0
                        /\ count'[x] = count[x] + (IF v = x THEN 1 ELSE 0)
  <2>1. \A x \in Nodes : count[x] \in -1 .. MaxCount /\ count[x] >= 0
    BY <1>9 DEF TypeOK, Endings
  <2> QED
    BY <1>1, <1>4, <2>1, CountedIs
<1>12. TypeOK'
  <2>1. count' \in [Nodes -> -1 .. MaxCount]
    <3>1. \A x \in Nodes : count'[x] \in -1 .. MaxCount
      BY <1>10, <1>11, BoundsAssumption
    <3> QED
      BY <1>1, <1>4, <3>1, CountedIs
  <2>2. \A n \in Nodes : \A b \in DOMAIN members'[n] : IsString(members'[n][b].key)
    <3>1. \A n \in Nodes : \A b \in DOMAIN members[n] : IsString(members[n][b].key)
      BY DEF TypeOK
    <3>2. \A n \in Nodes : \A b \in DOMAIN members'[n] :
            members'[n][b].key = k \/ (b \in DOMAIN members[n] /\ members'[n][b] = members[n][b])
      BY <1>8
    <3> QED
      BY <1>7, <3>1, <3>2
  <2>3. hashed' \subseteq {n \in Nodes : kind[n] = "object"}
    BY <1>2, <1>8 DEF TypeOK
  <2>4. left' \in 0 .. MaxStack
    BY <1>1, <1>2, BoundsAssumption
  <2>5. spent' \subseteq Nodes
    <3>1. spent \subseteq Nodes
      BY DEF TypeOK
    <3>2. {v} \ {Scalar} \subseteq Nodes /\ Overwritten(o, a) \subseteq Nodes
      BY <1>4, <1>8, NodesAre
    <3> QED
      BY <1>1, <3>1, <3>2
  <2>6. \A n \in Nodes : /\ elems'[n] # <<>> => kind'[n] = "array"
                        /\ DOMAIN members'[n] # {} => kind'[n] = "object"
                        /\ \A b \in DOMAIN members'[n] :
                             /\ members'[n][b].key # Scalar
                             /\ kind'[members'[n][b].key] = "string"
    BY <1>1, <1>8, <2>2 DEF TypeOK, IsString
  <2>7. /\ kind' = kind /\ elems' = elems /\ held' = held /\ building' = building /\ pc' = pc
    BY <1>1, <1>16
  <2> QED
    BY <1>4, <1>8, <2>1, <2>3, <2>4, <2>5, <2>6, <2>7 DEF TypeOK, IsString
<1>13. Covered'
  <2> SUFFICES ASSUME NEW x \in Nodes
               PROVE  /\ Owners(x)' <= IF Secure(x)' THEN Top(x)' ELSE 0
                      /\ Secure(x)' /\ x \notin spent' => Owners(x)' = Top(x)'
    BY DEF Covered
  <2>1. Owners(x)' = Owners(x) - OldKey(o, a, x)
    <3> DEFINE p == IF k = x THEN 1 ELSE 0
               q == IF v = x THEN 1 ELSE 0
    <3>1. /\ p \in Int /\ q \in Int /\ OldKey(o, a, x) \in Int /\ OldVal(o, a, x) \in Int
          /\ ByKeys(x)' = ByKeys(x) + p - OldKey(o, a, x)
          /\ ByVals(x)' = ByVals(x) + q - OldVal(o, a, x)
          /\ ByStack(x)' = ByStack(x) - p - q
          /\ held'[x] = held[x]
      BY <1>1, <1>5, <1>9 DEF OldKey, OldVal
    <3> HIDE DEF p, q
    <3> QED
      BY <1>9, <3>1, PartsNat, OwnersAre, OwnersNext
  <2>2. Owners(x) \in Nat /\ OldKey(o, a, x) \in {0, 1}
        /\ (x \notin spent' => OldKey(o, a, x) = 0 /\ x \notin spent /\ x # v)
    BY <1>1, OwnersNat, NodesAre DEF OldKey
  <2>3. Secure(x)' = Secure(x)
    BY <1>1, <1>9 DEF Secure
  <2>4. Top(x)' >= Top(x) /\ Top(x) \in Int /\ Top(x)' \in Int /\ (x # v => Top(x)' = Top(x))
    BY <1>11 DEF Top
  <2> QED
    BY <2>1, <2>2, <2>3, <2>4 DEF Covered
<1>14. Endings'
  <2>1. \A x \in Nodes : kind'[x] = "unused" => count'[x] = 0
    <3> SUFFICES ASSUME NEW x \in Nodes, kind[x] = "unused"
                 PROVE  count'[x] = 0
      BY <1>1
    <3>1. count[x] = 0 /\ x # v
      BY <1>10 DEF Endings, Secure
    <3> QED
      BY <1>11, <3>1
  <2> QED
    BY <1>9, <1>11, <2>1 DEF Endings
<1>15. Building'
  <2>1. pc' # "program"
    BY <1>1, <1>16 DEF Building
  <2>2. \A n \in DOMAIN stack' : stack'[n] \in Nodes => count'[stack'[n]] = 1
    <3> SUFFICES ASSUME NEW n \in DOMAIN stack', stack[n] \in Nodes
                 PROVE  count'[stack[n]] = 1
      BY <1>4
    <3>1. stack[n] # v /\ count[stack[n]] = 1
      BY <1>3, <1>4, <1>10 DEF Building
    <3> QED
      BY <1>11, <3>1
  <2>3. kind'[o] = "object" /\ count'[o] = 0
    <3>1. v # o
      BY <1>2, <1>4, <1>10, NodesAre
    <3>2. count'[o] = count[o] + (IF v = o THEN 1 ELSE 0)
      BY <1>2, <1>11
    <3>3. count'[o] = 0
      BY <1>2, <3>1, <3>2
    <3> QED
      BY <1>1, <1>2, <3>3
  <2>4. 2 * left' <= Len(stack')
    BY <1>1, <1>2, <1>3, <1>4, BoundsAssumption
  <2>5. ASSUME NEW f \in 1 .. left'
        PROVE  stack'[Len(stack') - 2 * f + 1] # Scalar
               /\ kind'[stack'[Len(stack') - 2 * f + 1]] = "string"
    <3>1. f + 1 \in 1 .. left /\ Len(stack') - 2 * f + 1 = L - 2 * (f + 1) + 1
          /\ Len(stack') - 2 * f + 1 \in 1 .. L - 2
      <4>1. left \in Nat /\ left' = left - 1 /\ left > 0 /\ L \in Nat /\ Len(stack') = L - 2
        BY <1>1, <1>2, <1>3, <1>4, BoundsAssumption
      <4> QED
        BY <2>4, <4>1
    <3>2. IsString(stack[L - 2 * (f + 1) + 1])
      BY <1>2, <3>1
    <3> QED
      BY <1>1, <1>4, <3>1, <3>2 DEF IsString
  <2>6. building' = o /\ left' \in Nat
    BY <1>1, <1>2, <1>16, BoundsAssumption
  <2> QED
    BY <2>1, <2>2, <2>3, <2>4, <2>5, <2>6 DEF Building, IsString
<1> QED
  BY <1>8, <1>12, <1>13, <1>14, <1>15

LEMMA MemberRemoved ==
  ASSUME IInv, NEW o \in Nodes, NEW a \in Names, RemoveMember(o, a)
  PROVE  IInv'
<1> USE DEF IInv
<1> DEFINE D == DOMAIN members[o]
           m == Restrict(members[o], D \ {a})
           w == members[o][a].val
<1>1. /\ pc = "program" /\ todo = <<>> /\ a \in D
      /\ members' = [members EXCEPT ![o] = m] /\ todo' = Calls(<<w>>)
      /\ spent' = spent \cup {members[o][a].key}
      /\ UNCHANGED <<kind, elems, hashed, count, held, stack, building, left, pc>>
  BY DEF RemoveMember, Idle, parse
<1>2. /\ IsMap(members[o]) /\ IsFiniteSet(D)
      /\ members[o][a].key \in Nodes /\ w \in Values
  BY <1>1, MapsAre DEF TypeOK, MapsFinite, IsMap
<1>3. DOMAIN m = D \ {a} /\ \A b \in D \ {a} : m[b] = members[o][b]
  BY DEF Restrict
<1>4. IsMap(m) /\ IsFiniteSet(DOMAIN m)
  <2>1. m = [b \in D \ {a} |-> m[b]]
    BY DEF Restrict
  <2>2. IsFiniteSet(D \ {a})
    BY <1>2, FS_Subset
  <2> HIDE DEF m
  <2> QED
    BY <1>2, <1>3, <2>1, <2>2 DEF IsMap
<1> HIDE DEF m, w
<1>5. MapsFinite'
  BY <1>1, <1>4 DEF MapsFinite, TypeOK
<1>6. TypeOK'
  <2>1. members' \in [Nodes -> UNION {[A -> [key : Nodes, val : Values]] : A \in SUBSET Names}]
    BY <1>1, <1>4, MapsAre DEF TypeOK
  <2>2. \A n \in Nodes : /\ DOMAIN members'[n] \subseteq DOMAIN members[n]
                         /\ \A b \in DOMAIN members'[n] : members'[n][b] = members[n][b]
    BY <1>1, <1>3 DEF TypeOK
  <2>3. \A n \in Nodes : /\ elems[n] # <<>> => kind[n] = "array"
                         /\ DOMAIN members'[n] # {} => kind[n] = "object"
                         /\ \A b \in DOMAIN members'[n] :
                              /\ members'[n][b].key # Scalar
                              /\ kind'[members'[n][b].key] = "string"
    BY <1>1, <2>2, SMTT(30) DEF TypeOK, IsString
  <2>4. todo' \in Seq({"free", "finish"} \X Values)
    <3>1. <<w>> \in Seq(Values)
      BY <1>2
    <3> QED
      BY <1>1, <3>1, CallsSeq
  <2>5. spent' \subseteq Nodes
    BY <1>1, <1>2 DEF TypeOK
  <2> QED
    BY <1>1, <2>1, <2>3, <2>4, <2>5 DEF TypeOK, IsString
<1>7. ASSUME NEW x
      PROVE  /\ ByKeys(x)' = ByKeys(x) - (IF members[o][a].key = x THEN 1 ELSE 0)
             /\ ByVals(x)' = ByVals(x) - (IF w = x THEN 1 ELSE 0)
             /\ ByCalls(x)' = (IF w = x THEN 1 ELSE 0) /\ ByCalls(x) = 0
             /\ Finishing(x)' = 0 /\ Finishing(x) = 0
             /\ ByElems(x)' = ByElems(x) /\ ByStack(x)' = ByStack(x) /\ ByBuilder(x)' = ByBuilder(x)
  <2>1. ByKeys(x)' = ByKeys(x) - (IF members[o][a].key = x THEN 1 ELSE 0)
    <3> DEFINE f == KeysHeld[o]
               g == KeysOf(m)
    <3>1. /\ DOMAIN f = D /\ f[a] = members[o][a].key /\ DOMAIN g = DOMAIN f \ {a}
          /\ \A b \in DOMAIN g : g[b] = f[b]
      BY <1>1, <1>3 DEF KeysHeld, KeysOf
    <3>2. ByKeys(x)' = ByKeys(x) + Occurrences(x, g) - Occurrences(x, f)
      BY <1>1, <1>4, MembersEffect
    <3> HIDE DEF f, g
    <3>3. IsFiniteSet(DOMAIN f) /\ a \in DOMAIN f
      BY <1>1, <1>2, <3>1
    <3>4. /\ IsFiniteSet(DOMAIN g)
          /\ Occurrences(x, g) + (IF f[a] = x THEN 1 ELSE 0) = Occurrences(x, f)
      BY <3>1, <3>3, OccurrencesWithout
    <3>5. Occurrences(x, g) \in Nat /\ Occurrences(x, f) \in Nat
      BY <3>3, <3>4, OccurrencesNat
    <3> QED
      BY <3>1, <3>2, <3>4, <3>5, PartsNat
  <2>2. ByVals(x)' = ByVals(x) - (IF w = x THEN 1 ELSE 0)
    <3> DEFINE f == ValsHeld[o]
               g == ValsOf(m)
    <3>1. /\ DOMAIN f = D /\ f[a] = w /\ DOMAIN g = DOMAIN f \ {a}
          /\ \A b \in DOMAIN g : g[b] = f[b]
      BY <1>1, <1>3 DEF ValsHeld, ValsOf, w
    <3>2. ByVals(x)' = ByVals(x) + Occurrences(x, g) - Occurrences(x, f)
      BY <1>1, <1>4, MembersEffect
    <3> HIDE DEF f, g
    <3>3. IsFiniteSet(DOMAIN f) /\ a \in DOMAIN f
      BY <1>1, <1>2, <3>1
    <3>4. /\ IsFiniteSet(DOMAIN g)
          /\ Occurrences(x, g) + (IF f[a] = x THEN 1 ELSE 0) = Occurrences(x, f)
      BY <3>1, <3>3, OccurrencesWithout
    <3>5. Occurrences(x, g) \in Nat /\ Occurrences(x, f) \in Nat
      BY <3>3, <3>4, OccurrencesNat
    <3> QED
      BY <3>1, <3>2, <3>4, <3>5, PartsNat
  <2>3. ByCalls(x)' = (IF w = x THEN 1 ELSE 0) /\ Finishing(x)' = 0
    BY <1>1, OccurrencesCalls, OccurrencesSingle DEF ByCalls, Finishing
  <2> QED
    BY <1>1, <2>1, <2>2, <2>3, SameParts, NoCalls
<1>8. Covered'
  <2>1. ASSUME NEW x \in Nodes
        PROVE  /\ Owners(x)' \in Int /\ Owners(x)' <= Owners(x)
               /\ x \notin spent' => x \notin spent /\ Owners(x)' = Owners(x)
    <3> DEFINE p == IF members[o][a].key = x THEN 1 ELSE 0
               q == IF w = x THEN 1 ELSE 0
    <3>1. /\ p \in Nat /\ q \in Nat
          /\ ByKeys(x)' = ByKeys(x) - p /\ ByVals(x)' = ByVals(x) - q /\ ByCalls(x)' = q
          /\ held'[x] = held[x] /\ (x \notin spent' => p = 0 /\ x \notin spent)
      BY <1>1, <1>7
    <3> HIDE DEF p, q
    <3> QED
      BY <1>7, <3>1, PartsNat, OwnersAre, OwnersNext
  <2> QED
    BY <1>1, <1>7, <2>1, Moved
<1>9. Endings'
  BY <1>1, <1>7 DEF Endings
<1>10. Building'
  BY <1>1 DEF Building, IsString
<1> QED
  BY <1>5, <1>6, <1>8, <1>9, <1>10

LEMMA ParseBegun ==
  ASSUME IInv, ParseBegin
  PROVE  IInv'
<1> USE DEF IInv
<1>1. /\ pc = "program" /\ pc' = "parse"
      /\ UNCHANGED <<kind, elems, members, hashed, count, held, stack, building, left, todo, spent>>
  BY DEF ParseBegin, Idle, nodes
<1>2. TypeOK' /\ Endings' /\ MapsFinite'
  <2>1. \A x : Finishing(x)' = Finishing(x)
    BY <1>1, SameParts
  <2> QED
    BY <1>1, <2>1 DEF TypeOK, IsString, Endings, MapsFinite
<1>3. Covered'
  <2>1. ASSUME NEW x \in Nodes
        PROVE  Owners(x)' = Owners(x) /\ Owners(x)' \in Int /\ Finishing(x)' = Finishing(x)
    BY <1>1, SameParts, PartsNat, OwnersAre, OwnersNext
  <2> QED
    BY <1>1, <2>1, Moved
<1>4. Building'
  BY <1>1 DEF Building, IsString
<1> QED
  BY <1>2, <1>3, <1>4

\* kstack_push, after the n uppermost values were popped.
LEMMA Pushed ==
  ASSUME NEW rest \in Seq(Values), NEW y \in Values, stack' = Append(rest, y)
  PROVE  /\ stack' \in Seq(Values)
         /\ \A x : ByStack(x)' = Occurrences(x, rest) + (IF y = x THEN 1 ELSE 0)
         /\ \A n \in DOMAIN stack' : stack'[n] = y \/ \E i \in DOMAIN rest : stack'[n] = rest[i]
<1> DEFINE s == Append(rest, y)
<1>1. /\ s \in Seq(Values) /\ Len(s) = Len(rest) + 1
      /\ \A i \in 1 .. Len(rest) : s[i] = rest[i]
      /\ s[Len(rest) + 1] = y
  BY AppendProperties
<1>2. DOMAIN s = 1 .. Len(s) /\ DOMAIN rest = 1 .. Len(rest) /\ Len(rest) \in Nat
  BY <1>1, LenProperties
<1>3. \A x : Occurrences(x, s) = Occurrences(x, rest) + (IF y = x THEN 1 ELSE 0)
  BY OccurrencesAppend
<1> HIDE DEF s
<1>4. \A n \in DOMAIN s : s[n] = y \/ \E i \in DOMAIN rest : s[n] = rest[i]
  <2> SUFFICES ASSUME NEW n \in DOMAIN s, s[n] # y
               PROVE  \E i \in DOMAIN rest : s[n] = rest[i]
    OBVIOUS
  <2>1. n \in 1 .. Len(rest)
    BY <1>1, <1>2
  <2> QED
    BY <1>1, <1>2, <2>1
<1>5. stack' = s
  BY DEF s
<1> QED
  BY <1>1, <1>3, <1>4, <1>5 DEF ByStack

LEMMA ScalarParsed ==
  ASSUME IInv, ParseScalar
  PROVE  IInv'
<1> USE DEF IInv
<1>1. /\ pc = "parse" /\ building = 0 /\ stack' = Append(stack, Scalar)
      /\ UNCHANGED <<kind, elems, members, hashed, count, held, building, left, pc, todo, spent>>
  BY DEF ParseScalar, Parsing, nodes
<1>2. stack \in Seq(Values) /\ Scalar \in Values
  BY DEF TypeOK, Values
<1>3. /\ stack' \in Seq(Values)
      /\ \A x : ByStack(x)' = ByStack(x) + (IF Scalar = x THEN 1 ELSE 0)
      /\ \A n \in DOMAIN stack' : stack'[n] = Scalar \/ \E i \in DOMAIN stack : stack'[n] = stack[i]
  BY <1>1, <1>2, Pushed DEF ByStack
<1>4. TypeOK' /\ Endings' /\ MapsFinite'
  <2>1. \A x : Finishing(x)' = Finishing(x)
    BY <1>1, SameParts
  <2> QED
    BY <1>1, <1>3, <2>1 DEF TypeOK, IsString, Endings, MapsFinite
<1>5. Covered'
  <2>1. ASSUME NEW x \in Nodes
        PROVE  Owners(x)' = Owners(x) /\ Owners(x)' \in Int /\ Finishing(x)' = Finishing(x)
    <3>1. ByStack(x)' = ByStack(x)
      <4>1. Scalar # x /\ ByStack(x) \in Nat
        BY NodesAre, PartsNat
      <4>2. ByStack(x)' = ByStack(x) + (IF Scalar = x THEN 1 ELSE 0)
        BY <1>3
      <4> QED
        BY <4>1, <4>2
    <3>2. /\ ByElems(x)' = ByElems(x) /\ ByKeys(x)' = ByKeys(x) /\ ByVals(x)' = ByVals(x)
          /\ ByBuilder(x)' = ByBuilder(x) /\ ByCalls(x)' = ByCalls(x) /\ held'[x] = held[x]
          /\ Finishing(x)' = Finishing(x)
      BY <1>1, SameParts
    <3>3. Owners(x)' = Owners(x)
      BY <3>1, <3>2, OwnersAre, OwnersNext
    <3> QED
      BY <3>2, <3>3, OwnersNat
  <2> QED
    BY <1>1, <2>1, Moved
<1>6. Building'
  BY <1>1, <1>3, NodesAre DEF Building
<1> QED
  BY <1>4, <1>5, <1>6

\* A new node of kind k with a count of c.
LEMMA Made ==
  ASSUME IInv, Unused # {}, NEW f, f = Fresh, NEW k \in {"string", "array", "object"},
         NEW c \in {0, 1}, Make(k, c)
  PROVE  /\ f \in Nodes /\ kind[f] = "unused" /\ count[f] = 0 /\ Owners(f) = 0
         /\ ByElems(f) = 0 /\ ByKeys(f) = 0 /\ ByVals(f) = 0 /\ ByStack(f) = 0
         /\ ByBuilder(f) = 0 /\ held[f] = 0 /\ ByCalls(f) = 0
         /\ elems[f] = <<>> /\ DOMAIN members[f] = {} /\ f \notin hashed
         /\ building # f /\ \A n \in DOMAIN stack : stack[n] # f
         /\ kind' = [kind EXCEPT ![f] = k] /\ kind'[f] = k /\ count'[f] = c
         /\ \A x \in Nodes \ {f} : kind'[x] = kind[x] /\ count'[x] = count[x]
         /\ kind' \in [Nodes -> {"unused", "string", "array", "object", "disposed"}]
         /\ count' \in [Nodes -> -1 .. MaxCount]
         /\ \A n \in Nodes :
              /\ elems[n] # <<>> => kind'[n] = "array"
              /\ DOMAIN members[n] # {} => kind'[n] = "object"
              /\ \A a \in DOMAIN members[n] :
                   members[n][a].key # Scalar /\ kind'[members[n][a].key] = "string"
         /\ hashed \subseteq {o \in Nodes : kind'[o] = "object"}
<1> USE DEF IInv
<1>1. /\ f \in Nodes /\ kind[f] = "unused" /\ count[f] = 0 /\ Owners(f) = 0
      /\ ByElems(f) = 0 /\ ByKeys(f) = 0 /\ ByVals(f) = 0 /\ ByStack(f) = 0
      /\ ByBuilder(f) = 0 /\ held[f] = 0 /\ ByCalls(f) = 0
      /\ elems[f] = <<>> /\ DOMAIN members[f] = {} /\ f \notin hashed
      /\ building # f /\ \A n \in DOMAIN stack : stack[n] # f
  BY FreshIs
<1>2. kind' = [kind EXCEPT ![f] = k] /\ count' = [count EXCEPT ![f] = c]
  BY DEF Make
<1>3. /\ kind'[f] = k /\ count'[f] = c
      /\ \A x \in Nodes \ {f} : kind'[x] = kind[x] /\ count'[x] = count[x]
      /\ kind' \in [Nodes -> {"unused", "string", "array", "object", "disposed"}]
      /\ count' \in [Nodes -> -1 .. MaxCount]
  BY <1>1, <1>2, BoundsAssumption DEF TypeOK
<1>4. \A n \in Nodes :
        /\ elems[n] # <<>> => kind'[n] = "array"
        /\ DOMAIN members[n] # {} => kind'[n] = "object"
        /\ \A a \in DOMAIN members[n] :
             members[n][a].key # Scalar /\ kind'[members[n][a].key] = "string"
  BY <1>1, <1>2 DEF TypeOK, IsString
<1>5. hashed \subseteq {o \in Nodes : kind'[o] = "object"}
  BY <1>1, <1>3 DEF TypeOK
<1> QED
  BY <1>1, <1>2, <1>3, <1>4, <1>5

\* The only new reference is one to the new node.
LEMMA MadeCovered ==
  ASSUME IInv, Unused # {}, NEW f, f = Fresh, NEW k \in {"string", "array", "object"},
         NEW c \in {0, 1}, Make(k, c), todo = <<>>, todo' = <<>>,
         \A x \in Nodes \ {f} : Owners(x)' = Owners(x) /\ (x \notin spent' => x \notin spent),
         Owners(f)' = 1 \/ (Owners(f)' = 0 /\ f \in spent')
  PROVE  Covered' /\ Endings'
<1> USE DEF IInv
<1>1. /\ f \in Nodes /\ kind'[f] = k /\ count'[f] = c
      /\ \A x \in Nodes \ {f} : kind'[x] = kind[x] /\ count'[x] = count[x]
  BY Made
<1>2. \A x : Finishing(x) = 0 /\ Finishing(x)' = 0
  BY NoCalls
<1>3. Covered'
  <2> SUFFICES ASSUME NEW x \in Nodes
               PROVE  /\ Owners(x)' <= IF Secure(x)' THEN Top(x)' ELSE 0
                      /\ Secure(x)' /\ x \notin spent' => Owners(x)' = Top(x)'
    BY DEF Covered
  <2>1. CASE x = f
    <3>1. Secure(x)' /\ Top(x)' = 1
      BY <1>1, <1>2, <2>1 DEF Secure, Top
    <3>2. Owners(x)' = Owners(f)'
      BY <2>1
    <3> QED
      BY <2>1, <3>1, <3>2
  <2>2. CASE x # f
    <3>1. Secure(x)' = Secure(x) /\ Top(x)' = Top(x)
      BY <1>1, <1>2, <2>2 DEF Secure, Top
    <3> QED
      BY <2>2, <3>1 DEF Covered
  <2> QED
    BY <2>1, <2>2
<1>4. Endings'
  <2>1. \A x \in Nodes : count'[x] >= 0 /\ (kind'[x] = "unused" => count'[x] = 0)
    <3> SUFFICES ASSUME NEW x \in Nodes
                 PROVE  count'[x] >= 0 /\ (kind'[x] = "unused" => count'[x] = 0)
      OBVIOUS
    <3>1. count[x] >= 0 /\ (kind[x] = "unused" => count[x] = 0)
      BY <1>2 DEF Endings
    <3> QED
      BY <1>1, <3>1
  <2> QED
    BY <1>2, <2>1 DEF Endings
<1> QED
  BY <1>3, <1>4

LEMMA StringParsed ==
  ASSUME IInv, ParseString
  PROVE  IInv'
<1> USE DEF IInv
<1>0. PICK f : f = Fresh
  OBVIOUS
<1>1. /\ pc = "parse" /\ building = 0 /\ todo = <<>> /\ todo' = <<>> /\ Unused # {}
      /\ Make("string", 1) /\ stack' = Append(stack, f)
      /\ UNCHANGED <<elems, members, hashed, held, building, left, pc, spent>>
  BY <1>0 DEF ParseString, Parsing
<1>2. /\ f \in Nodes /\ Owners(f) = 0 /\ (\A n \in DOMAIN stack : stack[n] # f)
      /\ kind'[f] = "string" /\ count'[f] = 1
      /\ \A x \in Nodes \ {f} : kind'[x] = kind[x] /\ count'[x] = count[x]
      /\ kind' \in [Nodes -> {"unused", "string", "array", "object", "disposed"}]
      /\ count' \in [Nodes -> -1 .. MaxCount]
      /\ \A n \in Nodes :
           /\ elems[n] # <<>> => kind'[n] = "array"
           /\ DOMAIN members[n] # {} => kind'[n] = "object"
           /\ \A a \in DOMAIN members[n] :
                members[n][a].key # Scalar /\ kind'[members[n][a].key] = "string"
      /\ hashed \subseteq {o \in Nodes : kind'[o] = "object"}
  BY <1>0, <1>1, Made
<1>3. /\ stack' \in Seq(Values)
      /\ \A x : ByStack(x)' = ByStack(x) + (IF f = x THEN 1 ELSE 0)
      /\ \A n \in DOMAIN stack' : stack'[n] = f \/ \E i \in DOMAIN stack : stack'[n] = stack[i]
  <2>1. stack \in Seq(Values) /\ f \in Values
    BY <1>2, NodesAre DEF TypeOK
  <2> QED
    BY <1>1, <2>1, Pushed DEF ByStack
<1>4. TypeOK' /\ MapsFinite'
  BY <1>1, <1>2, <1>3 DEF TypeOK, IsString, MapsFinite
<1>5. \A x \in Nodes : Owners(x)' = Owners(x) + (IF f = x THEN 1 ELSE 0)
  <2> SUFFICES ASSUME NEW x \in Nodes
               PROVE  Owners(x)' = Owners(x) + (IF f = x THEN 1 ELSE 0)
    OBVIOUS
  <2>1. ByStack(x)' = ByStack(x) + (IF f = x THEN 1 ELSE 0) /\ held'[x] = held[x]
    BY <1>1, <1>3
  <2>2. /\ ByElems(x)' = ByElems(x) /\ ByKeys(x)' = ByKeys(x) /\ ByVals(x)' = ByVals(x)
        /\ ByBuilder(x)' = ByBuilder(x) /\ ByCalls(x)' = ByCalls(x)
    BY <1>1, SameParts
  <2> QED
    BY <2>1, <2>2, PartsNat, OwnersAre, OwnersNext
<1>6. Covered' /\ Endings'
  <2>1. \A x \in Nodes \ {f} : Owners(x)' = Owners(x) /\ (x \notin spent' => x \notin spent)
    BY <1>1, <1>5, OwnersNat
  <2>2. Owners(f)' = 1
    BY <1>2, <1>5
  <2> QED
    BY <1>0, <1>1, <2>1, <2>2, MadeCovered
<1>7. Building'
  <2>1. \A n \in DOMAIN stack : stack[n] \in Nodes => count'[stack[n]] = 1
    BY <1>2 DEF Building
  <2>2. \A n \in DOMAIN stack' : stack'[n] \in Nodes => count'[stack'[n]] = 1
    BY <1>2, <1>3, <2>1
  <2> QED
    BY <1>1, <2>2 DEF Building
<1> QED
  BY <1>4, <1>6, <1>7

LEMMA ArrayParsed ==
  ASSUME IInv, NEW n \in Nat, ParseArray(n)
  PROVE  IInv'
<1> USE DEF IInv
<1>0. PICK f : f = Fresh
  OBVIOUS
<1> DEFINE m == Len(stack) - n
           rest == SubSeq(stack, 1, m)
           items == SubSeq(stack, m + 1, Len(stack))
<1>1. /\ pc = "parse" /\ building = 0 /\ todo = <<>> /\ todo' = <<>> /\ Unused # {}
      /\ n <= Len(stack) /\ elems' = [elems EXCEPT ![f] = items]
      /\ Make("array", 0) /\ stack' = rest /\ building' = f /\ left' = 0
      /\ UNCHANGED <<members, hashed, held, pc, spent>>
  BY <1>0 DEF ParseArray, Parsing
<1>2. stack \in Seq(Values) /\ Len(stack) \in Nat /\ m \in 0 .. Len(stack)
  <2>1. stack \in Seq(Values) /\ Len(stack) \in Nat
    BY SeqFinite DEF TypeOK
  <2> QED
    BY <1>1, <2>1
<1>3. /\ rest \in Seq(Values) /\ items \in Seq(Values) /\ Len(rest) = m
      /\ \A i \in 1 .. m : rest[i] = stack[i]
      /\ \A x : Occurrences(x, stack) = Occurrences(x, rest) + Occurrences(x, items)
  <2>1. \A x : /\ rest \in Seq(Values) /\ items \in Seq(Values) /\ Len(rest) = m
               /\ \A i \in 1 .. m : rest[i] = stack[i]
               /\ Occurrences(x, stack) = Occurrences(x, rest) + Occurrences(x, items)
    BY <1>2, OccurrencesSplit
  <2> QED
    BY <2>1
<1> HIDE DEF rest, items, m
<1>4. /\ \A i \in DOMAIN rest : i \in DOMAIN stack /\ rest[i] = stack[i]
      /\ \A x : Occurrences(x, rest) \in Nat /\ Occurrences(x, items) \in Nat
  <2>1. DOMAIN rest = 1 .. m /\ IsFiniteSet(DOMAIN rest) /\ IsFiniteSet(DOMAIN items)
    BY <1>3, SeqFinite
  <2>2. DOMAIN stack = 1 .. Len(stack)
    BY <1>2, SeqFinite
  <2>3. \A x : Occurrences(x, rest) \in Nat /\ Occurrences(x, items) \in Nat
    BY <2>1, OccurrencesNat
  <2>4. \A i \in DOMAIN rest : i \in DOMAIN stack /\ rest[i] = stack[i]
    <3>1. \A i \in 1 .. m : i \in 1 .. Len(stack)
      BY <1>2
    <3> QED
      BY <1>3, <2>1, <2>2, <3>1
  <2> QED
    BY <2>3, <2>4
<1>5. /\ f \in Nodes /\ Owners(f) = 0 /\ (\A i \in DOMAIN stack : stack[i] # f)
      /\ elems[f] = <<>> /\ kind'[f] = "array" /\ count'[f] = 0
      /\ \A x \in Nodes \ {f} : kind'[x] = kind[x] /\ count'[x] = count[x]
      /\ kind' \in [Nodes -> {"unused", "string", "array", "object", "disposed"}]
      /\ count' \in [Nodes -> -1 .. MaxCount]
      /\ \A i \in Nodes :
           /\ elems[i] # <<>> => kind'[i] = "array"
           /\ DOMAIN members[i] # {} => kind'[i] = "object"
           /\ \A a \in DOMAIN members[i] :
                members[i][a].key # Scalar /\ kind'[members[i][a].key] = "string"
      /\ hashed \subseteq {o \in Nodes : kind'[o] = "object"}
  BY <1>0, <1>1, Made
<1>6. TypeOK' /\ MapsFinite'
  <2>1. building' \in Values /\ left' \in 0 .. MaxStack
    BY <1>1, <1>5, NodesAre, BoundsAssumption
  <2>2. /\ elems' \in [Nodes -> Seq(Values)]
        /\ \A i \in Nodes : elems'[i] # <<>> => kind'[i] = "array"
    <3>1. /\ elems \in [Nodes -> Seq(Values)] /\ elems' = [elems EXCEPT ![f] = items]
          /\ items \in Seq(Values) /\ f \in Nodes /\ kind'[f] = "array"
          /\ \A i \in Nodes : elems[i] # <<>> => kind'[i] = "array"
      BY <1>1, <1>3, <1>5 DEF TypeOK
    <3> QED
      BY <3>1
  <2>3. stack' \in Seq(Values)
    BY <1>1, <1>3
  <2>4. TypeOK
    OBVIOUS
  <2>5. /\ held' \in [Nodes -> Nat] /\ pc' \in {"program", "parse"}
        /\ members' \in [Nodes -> UNION {[A -> [key : Nodes, val : Values]] : A \in SUBSET Names}]
        /\ todo' \in Seq({"free", "finish"} \X Values) /\ spent' \subseteq Nodes
    BY <1>1, <2>4 DEF TypeOK
  <2>6. \A i \in Nodes :
          /\ DOMAIN members'[i] # {} => kind'[i] = "object"
          /\ \A a \in DOMAIN members'[i] :
               members'[i][a].key # Scalar /\ kind'[members'[i][a].key] = "string"
    BY <1>1, <1>5
  <2>7. /\ kind' \in [Nodes -> {"unused", "string", "array", "object", "disposed"}]
        /\ count' \in [Nodes -> -1 .. MaxCount]
        /\ hashed' \subseteq {o \in Nodes : kind'[o] = "object"}
    BY <1>1, <1>5
  <2>8. MapsFinite'
    BY <1>1 DEF MapsFinite
  <2> QED
    BY <2>1, <2>2, <2>3, <2>5, <2>6, <2>7, <2>8 DEF TypeOK, IsString
<1>7. \A x : ByElems(x)' = ByElems(x) + Occurrences(x, items)
  <2>1. \A x : ByElems(x)' = ByElems(x) + Occurrences(x, items) - Occurrences(x, elems[f])
    <3>1. elems' = [elems EXCEPT ![f] = items] /\ items \in Seq(Values) /\ f \in Nodes
      BY <1>1, <1>3, <1>5
    <3> QED
      BY <3>1, ElemsEffect
  <2>2. \A x : Occurrences(x, elems[f]) = 0
    BY <1>5, OccurrencesNone
  <2> QED
    BY <1>4, <2>1, <2>2, PartsNat
<1>8. \A x \in Nodes : Owners(x)' = Owners(x) + (IF f = x THEN 1 ELSE 0)
  <2> SUFFICES ASSUME NEW x \in Nodes
               PROVE  Owners(x)' = Owners(x) + (IF f = x THEN 1 ELSE 0)
    OBVIOUS
  <2>1. /\ ByStack(x) = Occurrences(x, rest) + Occurrences(x, items)
        /\ ByStack(x)' = Occurrences(x, rest)
        /\ ByElems(x)' = ByElems(x) + Occurrences(x, items)
    BY <1>1, <1>3, <1>7 DEF ByStack
  <2>2. ByBuilder(x)' = (IF f = x THEN 1 ELSE 0) /\ ByBuilder(x) = 0 /\ held'[x] = held[x]
    BY <1>1, NodesAre DEF ByBuilder
  <2>3. ByKeys(x)' = ByKeys(x) /\ ByVals(x)' = ByVals(x) /\ ByCalls(x)' = ByCalls(x)
    BY <1>1, SameParts
  <2> QED
    BY <1>4, <2>1, <2>2, <2>3, PartsNat, OwnersAre, OwnersNext
<1>9. Covered' /\ Endings'
  <2>1. \A x \in Nodes \ {f} : Owners(x)' = Owners(x) /\ (x \notin spent' => x \notin spent)
    BY <1>1, <1>8, OwnersNat
  <2>2. Owners(f)' = 1
    BY <1>5, <1>8
  <2> QED
    BY <1>0, <1>1, <2>1, <2>2, MadeCovered
<1>10. Building'
  <2>1. \A i \in DOMAIN stack' : stack'[i] \in Nodes => count'[stack'[i]] = 1
    BY <1>1, <1>4, <1>5 DEF Building
  <2>2. 2 * left' <= Len(stack') /\ 1 .. left' = {} /\ ~ (left' > 0)
    BY <1>1, <1>2, <1>3
  <2> QED
    BY <1>1, <1>5, <2>1, <2>2 DEF Building
<1> QED
  BY <1>6, <1>9, <1>10

LEMMA ObjectParsed ==
  ASSUME IInv, NEW n \in 0 .. MaxStack, ParseObject(n)
  PROVE  IInv'
<1> USE DEF IInv
<1>0. PICK f : f = Fresh
  OBVIOUS
<1>1. /\ pc = "parse" /\ building = 0 /\ todo = <<>> /\ todo' = <<>> /\ Unused # {}
      /\ Make("object", 0) /\ building' = f /\ left' = n
      /\ 2 * n <= Len(stack) /\ \A i \in 1 .. n : IsString(stack[Len(stack) - 2 * i + 1])
      /\ hashed' \subseteq hashed \cup {f}
      /\ UNCHANGED <<elems, members, held, stack, pc, spent>>
  BY <1>0 DEF ParseObject, Parsing
<1>2. /\ f \in Nodes /\ Owners(f) = 0 /\ (\A i \in DOMAIN stack : stack[i] # f)
      /\ kind'[f] = "object" /\ count'[f] = 0
      /\ \A x \in Nodes \ {f} : kind'[x] = kind[x] /\ count'[x] = count[x]
      /\ kind' \in [Nodes -> {"unused", "string", "array", "object", "disposed"}]
      /\ count' \in [Nodes -> -1 .. MaxCount]
      /\ \A i \in Nodes :
           /\ elems[i] # <<>> => kind'[i] = "array"
           /\ DOMAIN members[i] # {} => kind'[i] = "object"
           /\ \A a \in DOMAIN members[i] :
                members[i][a].key # Scalar /\ kind'[members[i][a].key] = "string"
      /\ hashed \subseteq {o \in Nodes : kind'[o] = "object"}
  BY <1>0, <1>1, Made
<1>3. stack \in Seq(Values) /\ DOMAIN stack = 1 .. Len(stack) /\ Len(stack) \in Nat /\ n \in Nat
      /\ \A i \in DOMAIN stack : stack[i] \in Values
  <2>1. stack \in Seq(Values)
    BY DEF TypeOK
  <2> QED
    BY <2>1, SeqFinite, ElementOfSeq, BoundsAssumption
<1>4. TypeOK' /\ MapsFinite'
  <2>1. building' \in Values /\ left' \in 0 .. MaxStack
    BY <1>1, <1>2, NodesAre
  <2>2. hashed' \subseteq {o \in Nodes : kind'[o] = "object"}
    BY <1>1, <1>2
  <2>3. /\ elems' = elems /\ members' = members /\ held' = held /\ stack' = stack /\ pc' = pc
        /\ todo' = todo /\ spent' = spent
    BY <1>1
  <2>4. MapsFinite'
    BY <2>3 DEF MapsFinite
  <2>5. TypeOK
    OBVIOUS
  <2>6. /\ elems' \in [Nodes -> Seq(Values)] /\ held' \in [Nodes -> Nat] /\ stack' \in Seq(Values)
        /\ members' \in [Nodes -> UNION {[A -> [key : Nodes, val : Values]] : A \in SUBSET Names}]
        /\ pc' \in {"program", "parse"} /\ todo' \in Seq({"free", "finish"} \X Values)
        /\ spent' \subseteq Nodes
    BY <2>3, <2>5 DEF TypeOK
  <2>7. \A i \in Nodes :
          /\ elems'[i] # <<>> => kind'[i] = "array"
          /\ DOMAIN members'[i] # {} => kind'[i] = "object"
          /\ \A a \in DOMAIN members'[i] :
               members'[i][a].key # Scalar /\ kind'[members'[i][a].key] = "string"
    BY <1>2, <2>3
  <2>8. /\ kind' \in [Nodes -> {"unused", "string", "array", "object", "disposed"}]
        /\ count' \in [Nodes -> -1 .. MaxCount]
    BY <1>2
  <2> QED
    BY <2>1, <2>2, <2>4, <2>6, <2>7, <2>8 DEF TypeOK, IsString
<1>5. \A x \in Nodes : Owners(x)' = Owners(x) + (IF f = x THEN 1 ELSE 0)
  <2> SUFFICES ASSUME NEW x \in Nodes
               PROVE  Owners(x)' = Owners(x) + (IF f = x THEN 1 ELSE 0)
    OBVIOUS
  <2>1. ByBuilder(x)' = (IF f = x THEN 1 ELSE 0) /\ ByBuilder(x) = 0 /\ held'[x] = held[x]
    BY <1>1, NodesAre DEF ByBuilder
  <2>2. /\ ByElems(x)' = ByElems(x) /\ ByKeys(x)' = ByKeys(x) /\ ByVals(x)' = ByVals(x)
        /\ ByStack(x)' = ByStack(x) /\ ByCalls(x)' = ByCalls(x)
    BY <1>1, SameParts
  <2> QED
    BY <2>1, <2>2, PartsNat, OwnersAre, OwnersNext
<1>6. Covered' /\ Endings'
  <2>1. \A x \in Nodes \ {f} : Owners(x)' = Owners(x) /\ (x \notin spent' => x \notin spent)
    BY <1>1, <1>5, OwnersNat
  <2>2. Owners(f)' = 1
    BY <1>2, <1>5
  <2> QED
    BY <1>0, <1>1, <2>1, <2>2, MadeCovered
<1>7. Building'
  <2>1. \A i \in DOMAIN stack : stack[i] \in Nodes => count'[stack[i]] = 1
    BY <1>2 DEF Building
  <2>2. ASSUME NEW i \in 1 .. left'
        PROVE  /\ stack[Len(stack) - 2 * i + 1] # Scalar
               /\ kind'[stack[Len(stack) - 2 * i + 1]] = "string"
    <3> DEFINE j == Len(stack) - 2 * i + 1
    <3>1. IsString(stack[j])
      BY <1>1
    <3>2. j \in DOMAIN stack
      BY <1>1, <1>3
    <3> HIDE DEF j
    <3>3. stack[j] \in Nodes /\ stack[j] # f
      BY <1>2, <1>3, <3>1, <3>2, NodesAre DEF IsString
    <3>4. kind'[stack[j]] = "string" /\ stack[j] # Scalar
      BY <1>2, <3>1, <3>3 DEF IsString
    <3> QED
      BY <3>4 DEF j
  <2> QED
    BY <1>1, <1>2, <2>1, <2>2 DEF Building, IsString
<1> QED
  BY <1>4, <1>6, <1>7

\* When the counts stand for as many references as before.
LEMMA MovedOrCounted ==
  ASSUME TypeOK, MapsFinite, Covered, kind' = kind,
         \A x \in Nodes : Finishing(x)' = Finishing(x) /\ Top(x)' = Top(x),
         \A x \in Nodes : Owners(x)' = Owners(x), spent \subseteq spent'
  PROVE  Covered'
BY DEF Covered, Secure

\* The container goes on the stack.
LEMMA ContainerPushed ==
  ASSUME IInv, building # 0, todo = <<>>, building' = 0,
         count' = [count EXCEPT ![building] = 1], stack' = Append(stack, building),
         UNCHANGED <<kind, elems, members, hashed, held, left, pc, todo, spent>>
  PROVE  IInv'
<1> USE DEF IInv
<1>0. PICK o : o = building
  OBVIOUS
<1>1. /\ o \in Nodes /\ o \in Values /\ kind[o] \in {"array", "object"} /\ count[o] = 0
      /\ pc = "parse" /\ todo' = <<>>
  BY <1>0, NodesAre DEF TypeOK, Building
<1>2. /\ stack' \in Seq(Values)
      /\ \A x : ByStack(x)' = ByStack(x) + (IF o = x THEN 1 ELSE 0)
      /\ \A i \in DOMAIN stack' : stack'[i] = o \/ \E j \in DOMAIN stack : stack'[i] = stack[j]
  <2>1. stack \in Seq(Values) /\ stack' = Append(stack, o)
    BY <1>0 DEF TypeOK
  <2> QED
    BY <1>1, <2>1, Pushed DEF ByStack
<1>3. /\ count' \in [Nodes -> -1 .. MaxCount]
      /\ \A x \in Nodes : count'[x] = IF o = x THEN 1 ELSE count[x]
  <2>1. count \in [Nodes -> -1 .. MaxCount] /\ 1 \in -1 .. MaxCount
    BY BoundsAssumption DEF TypeOK
  <2> QED
    BY <1>0, <2>1
<1>4. TypeOK' /\ MapsFinite'
  <2>1. building' \in Values
    BY NodesAre
  <2> QED
    BY <1>2, <1>3, <2>1, SMTT(30) DEF TypeOK, IsString, MapsFinite
<1>5. \A x \in Nodes : Owners(x)' = Owners(x)
  <2> SUFFICES ASSUME NEW x \in Nodes
               PROVE  Owners(x)' = Owners(x)
    OBVIOUS
  <2>1. /\ ByBuilder(x) = (IF o = x THEN 1 ELSE 0) /\ ByBuilder(x)' = 0
        /\ ByStack(x)' = ByStack(x) + (IF o = x THEN 1 ELSE 0) /\ held'[x] = held[x]
    BY <1>0, <1>2, NodesAre DEF ByBuilder
  <2>2. /\ ByElems(x)' = ByElems(x) /\ ByKeys(x)' = ByKeys(x) /\ ByVals(x)' = ByVals(x)
        /\ ByCalls(x)' = ByCalls(x)
    BY SameParts
  <2> QED
    BY <2>1, <2>2, PartsNat, OwnersAre, OwnersNext
<1>6. \A x : Finishing(x)' = Finishing(x)
  BY SameParts
<1>7. Covered'
  <2>1. \A x \in Nodes : Top(x)' = Top(x)
    BY <1>1, <1>3 DEF Top
  <2> QED
    BY <1>5, <1>6, <2>1, MovedOrCounted
<1>8. Endings'
  <2>1. \A x \in Nodes : /\ Finishing(x) = 0 => count'[x] >= 0
                         /\ kind[x] = "unused" => count'[x] = 0
    BY <1>1, <1>3 DEF Endings
  <2> QED
    BY <1>6, <2>1 DEF Endings
<1>9. Building'
  <2>1. \A i \in DOMAIN stack : stack[i] \in Nodes => count'[stack[i]] = 1
    BY <1>3 DEF Building
  <2>2. \A i \in DOMAIN stack' : stack'[i] \in Nodes => count'[stack'[i]] = 1
    BY <1>1, <1>2, <1>3, <2>1
  <2> QED
    BY <1>1, <2>2 DEF Building
<1> QED
  BY <1>4, <1>7, <1>8, <1>9

\* The document is handed to the program, or lost with what it holds.
LEMMA DocumentEnded ==
  ASSUME IInv, building # 0, todo = <<>>, building' = 0, stack = <<>>, pc' = "program",
         \/ held' = [held EXCEPT ![building] = @ + 1] /\ spent' = spent
         \/ held' = held /\ spent' = spent \cup {building},
         UNCHANGED <<kind, elems, members, hashed, count, stack, left, todo>>
  PROVE  IInv'
<1> USE DEF IInv
<1>0. PICK o : o = building
  OBVIOUS
<1>1. o \in Nodes /\ todo' = <<>>
  BY <1>0, NodesAre DEF TypeOK
<1>2. PICK c \in {0, 1} :
        /\ held' \in [Nodes -> Nat]
        /\ \A x \in Nodes : held'[x] = held[x] + (IF o = x /\ c = 1 THEN 1 ELSE 0)
        /\ spent' \subseteq Nodes /\ spent \subseteq spent'
        /\ c = 0 => o \in spent'
  <2>1. held \in [Nodes -> Nat] /\ spent \subseteq Nodes
    BY DEF TypeOK
  <2>2. CASE held' = [held EXCEPT ![building] = @ + 1] /\ spent' = spent
    <3>1. /\ held' \in [Nodes -> Nat]
          /\ \A x \in Nodes : held'[x] = held[x] + (IF o = x THEN 1 ELSE 0)
      BY <1>0, <1>1, <2>1, <2>2
    <3> WITNESS 1 \in {0, 1}
    <3> QED
      BY <2>1, <2>2, <3>1
  <2>3. CASE held' = held /\ spent' = spent \cup {building}
    <3>1. held' \in [Nodes -> Nat] /\ \A x \in Nodes : held'[x] = held[x] + 0
      BY <2>1, <2>3
    <3> WITNESS 0 \in {0, 1}
    <3> QED
      BY <1>0, <1>1, <2>1, <2>3, <3>1
  <2> QED
    BY <2>2, <2>3
<1>3. TypeOK' /\ MapsFinite'
  <2>1. building' \in Values
    BY NodesAre
  <2> QED
    BY <1>2, <2>1 DEF TypeOK, IsString, MapsFinite
<1>4. \A x : Finishing(x)' = Finishing(x)
  BY SameParts
<1>5. ASSUME NEW x \in Nodes
      PROVE  /\ Owners(x)' \in Int /\ Owners(x)' <= Owners(x)
             /\ x \notin spent' => x \notin spent /\ Owners(x)' = Owners(x)
  <2> DEFINE p == IF o = x THEN 1 ELSE 0
             q == IF o = x /\ c = 1 THEN 1 ELSE 0
  <2>1. /\ p \in Nat /\ q \in Nat /\ q <= p
        /\ x \notin spent' => q = p /\ x \notin spent
        /\ ByBuilder(x) = p /\ ByBuilder(x)' = 0 /\ held'[x] = held[x] + q
    BY <1>0, <1>2, NodesAre DEF ByBuilder
  <2>2. /\ ByElems(x)' = ByElems(x) /\ ByKeys(x)' = ByKeys(x) /\ ByVals(x)' = ByVals(x)
        /\ ByStack(x)' = ByStack(x) /\ ByCalls(x)' = ByCalls(x)
    BY SameParts
  <2> HIDE DEF p, q
  <2>3. Owners(x)' = Owners(x) - p + q
    BY <2>1, <2>2, PartsNat, OwnersAre, OwnersNext, SMTT(30)
  <2> QED
    BY <2>1, <2>3, OwnersNat
<1>6. Covered'
  BY <1>4, <1>5, Moved
<1>7. Endings' /\ Building'
  BY <1>4 DEF Endings, Building
<1> QED
  BY <1>3, <1>6, <1>7

LEMMA ContainerEnded ==
  ASSUME IInv, ParseContainerEnd
  PROVE  IInv'
<1>1. /\ building # 0 /\ todo = <<>> /\ building' = 0
      /\ UNCHANGED <<kind, elems, members, hashed, left, todo>>
  BY DEF ParseContainerEnd, nodes
<1>2. CASE /\ count' = [count EXCEPT ![building] = 1]
           /\ stack' = Append(stack, building)
           /\ UNCHANGED <<pc, held, spent>>
  BY <1>1, <1>2, ContainerPushed
<1>3. CASE /\ stack = <<>> /\ pc' = "program" /\ Hand(building)
           /\ UNCHANGED <<count, stack, spent>>
  BY <1>1, <1>3, DocumentEnded DEF Hand
<1>4. CASE /\ stack = <<>> /\ pc' = "program" /\ spent' = spent \cup {building}
           /\ UNCHANGED <<count, held, stack>>
  BY <1>1, <1>4, DocumentEnded
<1> QED
  BY <1>2, <1>3, <1>4 DEF ParseContainerEnd

LEMMA TopStringParsed ==
  ASSUME IInv, ParseTopString
  PROVE  IInv'
<1> USE DEF IInv
<1>0. PICK f : f = Fresh
  OBVIOUS
<1>1. /\ building = 0 /\ stack = <<>> /\ todo = <<>> /\ todo' = <<>> /\ Unused # {}
      /\ Make("string", 0) /\ pc' = "program" /\ spent' = spent \cup {f}
      /\ UNCHANGED <<elems, members, hashed, held, stack, building, left>>
  BY <1>0 DEF ParseTopString, Parsing, Make
<1>2. /\ f \in Nodes /\ Owners(f) = 0
      /\ kind' \in [Nodes -> {"unused", "string", "array", "object", "disposed"}]
      /\ count' \in [Nodes -> -1 .. MaxCount]
      /\ \A i \in Nodes :
           /\ elems[i] # <<>> => kind'[i] = "array"
           /\ DOMAIN members[i] # {} => kind'[i] = "object"
           /\ \A a \in DOMAIN members[i] :
                members[i][a].key # Scalar /\ kind'[members[i][a].key] = "string"
      /\ hashed \subseteq {o \in Nodes : kind'[o] = "object"}
  BY <1>0, <1>1, Made
<1>3. TypeOK' /\ MapsFinite'
  <2>1. spent' \subseteq Nodes
    BY <1>1, <1>2 DEF TypeOK
  <2> QED
    BY <1>1, <1>2, <2>1 DEF TypeOK, IsString, MapsFinite
<1>4. \A x \in Nodes : Owners(x)' = Owners(x)
  <2> SUFFICES ASSUME NEW x \in Nodes
               PROVE  Owners(x)' = Owners(x)
    OBVIOUS
  <2>1. /\ ByElems(x)' = ByElems(x) /\ ByKeys(x)' = ByKeys(x) /\ ByVals(x)' = ByVals(x)
        /\ ByStack(x)' = ByStack(x) /\ ByBuilder(x)' = ByBuilder(x) /\ ByCalls(x)' = ByCalls(x)
        /\ held'[x] = held[x]
    BY <1>1, SameParts
  <2> QED
    BY <2>1, OwnersAre, OwnersNext
<1>5. Covered' /\ Endings'
  <2>1. \A x \in Nodes \ {f} : Owners(x)' = Owners(x) /\ (x \notin spent' => x \notin spent)
    BY <1>1, <1>4
  <2>2. Owners(f)' = 0 /\ f \in spent'
    BY <1>1, <1>2, <1>4
  <2> QED
    BY <1>0, <1>1, <2>1, <2>2, MadeCovered
<1>6. Building'
  BY <1>1 DEF Building
<1> QED
  BY <1>3, <1>5, <1>6

LEMMA ParseFailed ==
  ASSUME IInv, ParseError
  PROVE  IInv'
<1> USE DEF IInv
<1>1. /\ building = 0 /\ stack' = <<>> /\ pc' = "program"
      /\ spent' = spent \cup (ToSet(stack) \ {Scalar})
      /\ UNCHANGED <<kind, elems, members, hashed, count, held, building, left, todo>>
  BY DEF ParseError, Parsing, nodes
<1>2. stack \in Seq(Values) /\ IsFiniteSet(DOMAIN stack) /\ ToSet(stack) \subseteq Values
  <2>1. stack \in Seq(Values)
    BY DEF TypeOK
  <2>2. IsFiniteSet(DOMAIN stack) /\ DOMAIN stack = 1 .. Len(stack)
    BY <2>1, SeqFinite
  <2>3. \A i \in 1 .. Len(stack) : stack[i] \in Values
    BY <2>1, ElementOfSeq
  <2> QED
    BY <2>1, <2>2, <2>3 DEF ToSet
<1>3. TypeOK' /\ MapsFinite'
  <2>1. spent' \subseteq Nodes
    BY <1>1, <1>2, NodesAre DEF TypeOK
  <2>2. stack' \in Seq(Values) /\ pc' \in {"program", "parse"}
    BY <1>1
  <2> QED
    BY <1>1, <2>1, <2>2 DEF TypeOK, IsString, MapsFinite
<1>4. Covered'
  <2>1. ASSUME NEW x \in Nodes
        PROVE  /\ Owners(x)' \in Int /\ Owners(x)' <= Owners(x)
               /\ x \notin spent' => x \notin spent /\ Owners(x)' = Owners(x)
    <3>1. ByStack(x)' = 0
      BY <1>1, OccurrencesNone DEF ByStack
    <3>2. ByStack(x) > 0 => x \in spent'
      <4>1. ByStack(x) > 0 => \E i \in DOMAIN stack : stack[i] = x
        BY <1>2, OccurrencesSome DEF ByStack
      <4> QED
        BY <1>1, <4>1, NodesAre DEF ToSet
    <3>3. /\ ByElems(x)' = ByElems(x) /\ ByKeys(x)' = ByKeys(x) /\ ByVals(x)' = ByVals(x)
          /\ ByBuilder(x)' = ByBuilder(x) /\ ByCalls(x)' = ByCalls(x) /\ held'[x] = held[x]
      BY <1>1, SameParts
    <3>4. x \notin spent' => x \notin spent /\ ByStack(x) = 0
      BY <1>1, <3>2, PartsNat
    <3> QED
      BY <3>1, <3>3, <3>4, PartsNat, OwnersAre, OwnersNext
  <2>2. \A x : Finishing(x)' = Finishing(x)
    BY <1>1, SameParts
  <2> QED
    BY <1>1, <2>1, <2>2, Moved
<1>5. Endings'
  <2>1. \A x : Finishing(x)' = Finishing(x)
    BY <1>1, SameParts
  <2> QED
    BY <1>1, <2>1 DEF Endings
<1>6. Building'
  BY <1>1 DEF Building
<1> QED
  BY <1>3, <1>4, <1>5, <1>6

\* The call of JSON_free at the head of todo is taken.
LEMMA TodoTail ==
  ASSUME TypeOK, todo # <<>>
  PROVE  /\ Tail(todo) \in Seq({"free", "finish"} \X Values)
         /\ Head(todo) \in {"free", "finish"} \X Values
         /\ \A x : /\ Occurrences(<<"free", x>>, Tail(todo)) \in Nat
                  /\ Occurrences(<<"finish", x>>, Tail(todo)) \in Nat
                  /\ ByCalls(x) = Occurrences(<<"free", x>>, Tail(todo))
                                    + (IF Head(todo) = <<"free", x>> THEN 1 ELSE 0)
                  /\ Finishing(x) = Occurrences(<<"finish", x>>, Tail(todo))
                                      + (IF Head(todo) = <<"finish", x>> THEN 1 ELSE 0)
<1> DEFINE S == {"free", "finish"} \X Values
<1>1. todo \in Seq(S)
  BY DEF TypeOK
<1> HIDE DEF S
<1>2. Tail(todo) \in Seq(S) /\ Head(todo) \in S
  BY <1>1, HeadTailProperties
<1>3. IsFiniteSet(DOMAIN Tail(todo))
  BY <1>2, SeqFinite
<1>4. \A y : /\ Occurrences(y, Tail(todo)) \in Nat
             /\ Occurrences(y, todo) = Occurrences(y, Tail(todo)) + (IF Head(todo) = y THEN 1 ELSE 0)
  BY <1>1, <1>3, OccurrencesTail, OccurrencesNat
<1> QED
  BY <1>2, <1>4 DEF S, ByCalls, Finishing

LEMMA FreeTaken ==
  ASSUME TypeOK, MapsFinite, NEW v, todo # <<>>, Head(todo) = <<"free", v>>
  PROVE  /\ Tail(todo) \in Seq({"free", "finish"} \X Values)
         /\ ByCalls(v) > 0
         /\ \A x : Occurrences(<<"finish", x>>, Tail(todo)) = Finishing(x)
         /\ \A x : Occurrences(<<"free", x>>, Tail(todo)) = ByCalls(x) - (IF v = x THEN 1 ELSE 0)
<1>1. Tail(todo) \in Seq({"free", "finish"} \X Values)
  BY TodoTail
<1>2. ASSUME NEW x
      PROVE  /\ Occurrences(<<"finish", x>>, Tail(todo)) = Finishing(x)
             /\ Occurrences(<<"free", x>>, Tail(todo)) \in Nat
             /\ ByCalls(x) = Occurrences(<<"free", x>>, Tail(todo)) + (IF v = x THEN 1 ELSE 0)
  <2>1. /\ Head(todo) # <<"finish", x>>
        /\ Head(todo) = <<"free", x>> <=> v = x
    OBVIOUS
  <2> DEFINE p == Occurrences(<<"free", x>>, Tail(todo))
             q == Occurrences(<<"finish", x>>, Tail(todo))
             h == Head(todo)
  <2>2. /\ p \in Nat /\ q \in Nat
        /\ ByCalls(x) = p + (IF h = <<"free", x>> THEN 1 ELSE 0)
        /\ Finishing(x) = q + (IF h = <<"finish", x>> THEN 1 ELSE 0)
    BY TodoTail
  <2>3. (h = <<"free", x>> <=> v = x) /\ h # <<"finish", x>>
    BY <2>1
  <2> HIDE DEF p, q, h
  <2>4. p \in Nat /\ ByCalls(x) = p + (IF v = x THEN 1 ELSE 0) /\ q = Finishing(x)
    BY <2>2, <2>3
  <2> QED
    BY <2>4 DEF p, q
<1>3. ByCalls(v) > 0
  <2>1. /\ Occurrences(<<"free", v>>, Tail(todo)) \in Nat
        /\ ByCalls(v) = Occurrences(<<"free", v>>, Tail(todo)) + (IF v = v THEN 1 ELSE 0)
    BY <1>2
  <2> QED
    BY <2>1
<1>4. ASSUME NEW x
      PROVE  Occurrences(<<"free", x>>, Tail(todo)) = ByCalls(x) - (IF v = x THEN 1 ELSE 0)
  <2> DEFINE p == Occurrences(<<"free", x>>, Tail(todo))
  <2>1. p \in Nat /\ ByCalls(x) = p + (IF v = x THEN 1 ELSE 0)
    BY <1>2
  <2> HIDE DEF p
  <2>2. p = ByCalls(x) - (IF v = x THEN 1 ELSE 0)
    BY <2>1
  <2> QED
    BY <2>2 DEF p
<1> QED
  BY <1>1, <1>2, <1>3, <1>4

LEMMA FinishTaken ==
  ASSUME TypeOK, MapsFinite, NEW v, todo # <<>>, Head(todo) = <<"finish", v>>
  PROVE  /\ Tail(todo) \in Seq({"free", "finish"} \X Values)
         /\ Finishing(v) > 0
         /\ \A x : Occurrences(<<"free", x>>, Tail(todo)) = ByCalls(x)
         /\ \A x : Occurrences(<<"finish", x>>, Tail(todo)) = Finishing(x) - (IF v = x THEN 1 ELSE 0)
<1>1. Tail(todo) \in Seq({"free", "finish"} \X Values)
  BY TodoTail
<1>2. ASSUME NEW x
      PROVE  /\ Occurrences(<<"free", x>>, Tail(todo)) = ByCalls(x)
             /\ Occurrences(<<"finish", x>>, Tail(todo)) \in Nat
             /\ Finishing(x) = Occurrences(<<"finish", x>>, Tail(todo)) + (IF v = x THEN 1 ELSE 0)
  <2>1. /\ Head(todo) # <<"free", x>>
        /\ Head(todo) = <<"finish", x>> <=> v = x
    OBVIOUS
  <2> DEFINE p == Occurrences(<<"free", x>>, Tail(todo))
             q == Occurrences(<<"finish", x>>, Tail(todo))
             h == Head(todo)
  <2>2. /\ p \in Nat /\ q \in Nat
        /\ ByCalls(x) = p + (IF h = <<"free", x>> THEN 1 ELSE 0)
        /\ Finishing(x) = q + (IF h = <<"finish", x>> THEN 1 ELSE 0)
    BY TodoTail
  <2>3. (h = <<"finish", x>> <=> v = x) /\ h # <<"free", x>>
    BY <2>1
  <2> HIDE DEF p, q, h
  <2>4. q \in Nat /\ Finishing(x) = q + (IF v = x THEN 1 ELSE 0) /\ p = ByCalls(x)
    BY <2>2, <2>3
  <2> QED
    BY <2>4 DEF p, q
<1>3. Finishing(v) > 0
  <2>1. /\ Occurrences(<<"finish", v>>, Tail(todo)) \in Nat
        /\ Finishing(v) = Occurrences(<<"finish", v>>, Tail(todo)) + (IF v = v THEN 1 ELSE 0)
    BY <1>2
  <2> QED
    BY <2>1
<1>4. ASSUME NEW x
      PROVE  Occurrences(<<"finish", x>>, Tail(todo)) = Finishing(x) - (IF v = x THEN 1 ELSE 0)
  <2> DEFINE p == Occurrences(<<"finish", x>>, Tail(todo))
  <2>1. p \in Nat /\ Finishing(x) = p + (IF v = x THEN 1 ELSE 0)
    BY <1>2
  <2> HIDE DEF p
  <2>2. p = Finishing(x) - (IF v = x THEN 1 ELSE 0)
    BY <2>1
  <2> QED
    BY <2>2 DEF p
<1> QED
  BY <1>1, <1>2, <1>3, <1>4

\* A finite set in any order.
LEMMA SetToSeqIs ==
  ASSUME NEW D, IsFiniteSet(D)
  PROVE  /\ SetToSeq(D) \in Bijection(1 .. Cardinality(D), D)
         /\ DOMAIN SetToSeq(D) = 1 .. Cardinality(D)
         /\ Cardinality(D) \in Nat
<1> DEFINE n == Cardinality(D)
<1>1. n \in Nat /\ ExistsBijection(1 .. n, D)
  BY FS_CardinalityType
<1>2. IsFiniteSet(1 .. n) /\ Cardinality(1 .. n) = n
  BY <1>1, FS_Interval
<1> DEFINE s == SetToSeq(D)
<1>3. s \in [1 .. n -> D] /\ IsInjective(s)
  <2>1. \E f \in [1 .. n -> D] : IsInjective(f)
    BY <1>1 DEF ExistsBijection, Bijection, Injection
  <2> QED
    BY <2>1 DEF SetToSeq
<1> HIDE DEF n, s
<1>4. s \in Injection(1 .. n, D)
  BY <1>3 DEF Injection
<1>5. s \in Surjection(1 .. n, D)
  BY <1>2, <1>4, FS_Injection DEF n
<1>6. s \in Bijection(1 .. n, D) /\ DOMAIN s = 1 .. n
  BY <1>3, <1>4, <1>5 DEF Bijection
<1> QED
  BY <1>1, <1>6 DEF n, s

\* JSON_free is called for all that v holds, but for the values of a hashmap.
LEMMA ReleasedAre ==
  ASSUME TypeOK, MapsFinite, NEW v \in Nodes
  PROVE  /\ Released(v) \in Seq({"free", "finish"} \X Values)
         /\ \A x : /\ Occurrences(<<"free", x>>, Released(v))
                       = Occurrences(x, elems[v]) + Occurrences(x, KeysHeld[v])
                           + (IF v \in hashed THEN 0 ELSE Occurrences(x, ValsHeld[v]))
                  /\ Occurrences(<<"finish", x>>, Released(v)) = 0
<1> DEFINE D == DOMAIN members[v]
           names == SetToSeq(D)
           ks == [n \in DOMAIN names |-> KeysHeld[v][names[n]]]
           vs == [n \in DOMAIN names |-> ValsHeld[v][names[n]]]
<1>1. IsFiniteSet(D) /\ IsMap(members[v]) /\ elems[v] \in Seq(Values)
  BY MapsAre DEF TypeOK, MapsFinite
<1>2. /\ names \in Bijection(1 .. Cardinality(D), D) /\ DOMAIN names = 1 .. Cardinality(D)
      /\ Cardinality(D) \in Nat /\ names \in [1 .. Cardinality(D) -> D]
  BY <1>1, SetToSeqIs DEF Bijection, Injection
<1>3. /\ DOMAIN KeysHeld[v] = D /\ DOMAIN ValsHeld[v] = D
      /\ \A a \in D : KeysHeld[v][a] \in Values /\ ValsHeld[v][a] \in Values
  BY <1>1, NodesAre DEF KeysHeld, ValsHeld, IsMap
<1> DEFINE K == KeysHeld[v]
           V == ValsHeld[v]
<1> HIDE DEF names
<1>4. ks \in Seq(Values) /\ vs \in Seq(Values)
  <2> DEFINE c == Cardinality(D)
  <2>1. ks \in [1 .. c -> Values] /\ vs \in [1 .. c -> Values]
    BY <1>2, <1>3
  <2> HIDE DEF c, ks, vs
  <2> QED
    BY <1>2, <2>1, SMTT(30) DEF c
<1>5. ASSUME NEW x
      PROVE  Occurrences(x, ks) = Occurrences(x, KeysHeld[v])
             /\ Occurrences(x, vs) = Occurrences(x, ValsHeld[v])
  <2>1. /\ DOMAIN ks = 1 .. Cardinality(D) /\ \A n \in 1 .. Cardinality(D) : ks[n] = K[names[n]]
        /\ DOMAIN vs = 1 .. Cardinality(D) /\ \A n \in 1 .. Cardinality(D) : vs[n] = V[names[n]]
        /\ DOMAIN K = D /\ DOMAIN V = D
    BY <1>2, <1>3
  <2> HIDE DEF ks, vs, D, K, V
  <2>2. Occurrences(x, ks) = Occurrences(x, K)
    BY <1>1, <1>2, <2>1, OccurrencesReordered
  <2>3. Occurrences(x, vs) = Occurrences(x, V)
    BY <1>1, <1>2, <2>1, OccurrencesReordered
  <2> QED
    BY <2>2, <2>3 DEF K, V
<1> DEFINE s == IF kind[v] = "array" THEN elems[v]
                ELSE IF v \in hashed THEN ks ELSE ks \o vs
<1>6. Released(v) = Calls(s)
  BY DEF Released, names
<1> HIDE DEF ks, vs
<1>7. s \in Seq(Values)
  BY <1>1, <1>4, ConcatProperties
<1>8. ASSUME NEW x
      PROVE  Occurrences(x, s) = Occurrences(x, elems[v]) + Occurrences(x, KeysHeld[v])
                                  + (IF v \in hashed THEN 0 ELSE Occurrences(x, ValsHeld[v]))
  <2>1. /\ Occurrences(x, elems[v]) \in Nat /\ Occurrences(x, KeysHeld[v]) \in Nat
        /\ Occurrences(x, ValsHeld[v]) \in Nat
    BY HoldsFinite, OccurrencesNat
  <2>2. CASE kind[v] = "array"
    <3>1. D = {} /\ v \notin hashed
      BY <2>2 DEF TypeOK
    <3>2. Occurrences(x, KeysHeld[v]) = 0 /\ Occurrences(x, ValsHeld[v]) = 0
      BY <1>3, <3>1, OccurrencesNone
    <3> QED
      BY <2>1, <2>2, <3>2
  <2>3. CASE kind[v] # "array"
    <3>1. elems[v] = <<>>
      BY <2>3 DEF TypeOK
    <3>2. Occurrences(x, elems[v]) = 0
      BY <3>1, OccurrencesNone
    <3>3. Occurrences(x, ks \o vs) = Occurrences(x, ks) + Occurrences(x, vs)
      BY <1>4, OccurrencesConcat
    <3> QED
      BY <1>5, <2>1, <2>3, <3>2, <3>3
  <2> QED
    BY <2>2, <2>3
<1> HIDE DEF s
<1> QED
  BY <1>6, <1>7, <1>8, CallsSeq, OccurrencesCalls

LEMMA ScalarFreed ==
  ASSUME IInv, FreeScalar
  PROVE  IInv'
<1> USE DEF IInv
<1>1. /\ todo # <<>> /\ Head(todo) = <<"free", Scalar>> /\ todo' = Tail(todo)
      /\ UNCHANGED <<kind, elems, members, hashed, count, held, stack, building, left, pc, spent>>
  BY DEF FreeScalar, nodes, parse
<1>2. /\ todo' \in Seq({"free", "finish"} \X Values)
      /\ \A x : Finishing(x)' = Finishing(x)
      /\ \A x \in Nodes : ByCalls(x)' = ByCalls(x)
  <2>1. /\ Tail(todo) \in Seq({"free", "finish"} \X Values)
        /\ \A x : Occurrences(<<"finish", x>>, Tail(todo)) = Finishing(x)
        /\ \A x : Occurrences(<<"free", x>>, Tail(todo)) = ByCalls(x) - (IF Scalar = x THEN 1 ELSE 0)
    BY <1>1, FreeTaken
  <2>2. \A x \in Nodes : Scalar # x /\ ByCalls(x) - 0 = ByCalls(x)
    BY NodesAre, PartsNat
  <2> QED
    BY <1>1, <2>1, <2>2 DEF ByCalls, Finishing
<1>3. TypeOK' /\ MapsFinite' /\ Endings'
  BY <1>1, <1>2 DEF TypeOK, IsString, MapsFinite, Endings
<1>4. Covered'
  <2>1. ASSUME NEW x \in Nodes
        PROVE  Owners(x)' = Owners(x) /\ Owners(x)' \in Int
    <3>1. /\ ByElems(x)' = ByElems(x) /\ ByKeys(x)' = ByKeys(x) /\ ByVals(x)' = ByVals(x)
          /\ ByStack(x)' = ByStack(x) /\ ByBuilder(x)' = ByBuilder(x) /\ held'[x] = held[x]
          /\ ByCalls(x)' = ByCalls(x)
      BY <1>1, <1>2, SameParts
    <3> QED
      BY <3>1, OwnersNat, OwnersAre, OwnersNext
  <2> QED
    BY <1>1, <1>2, <2>1, Moved
<1>5. Building'
  BY <1>1 DEF Building, IsString
<1> QED
  BY <1>3, <1>4, <1>5

LEMMA SharedFreed ==
  ASSUME IInv, NEW v \in Nodes, FreeShared(v)
  PROVE  IInv'
<1> USE DEF IInv
<1>1. /\ todo # <<>> /\ Head(todo) = <<"free", v>> /\ todo' = Tail(todo)
      /\ ~ count[v] - 1 <= 0 /\ count' = [count EXCEPT ![v] = @ - 1]
      /\ UNCHANGED <<kind, elems, members, hashed, held, stack, building, left, pc, spent>>
  BY DEF FreeShared, Called, LastReference, nodes, parse
<1>2. /\ todo' \in Seq({"free", "finish"} \X Values)
      /\ \A x : Finishing(x)' = Finishing(x)
      /\ \A x \in Nodes : ByCalls(x)' = ByCalls(x) - (IF v = x THEN 1 ELSE 0)
  <2>1. /\ Tail(todo) \in Seq({"free", "finish"} \X Values)
        /\ \A x : Occurrences(<<"finish", x>>, Tail(todo)) = Finishing(x)
        /\ \A x : Occurrences(<<"free", x>>, Tail(todo)) = ByCalls(x) - (IF v = x THEN 1 ELSE 0)
    BY <1>1, FreeTaken
  <2> QED
    BY <1>1, <2>1 DEF ByCalls, Finishing
<1>3. count[v] \in 2 .. MaxCount
  BY <1>1, BoundsAssumption DEF TypeOK
<1>4. count' \in [Nodes -> -1 .. MaxCount]
      /\ \A x \in Nodes : count'[x] = IF v = x THEN count[x] - 1 ELSE count[x]
  BY <1>1, <1>3, BoundsAssumption, SMTT(30) DEF TypeOK
<1>5. TypeOK' /\ MapsFinite'
  BY <1>1, <1>2, <1>4 DEF TypeOK, IsString, MapsFinite
<1>6. ByCalls(v) > 0
  BY <1>1, FreeTaken
<1>7. Secure(v) /\ Owners(v) <= Top(v)
  BY <1>6, OwnedSecure
<1>8. Covered'
  <2> SUFFICES ASSUME NEW x \in Nodes
               PROVE  /\ Owners(x)' <= IF Secure(x)' THEN Top(x)' ELSE 0
                      /\ Secure(x)' /\ x \notin spent' => Owners(x)' = Top(x)'
    BY DEF Covered
  <2>1. Owners(x)' = Owners(x) - (IF v = x THEN 1 ELSE 0) /\ Owners(x) \in Nat
    <3>1. ByCalls(x)' = ByCalls(x) - (IF v = x THEN 1 ELSE 0) /\ held'[x] = held[x]
      BY <1>1, <1>2
    <3>2. /\ ByElems(x)' = ByElems(x) /\ ByKeys(x)' = ByKeys(x) /\ ByVals(x)' = ByVals(x)
          /\ ByStack(x)' = ByStack(x) /\ ByBuilder(x)' = ByBuilder(x)
      BY <1>1, SameParts
    <3> QED
      BY <3>1, <3>2, OwnersNat, PartsNat, OwnersAre, OwnersNext
  <2>2. Secure(x)' = Secure(x) /\ spent' = spent
    BY <1>1, <1>2 DEF Secure
  <2>3. CASE x = v
    <3>1. Top(x) = count[x] /\ Top(x)' = count[x] - 1 /\ count[x] \in Nat
      BY <1>3, <1>4, <2>3, BoundsAssumption DEF Top
    <3>2. Secure(x) /\ Owners(x) <= Top(x) /\ (x \notin spent => Owners(x) = Top(x))
      BY <1>7, <2>3 DEF Covered
    <3> QED
      BY <2>1, <2>2, <2>3, <3>1, <3>2
  <2>4. CASE x # v
    <3>1. Top(x)' = Top(x) /\ Owners(x)' = Owners(x)
      BY <1>4, <2>1, <2>4 DEF Top
    <3> QED
      BY <2>2, <3>1 DEF Covered
  <2> QED
    BY <2>3, <2>4
<1>9. Endings'
  <2>1. \A x \in Nodes : /\ Finishing(x) = 0 => count'[x] >= 0
                         /\ kind[x] = "unused" => count'[x] = 0
    <3> SUFFICES ASSUME NEW x \in Nodes
                 PROVE  /\ Finishing(x) = 0 => count'[x] >= 0
                        /\ kind[x] = "unused" => count'[x] = 0
      OBVIOUS
    <3>1. CASE x = v
      BY <1>3, <1>4, <1>7, <3>1, BoundsAssumption DEF Secure
    <3>2. CASE x # v
      BY <1>4, <3>2 DEF Endings
    <3> QED
      BY <3>1, <3>2
  <2> QED
    BY <1>1, <1>2, <2>1 DEF Endings
<1>10. Building'
  <2>1. \A i \in DOMAIN stack : stack[i] \in Nodes => count'[stack[i]] = 1
    BY <1>3, <1>4, BoundsAssumption DEF Building
  <2>2. building # 0 => building \in Nodes /\ building # v /\ count'[building] = 0
    <3>1. building # 0 => building \in Nodes /\ count[building] = 0
      BY NodesAre DEF Building, TypeOK
    <3>2. building # 0 => building # v
      BY <1>3, <3>1, BoundsAssumption
    <3> QED
      BY <1>4, <3>1, <3>2
  <2> QED
    BY <1>1, <2>1, <2>2 DEF Building, IsString
<1> QED
  BY <1>5, <1>8, <1>9, <1>10

\* What nobody refers to can go: no key, no place of the stack and no object that
\* is being built is it.
LEMMA NobodyRefers ==
  ASSUME TypeOK, MapsFinite, NEW v \in Nodes,
         ByKeys(v) = 0, ByStack(v) = 0, ByBuilder(v) = 0
  PROVE  /\ \A n \in Nodes : \A a \in DOMAIN members[n] : members[n][a].key # v
         /\ \A i \in DOMAIN stack : stack[i] # v
         /\ building # v
BY References1 DEF ByBuilder

\* v is disposed of and holds nothing any more.
LEMMA Disposed ==
  ASSUME TypeOK, MapsFinite, Building, NEW v \in Nodes,
         ByKeys(v) = 0, ByStack(v) = 0, ByBuilder(v) = 0,
         Dispose(v), UNCHANGED <<held, stack, building, left, pc>>,
         elems' = [elems EXCEPT ![v] = <<>>], members' = [members EXCEPT ![v] = NoMembers],
         hashed' = hashed \ {v}, todo' \in Seq({"free", "finish"} \X Values)
  PROVE  /\ TypeOK' /\ MapsFinite' /\ Building'
         /\ kind'[v] = "disposed" /\ count'[v] = MaxCount /\ spent' = spent \ {v}
         /\ \A x \in Nodes \ {v} : kind'[x] = kind[x] /\ count'[x] = count[x]
<1>1. /\ kind' = [kind EXCEPT ![v] = "disposed"] /\ count' = [count EXCEPT ![v] = MaxCount]
      /\ spent' = spent \ {v}
  BY DEF Dispose
<1>2. /\ \A n \in Nodes : \A a \in DOMAIN members[n] : members[n][a].key # v
      /\ \A i \in DOMAIN stack : stack[i] # v
      /\ building # v
  BY NobodyRefers
<1>3. /\ kind'[v] = "disposed" /\ count'[v] = MaxCount
      /\ \A x \in Nodes \ {v} : kind'[x] = kind[x] /\ count'[x] = count[x]
      /\ kind' \in [Nodes -> {"unused", "string", "array", "object", "disposed"}]
      /\ count' \in [Nodes -> -1 .. MaxCount]
  BY <1>1, BoundsAssumption DEF TypeOK
<1>4. IsMap(NoMembers) /\ DOMAIN NoMembers = {}
  BY DEF IsMap, NoMembers
<1>5. /\ elems' \in [Nodes -> Seq(Values)]
      /\ members' \in [Nodes -> UNION {[A -> [key : Nodes, val : Values]] : A \in SUBSET Names}]
  <2>1. NoMembers \in UNION {[A -> [key : Nodes, val : Values]] : A \in SUBSET Names}
    BY <1>4, MapsAre
  <2> HIDE DEF NoMembers
  <2> QED
    BY <2>1 DEF TypeOK
<1>6. \A n \in Nodes :
        /\ elems'[n] = (IF n = v THEN <<>> ELSE elems[n])
        /\ members'[n] = (IF n = v THEN NoMembers ELSE members[n])
  BY DEF TypeOK
<1>7. MapsFinite'
  BY <1>4, <1>6, FS_EmptySet DEF MapsFinite
<1>8. \A n \in Nodes :
        /\ elems'[n] # <<>> => kind'[n] = "array"
        /\ DOMAIN members'[n] # {} => kind'[n] = "object"
        /\ \A a \in DOMAIN members'[n] :
             members'[n][a].key # Scalar /\ kind'[members'[n][a].key] = "string"
  <2> SUFFICES ASSUME NEW n \in Nodes
               PROVE  /\ elems'[n] # <<>> => kind'[n] = "array"
                      /\ DOMAIN members'[n] # {} => kind'[n] = "object"
                      /\ \A a \in DOMAIN members'[n] :
                           members'[n][a].key # Scalar /\ kind'[members'[n][a].key] = "string"
    OBVIOUS
  <2>1. CASE n = v
    BY <1>4, <1>6, <2>1
  <2>2. CASE n # v
    <3>1. elems'[n] = elems[n] /\ members'[n] = members[n] /\ kind'[n] = kind[n]
      BY <1>3, <1>6, <2>2
    <3>2. \A a \in DOMAIN members[n] : members[n][a].key \in Nodes \ {v}
      BY <1>2, MapsAre DEF TypeOK, IsMap
    <3>3. /\ elems[n] # <<>> => kind[n] = "array"
          /\ DOMAIN members[n] # {} => kind[n] = "object"
          /\ \A a \in DOMAIN members[n] :
               members[n][a].key # Scalar /\ kind[members[n][a].key] = "string"
      BY DEF TypeOK, IsString
    <3>4. ASSUME NEW a \in DOMAIN members[n]
          PROVE  members[n][a].key # Scalar /\ kind'[members[n][a].key] = "string"
      BY <1>3, <3>2, <3>3
    <3> QED
      BY <3>1, <3>3, <3>4
  <2> QED
    BY <2>1, <2>2
<1>9. hashed' \subseteq {o \in Nodes : kind'[o] = "object"}
  BY <1>3 DEF TypeOK
<1>10. TypeOK'
  <2>1. spent' \subseteq Nodes
    BY <1>1 DEF TypeOK
  <2>2. /\ held' \in [Nodes -> Nat] /\ stack' \in Seq(Values) /\ building' \in Values
        /\ left' \in 0 .. MaxStack /\ pc' \in {"program", "parse"}
    BY DEF TypeOK
  <2> QED
    BY <1>3, <1>5, <1>8, <1>9, <2>1, <2>2 DEF TypeOK, IsString
<1>11. Building'
  <2>1. stack \in Seq(Values) /\ DOMAIN stack = 1 .. Len(stack) /\ Len(stack) \in Nat
        /\ \A i \in DOMAIN stack : stack[i] \in Values
    <3>1. stack \in Seq(Values)
      BY DEF TypeOK
    <3> QED
      BY <3>1, SeqFinite, ElementOfSeq
  <2>2. \A i \in DOMAIN stack : stack[i] \in Nodes => stack[i] \in Nodes \ {v}
    BY <1>2
  <2>3. \A i \in DOMAIN stack : stack[i] \in Nodes => count'[stack[i]] = 1
    BY <1>3, <2>2 DEF Building
  <2>4. ASSUME building # 0
        PROVE  /\ kind'[building] \in {"array", "object"} /\ count'[building] = 0
               /\ left > 0 => kind'[building] = "object"
               /\ 2 * left <= Len(stack)
               /\ \A f \in 1 .. left : /\ stack[Len(stack) - 2 * f + 1] # Scalar
                                      /\ kind'[stack[Len(stack) - 2 * f + 1]] = "string"
    <3>1. building \in Nodes \ {v}
      BY <1>2, <2>4, NodesAre DEF TypeOK
    <3>2. /\ kind[building] \in {"array", "object"} /\ count[building] = 0
          /\ left > 0 => kind[building] = "object"
          /\ 2 * left <= Len(stack) /\ left \in Nat
          /\ \A f \in 1 .. left : IsString(stack[Len(stack) - 2 * f + 1])
      BY <2>4, BoundsAssumption DEF Building, TypeOK
    <3>3. ASSUME NEW f \in 1 .. left
          PROVE  /\ stack[Len(stack) - 2 * f + 1] # Scalar
                 /\ kind'[stack[Len(stack) - 2 * f + 1]] = "string"
      <4> DEFINE j == Len(stack) - 2 * f + 1
      <4>1. IsString(stack[j])
        BY <3>2
      <4>2. j \in DOMAIN stack
        BY <2>1, <3>2
      <4> HIDE DEF j
      <4>3. stack[j] \in Nodes \ {v} /\ stack[j] # Scalar /\ kind[stack[j]] = "string"
        BY <2>1, <2>2, <4>1, <4>2, NodesAre DEF IsString
      <4>4. kind'[stack[j]] = "string" /\ stack[j] # Scalar
        BY <1>3, <4>3
      <4> QED
        BY <4>4 DEF j
    <3> QED
      BY <1>3, <3>1, <3>2, <3>3
  <2> QED
    BY <2>3, <2>4 DEF Building, IsString
<1> QED
  BY <1>1, <1>3, <1>7, <1>10, <1>11

\* What JSON_free does to the references when it takes a container apart.
LEMMA TakenApart ==
  ASSUME TypeOK, MapsFinite, NEW v \in Nodes, TakeApart(v), NEW x
  PROVE  /\ MapsFinite'
         /\ ByElems(x)' = ByElems(x) - Occurrences(x, elems[v])
         /\ ByKeys(x)' = ByKeys(x) - Occurrences(x, KeysHeld[v])
         /\ ByVals(x)' = ByVals(x) - Occurrences(x, ValsHeld[v])
<1> DEFINE e == <<>>
           m == NoMembers
<1>1. /\ elems' = [elems EXCEPT ![v] = e] /\ members' = [members EXCEPT ![v] = m]
      /\ e \in Seq(Values) /\ DOMAIN m = {} /\ IsFiniteSet(DOMAIN m)
  BY FS_EmptySet DEF TakeApart, NoMembers
<1>2. /\ Occurrences(x, e) = 0 /\ Occurrences(x, KeysOf(m)) = 0 /\ Occurrences(x, ValsOf(m)) = 0
  <2>1. DOMAIN e = {} /\ DOMAIN KeysOf(m) = {} /\ DOMAIN ValsOf(m) = {}
    BY DEF KeysOf, ValsOf, NoMembers
  <2> HIDE DEF e, m
  <2> QED
    BY <2>1, OccurrencesNone
<1>3. /\ Occurrences(x, elems[v]) \in Nat /\ Occurrences(x, KeysHeld[v]) \in Nat
      /\ Occurrences(x, ValsHeld[v]) \in Nat
  BY HoldsFinite, OccurrencesNat
<1> HIDE DEF e, m
<1>4. ByElems(x)' = ByElems(x) + Occurrences(x, e) - Occurrences(x, elems[v])
  BY <1>1, ElemsEffect
<1>5. /\ MapsFinite'
      /\ ByKeys(x)' = ByKeys(x) + Occurrences(x, KeysOf(m)) - Occurrences(x, KeysHeld[v])
      /\ ByVals(x)' = ByVals(x) + Occurrences(x, ValsOf(m)) - Occurrences(x, ValsHeld[v])
  BY <1>1, MembersEffect
<1> QED
  BY <1>2, <1>3, <1>4, <1>5, PartsNat

\* The call of JSON_free that is the last one for v is its only owner.
LEMMA LastOwner ==
  ASSUME IInv, NEW v \in Nodes, Called(v), LastReference(v)
  PROVE  /\ Secure(v) /\ Owners(v) = 1 /\ ByCalls(v) = 1 /\ count[v] \in {0, 1}
         /\ ByElems(v) = 0 /\ ByKeys(v) = 0 /\ ByVals(v) = 0 /\ ByStack(v) = 0
         /\ ByBuilder(v) = 0 /\ held[v] = 0
<1> USE DEF IInv
<1>1. ByCalls(v) > 0
  BY FreeTaken DEF Called
<1>2. Secure(v) /\ Owners(v) <= Top(v) /\ Owners(v) > 0
  BY <1>1, OwnedSecure
<1>3. count[v] \in Int /\ count[v] >= 0 /\ count[v] <= 1
  BY <1>2, PartsNat DEF Endings, Secure, LastReference
<1>4. Top(v) = 1 /\ count[v] \in {0, 1}
  BY <1>3 DEF Top
<1>5. /\ ByElems(v) \in Nat /\ ByKeys(v) \in Nat /\ ByVals(v) \in Nat
      /\ ByStack(v) \in Nat /\ ByBuilder(v) \in Nat /\ held[v] \in Nat /\ ByCalls(v) \in Nat
      /\ Owners(v) = ByElems(v) + ByKeys(v) + ByVals(v) + ByStack(v) + ByBuilder(v)
                       + held[v] + ByCalls(v)
  BY PartsNat, OwnersAre
<1>6. Owners(v) \in Nat /\ Owners(v) = 1
  BY <1>2, <1>4, OwnersNat
<1>7. /\ ByCalls(v) = 1 /\ ByElems(v) = 0 /\ ByKeys(v) = 0 /\ ByVals(v) = 0 /\ ByStack(v) = 0
      /\ ByBuilder(v) = 0 /\ held[v] = 0
  <2> HIDE DEF IInv
  <2> QED
    BY <1>1, <1>5, <1>6
<1> QED
  BY <1>2, <1>4, <1>6, <1>7

LEMMA LeafFreed ==
  ASSUME IInv, NEW v \in Nodes, FreeLeaf(v)
  PROVE  IInv'
<1> USE DEF IInv
<1>1. /\ Called(v) /\ LastReference(v) /\ Released(v) = <<>> /\ TakeApart(v) /\ Dispose(v)
      /\ todo # <<>> /\ Head(todo) = <<"free", v>> /\ todo' = Tail(todo)
      /\ UNCHANGED <<held, stack, building, left, pc>>
  BY DEF FreeLeaf, Called, parse
<1>2. /\ Secure(v) /\ Owners(v) = 1 /\ ByCalls(v) = 1
      /\ ByElems(v) = 0 /\ ByKeys(v) = 0 /\ ByVals(v) = 0 /\ ByStack(v) = 0
      /\ ByBuilder(v) = 0 /\ held[v] = 0
  BY <1>1, LastOwner
<1>3. /\ todo' \in Seq({"free", "finish"} \X Values)
      /\ \A x : Finishing(x)' = Finishing(x)
      /\ \A x : ByCalls(x)' = ByCalls(x) - (IF v = x THEN 1 ELSE 0)
  <2>1. /\ Tail(todo) \in Seq({"free", "finish"} \X Values)
        /\ \A x : Occurrences(<<"finish", x>>, Tail(todo)) = Finishing(x)
        /\ \A x : Occurrences(<<"free", x>>, Tail(todo)) = ByCalls(x) - (IF v = x THEN 1 ELSE 0)
    BY <1>1, FreeTaken
  <2> QED
    BY <1>1, <2>1 DEF ByCalls, Finishing
<1>4. /\ TypeOK' /\ MapsFinite' /\ Building'
      /\ kind'[v] = "disposed" /\ count'[v] = MaxCount /\ spent' = spent \ {v}
      /\ \A x \in Nodes \ {v} : kind'[x] = kind[x] /\ count'[x] = count[x]
  <2>1. /\ elems' = [elems EXCEPT ![v] = <<>>] /\ members' = [members EXCEPT ![v] = NoMembers]
        /\ hashed' = hashed \ {v}
    BY <1>1 DEF TakeApart
  <2> QED
    BY <1>1, <1>2, <1>3, <2>1, Disposed
\* Even a hashmap holds nothing: it would have released its keys.
<1>5. ASSUME NEW x
      PROVE  /\ Occurrences(x, elems[v]) = 0 /\ Occurrences(x, KeysHeld[v]) = 0
             /\ Occurrences(x, ValsHeld[v]) = 0
  <2>1. \A y : /\ Occurrences(y, elems[v]) \in Nat /\ Occurrences(y, KeysHeld[v]) \in Nat
               /\ Occurrences(y, ValsHeld[v]) \in Nat
    BY HoldsFinite, OccurrencesNat
  <2>2. \A y : Occurrences(y, elems[v]) = 0 /\ Occurrences(y, KeysHeld[v]) = 0
    <3> TAKE y
    <3>1. Occurrences(<<"free", y>>, Released(v)) = 0
      BY <1>1, OccurrencesNone
    <3>2. Occurrences(<<"free", y>>, Released(v))
            = Occurrences(y, elems[v]) + Occurrences(y, KeysHeld[v])
                + (IF v \in hashed THEN 0 ELSE Occurrences(y, ValsHeld[v]))
      BY ReleasedAre
    <3> QED
      BY <2>1, <3>1, <3>2
  <2>3. DOMAIN members[v] = {}
    <3> SUFFICES ASSUME NEW a \in DOMAIN members[v]
                 PROVE  FALSE
      OBVIOUS
    <3>1. a \in DOMAIN KeysHeld[v] /\ IsFiniteSet(DOMAIN KeysHeld[v])
      BY HoldsFinite DEF KeysHeld
    <3>2. Occurrences(KeysHeld[v][a], KeysHeld[v]) > 0
      BY <3>1, OccurrencesSome
    <3> QED
      BY <2>2, <3>2
  <2>4. DOMAIN ValsHeld[v] = {}
    BY <2>3 DEF ValsHeld
  <2> QED
    BY <2>2, <2>4, OccurrencesNone
<1>6. \A x : ByElems(x)' = ByElems(x) /\ ByKeys(x)' = ByKeys(x) /\ ByVals(x)' = ByVals(x)
  <2> TAKE x
  <2>1. /\ ByElems(x)' = ByElems(x) - Occurrences(x, elems[v])
        /\ ByKeys(x)' = ByKeys(x) - Occurrences(x, KeysHeld[v])
        /\ ByVals(x)' = ByVals(x) - Occurrences(x, ValsHeld[v])
    BY <1>1, TakenApart
  <2> QED
    BY <1>5, <2>1, PartsNat
<1>7. Covered'
  <2> SUFFICES ASSUME NEW x \in Nodes
               PROVE  /\ Owners(x)' <= IF Secure(x)' THEN Top(x)' ELSE 0
                      /\ Secure(x)' /\ x \notin spent' => Owners(x)' = Top(x)'
    BY DEF Covered
  <2>1. Owners(x)' = Owners(x) - (IF v = x THEN 1 ELSE 0) /\ Owners(x) \in Nat
    <3>1. /\ ByCalls(x)' = ByCalls(x) - (IF v = x THEN 1 ELSE 0) /\ held'[x] = held[x]
          /\ ByStack(x)' = ByStack(x) /\ ByBuilder(x)' = ByBuilder(x)
      BY <1>1, <1>3, SameParts
    <3> QED
      BY <1>6, <3>1, OwnersNat, PartsNat, OwnersAre, OwnersNext
  <2>2. CASE x = v
    BY <1>2, <1>4, <2>1, <2>2 DEF Secure
  <2>3. CASE x # v
    <3>1. /\ Owners(x)' = Owners(x) /\ Secure(x)' = Secure(x) /\ Top(x)' = Top(x)
          /\ (x \notin spent' => x \notin spent)
      BY <1>3, <1>4, <2>1, <2>3 DEF Secure, Top
    <3> QED
      BY <3>1 DEF Covered
  <2> QED
    BY <2>2, <2>3
<1>8. Endings'
  <2> SUFFICES ASSUME NEW x \in Nodes
               PROVE  /\ Finishing(x) = 1 => /\ kind'[x] \notin {"unused", "disposed"}
                                             /\ elems'[x] = <<>> /\ DOMAIN members'[x] = {}
                                             /\ x \notin hashed'
                      /\ Finishing(x) = 0 => count'[x] >= 0
                      /\ kind'[x] = "unused" => count'[x] = 0
    BY <1>3 DEF Endings
  <2>1. CASE x = v
    BY <1>2, <1>4, <2>1, BoundsAssumption DEF Secure
  <2>2. CASE x # v
    <3>1. elems'[x] = elems[x] /\ members'[x] = members[x] /\ hashed' \subseteq hashed
      BY <1>1, <2>2 DEF TakeApart, TypeOK
    <3>2. kind'[x] = kind[x] /\ count'[x] = count[x]
      BY <1>4, <2>2
    <3> QED
      BY <3>1, <3>2 DEF Endings
  <2> QED
    BY <2>1, <2>2
<1> QED
  BY <1>4, <1>7, <1>8

LEMMA ContainerFreed ==
  ASSUME IInv, NEW v \in Nodes, FreeContainer(v)
  PROVE  IInv'
<1> USE DEF IInv
<1> DEFINE S == {"free", "finish"} \X Values
           e(x) == Occurrences(x, elems[v])
           k(x) == Occurrences(x, KeysHeld[v])
           w(x) == Occurrences(x, ValsHeld[v])
<1>1. /\ Called(v) /\ LastReference(v) /\ TakeApart(v)
      /\ todo # <<>> /\ Head(todo) = <<"free", v>>
      /\ todo' = Released(v) \o <<<<"finish", v>>>> \o Tail(todo)
      /\ count' = [count EXCEPT ![v] = @ - 1]
      /\ spent' = IF v \in hashed THEN spent \cup (MemberVals(v) \ {Scalar}) ELSE spent
      /\ elems' = [elems EXCEPT ![v] = <<>>] /\ members' = [members EXCEPT ![v] = NoMembers]
      /\ hashed' = hashed \ {v}
      /\ UNCHANGED <<kind, held, stack, building, left, pc>>
  BY DEF FreeContainer, Called, TakeApart, parse
<1>2. /\ Secure(v) /\ Owners(v) = 1 /\ ByCalls(v) = 1 /\ count[v] \in {0, 1}
      /\ ByElems(v) = 0 /\ ByKeys(v) = 0 /\ ByVals(v) = 0 /\ ByStack(v) = 0
      /\ ByBuilder(v) = 0 /\ held[v] = 0
  BY <1>1, LastOwner
<1>3. \A x : e(x) \in Nat /\ k(x) \in Nat /\ w(x) \in Nat
  BY HoldsFinite, OccurrencesNat
<1>4. /\ todo' \in Seq(S)
      /\ \A x : ByCalls(x)' = ByCalls(x) - (IF v = x THEN 1 ELSE 0)
                                + e(x) + k(x) + (IF v \in hashed THEN 0 ELSE w(x))
      /\ \A x : Finishing(x)' = Finishing(x) + (IF v = x THEN 1 ELSE 0)
  <2> DEFINE r == Released(v)
             f == <<<<"finish", v>>>>
             t == Tail(todo)
  <2>1. /\ r \in Seq(S)
        /\ \A x : /\ Occurrences(<<"free", x>>, r) = e(x) + k(x) + (IF v \in hashed THEN 0 ELSE w(x))
                  /\ Occurrences(<<"finish", x>>, r) = 0
    BY ReleasedAre
  <2>2. /\ t \in Seq(S)
        /\ \A x : Occurrences(<<"finish", x>>, t) = Finishing(x)
        /\ \A x : Occurrences(<<"free", x>>, t) = ByCalls(x) - (IF v = x THEN 1 ELSE 0)
    BY <1>1, FreeTaken
  <2>3. f \in Seq(S) /\ (r \o f) \in Seq(S) /\ todo' = (r \o f) \o t
    <3>1. f \in Seq(S)
      BY NodesAre
    <3> HIDE DEF r, f, t, S
    <3>2. (r \o f) \in Seq(S)
      BY <2>1, <3>1, ConcatProperties
    <3> QED
      BY <1>1, <3>1, <3>2 DEF r, f, t
  <2>4. \A x : Occurrences(<<"free", x>>, f) = 0
               /\ Occurrences(<<"finish", x>>, f) = IF v = x THEN 1 ELSE 0
    <3> TAKE x
    <3>1. /\ Occurrences(<<"free", x>>, f) = IF <<"finish", v>> = <<"free", x>> THEN 1 ELSE 0
          /\ Occurrences(<<"finish", x>>, f) = IF <<"finish", v>> = <<"finish", x>> THEN 1 ELSE 0
      BY OccurrencesSingle
    <3>2. <<"finish", v>> # <<"free", x>> /\ (<<"finish", v>> = <<"finish", x>> <=> v = x)
      OBVIOUS
    <3> QED
      BY <3>1, <3>2
  <2> HIDE DEF r, f, t, S, e, k, w
  <2>5. todo' \in Seq(S)
    BY <2>2, <2>3, ConcatProperties
  <2>6. \A y : Occurrences(y, todo') = Occurrences(y, r) + Occurrences(y, f) + Occurrences(y, t)
    <3> TAKE y
    <3>1. Occurrences(y, (r \o f) \o t) = Occurrences(y, r \o f) + Occurrences(y, t)
      BY <2>2, <2>3, OccurrencesConcat
    <3>2. Occurrences(y, r \o f) = Occurrences(y, r) + Occurrences(y, f)
      BY <2>1, <2>3, OccurrencesConcat
    <3> QED
      BY <2>3, <3>1, <3>2
  <2>7. ASSUME NEW x
        PROVE  ByCalls(x)' = ByCalls(x) - (IF v = x THEN 1 ELSE 0)
                               + e(x) + k(x) + (IF v \in hashed THEN 0 ELSE w(x))
    <3> DEFINE p == IF v = x THEN 1 ELSE 0
               q == IF v \in hashed THEN 0 ELSE w(x)
               a == Occurrences(<<"free", x>>, r)
               b == Occurrences(<<"free", x>>, f)
               c == Occurrences(<<"free", x>>, t)
    <3>1. a = e(x) + k(x) + q /\ b = 0 /\ c = ByCalls(x) - p
      BY <2>1, <2>2, <2>4
    <3>4. e(x) \in Int /\ k(x) \in Int /\ w(x) \in Int
      BY <1>3 DEF e, k, w
    <3>5. p \in Int /\ q \in Int /\ ByCalls(x) \in Int
      BY <3>4, PartsNat
    <3>2. ByCalls(x)' = a + b + c
      BY <2>6 DEF ByCalls
    <3> HIDE DEF p, q, a, b, c
    <3>3. ByCalls(x)' = ByCalls(x) - p + e(x) + k(x) + q
      BY <3>1, <3>2, <3>4, <3>5
    <3> QED
      BY <3>3 DEF p, q
  <2>8. ASSUME NEW x
        PROVE  Finishing(x)' = Finishing(x) + (IF v = x THEN 1 ELSE 0)
    <3> DEFINE p == IF v = x THEN 1 ELSE 0
               a == Occurrences(<<"finish", x>>, r)
               b == Occurrences(<<"finish", x>>, f)
               c == Occurrences(<<"finish", x>>, t)
    <3>1. a = 0 /\ b = p /\ c = Finishing(x) /\ p \in Int /\ Finishing(x) \in Int
      BY <2>1, <2>2, <2>4, PartsNat, SMTT(30)
    <3>2. Finishing(x)' = a + b + c
      BY <2>6 DEF Finishing
    <3> HIDE DEF p, a, b, c
    <3>3. Finishing(x)' = Finishing(x) + p
      BY <3>1, <3>2
    <3> QED
      BY <3>3 DEF p
  <2> QED
    BY <2>5, <2>7, <2>8 DEF e, k, w
<1>5. ASSUME NEW x
      PROVE  /\ MapsFinite'
             /\ ByElems(x)' = ByElems(x) - e(x)
             /\ ByKeys(x)' = ByKeys(x) - k(x)
             /\ ByVals(x)' = ByVals(x) - w(x)
  BY <1>1, TakenApart
<1>10. e(v) = 0 /\ k(v) = 0 /\ w(v) = 0
  <2>1. /\ DOMAIN KeysHeld[v] = DOMAIN members[v] /\ DOMAIN ValsHeld[v] = DOMAIN members[v]
        /\ \A a \in DOMAIN members[v] : /\ KeysHeld[v][a] = members[v][a].key
                                       /\ ValsHeld[v][a] = members[v][a].val
    BY DEF KeysHeld, ValsHeld
  <2>2. /\ \A i \in DOMAIN elems[v] : elems[v][i] # v
        /\ \A a \in DOMAIN members[v] : members[v][a].key # v /\ members[v][a].val # v
    BY <1>2, References1
  <2>3. /\ IsFiniteSet(DOMAIN elems[v]) /\ IsFiniteSet(DOMAIN KeysHeld[v])
        /\ IsFiniteSet(DOMAIN ValsHeld[v])
    BY HoldsFinite
  <2>4. Occurrences(v, elems[v]) = 0
    BY <2>2, <2>3, OccurrencesNat
  <2> DEFINE f == KeysHeld[v]
             g == ValsHeld[v]
  <2>5. (\A a \in DOMAIN f : f[a] # v) /\ (\A a \in DOMAIN g : g[a] # v)
    BY <2>1, <2>2
  <2>7. IsFiniteSet(DOMAIN f) /\ IsFiniteSet(DOMAIN g)
    BY <2>3
  <2> HIDE DEF f, g
  <2>8. Occurrences(v, f) = 0 /\ Occurrences(v, g) = 0
    BY <2>5, <2>7, OccurrencesNat
  <2> QED
    BY <2>4, <2>8 DEF e, k, w, f, g
<1> HIDE DEF e, k, w, S
<1>6. /\ count' \in [Nodes -> -1 .. MaxCount] /\ count'[v] = count[v] - 1
      /\ \A x \in Nodes \ {v} : count'[x] = count[x]
  <2>1. count \in [Nodes -> -1 .. MaxCount] /\ count[v] - 1 \in -1 .. MaxCount
    BY <1>2, BoundsAssumption DEF TypeOK
  <2> QED
    BY <1>1, <2>1
<1>7. spent' \subseteq Nodes
  <2>1. MemberVals(v) \ {Scalar} \subseteq Nodes
    BY MapsAre, NodesAre DEF MemberVals, TypeOK, IsMap
  <2> QED
    BY <1>1, <2>1 DEF TypeOK
<1>8. /\ elems' \in [Nodes -> Seq(Values)]
      /\ members' \in [Nodes -> UNION {[A -> [key : Nodes, val : Values]] : A \in SUBSET Names}]
      /\ \A n \in Nodes :
           /\ elems'[n] = (IF n = v THEN <<>> ELSE elems[n])
           /\ members'[n] = (IF n = v THEN NoMembers ELSE members[n])
      /\ DOMAIN NoMembers = {}
  <2>1. DOMAIN NoMembers = {} /\ IsMap(NoMembers)
    BY DEF NoMembers, IsMap
  <2>2. NoMembers \in UNION {[A -> [key : Nodes, val : Values]] : A \in SUBSET Names}
    BY <2>1, MapsAre
  <2> HIDE DEF NoMembers
  <2>3. elems' \in [Nodes -> Seq(Values)]
        /\ \A n \in Nodes : elems'[n] = (IF n = v THEN <<>> ELSE elems[n])
    BY <1>1 DEF TypeOK
  <2>4. members' \in [Nodes -> UNION {[A -> [key : Nodes, val : Values]] : A \in SUBSET Names}]
        /\ \A n \in Nodes : members'[n] = (IF n = v THEN NoMembers ELSE members[n])
    BY <1>1, <2>2 DEF TypeOK
  <2> QED
    BY <2>1, <2>3, <2>4
<1>9. TypeOK'
  <2>1. \A n \in Nodes :
          /\ elems'[n] # <<>> => kind'[n] = "array"
          /\ DOMAIN members'[n] # {} => kind'[n] = "object"
          /\ \A a \in DOMAIN members'[n] :
               members'[n][a].key # Scalar /\ kind'[members'[n][a].key] = "string"
    <3>1. \A n \in Nodes :
            /\ elems[n] # <<>> => kind[n] = "array"
            /\ DOMAIN members[n] # {} => kind[n] = "object"
            /\ \A a \in DOMAIN members[n] :
                 members[n][a].key # Scalar /\ kind[members[n][a].key] = "string"
      BY DEF TypeOK, IsString
    <3> QED
      BY <1>1, <1>8, <3>1
  <2>2. hashed' \subseteq {o \in Nodes : kind'[o] = "object"}
    BY <1>1 DEF TypeOK
  <2>3. /\ kind' \in [Nodes -> {"unused", "string", "array", "object", "disposed"}]
        /\ held' \in [Nodes -> Nat] /\ stack' \in Seq(Values) /\ building' \in Values
        /\ left' \in 0 .. MaxStack /\ pc' \in {"program", "parse"}
    BY <1>1 DEF TypeOK
  <2> QED
    BY <1>4, <1>6, <1>7, <1>8, <2>1, <2>2, <2>3 DEF TypeOK, IsString, S
<1>11. Covered'
  <2> SUFFICES ASSUME NEW x \in Nodes
               PROVE  /\ Owners(x)' <= IF Secure(x)' THEN Top(x)' ELSE 0
                      /\ Secure(x)' /\ x \notin spent' => Owners(x)' = Top(x)'
    BY DEF Covered
  <2> DEFINE lost == IF v \in hashed THEN w(x) ELSE 0
  <2>1. /\ Owners(x)' = Owners(x) - (IF v = x THEN 1 ELSE 0) - lost
        /\ Owners(x) \in Nat /\ lost \in Nat
    <3> DEFINE p == IF v = x THEN 1 ELSE 0
               q == IF v \in hashed THEN 0 ELSE w(x)
    <3>1. /\ ByCalls(x)' = ByCalls(x) - p + e(x) + k(x) + q /\ held'[x] = held[x]
          /\ ByStack(x)' = ByStack(x) /\ ByBuilder(x)' = ByBuilder(x)
          /\ p \in Int /\ q \in Int /\ e(x) \in Int /\ k(x) \in Int /\ w(x) \in Int
          /\ lost + q = w(x) /\ lost \in Nat
      BY <1>1, <1>3, <1>4, SameParts
    <3> HIDE DEF p, q, lost
    <3>2. Owners(x)' = Owners(x) - p - lost
      BY <1>5, <3>1, PartsNat, OwnersAre, OwnersNext
    <3> QED
      BY <3>1, <3>2, OwnersNat DEF p
  <2>2. CASE x = v
    <3>1. Finishing(x) = 0 /\ Finishing(x)' = Finishing(x) + 1
      BY <1>2, <1>4, <2>2 DEF Secure
    <3>2. ~ Secure(x)'
      BY <3>1 DEF Secure
    <3>3. Owners(x)' <= 0
      BY <1>2, <2>1, <2>2
    <3> QED
      BY <3>2, <3>3
  <2>3. CASE x # v
    <3>1. /\ Secure(x)' = Secure(x) /\ Top(x)' = Top(x)
      <4>1. Finishing(x)' = Finishing(x) + 0 /\ Finishing(x) \in Nat
        BY <1>4, <2>3, PartsNat
      <4> QED
        BY <1>1, <1>6, <2>3, <4>1 DEF Secure, Top
    <3>2. x \notin spent' => x \notin spent /\ lost = 0
      <4>1. v \in hashed /\ w(x) > 0 => x \in spent'
        <5> SUFFICES ASSUME v \in hashed, w(x) > 0
                     PROVE  x \in MemberVals(v) \ {Scalar}
          BY <1>1
        <5>1. IsFiniteSet(DOMAIN ValsHeld[v])
          BY HoldsFinite
        <5>2. \E a \in DOMAIN ValsHeld[v] : ValsHeld[v][a] = x
          BY <5>1, OccurrencesSome DEF w
        <5> QED
          BY <5>2, NodesAre DEF ValsHeld, MemberVals
      <4> QED
        BY <1>1, <1>3, <4>1
    <3>3. Owners(x)' = Owners(x) - lost
      BY <2>1, <2>3
    <3>4. Top(x) \in Int
      BY PartsNat DEF Top
    <3>5. /\ Owners(x) <= IF Secure(x) THEN Top(x) ELSE 0
          /\ Secure(x) /\ x \notin spent => Owners(x) = Top(x)
      BY DEF Covered
    <3> HIDE DEF lost
    <3> QED
      BY <2>1, <3>1, <3>2, <3>3, <3>4, <3>5
  <2> QED
    BY <2>2, <2>3
<1>12. Endings'
  <2>1. \A x \in Values : Finishing(x)' <= 1
    <3> SUFFICES ASSUME NEW x \in Values
                 PROVE  Finishing(x)' <= 1
      OBVIOUS
    <3>1. CASE x = v
      BY <1>2, <1>4, <3>1 DEF Secure
    <3>2. CASE x # v
      <4>1. Finishing(x)' = Finishing(x) + 0 /\ Finishing(x) \in Nat
        BY <1>4, <3>2, PartsNat
      <4> QED
        BY <4>1 DEF Endings
    <3> QED
      BY <3>1, <3>2
  <2>2. Finishing(Scalar)' = 0
    <3>1. Finishing(Scalar)' = Finishing(Scalar) + (IF v = Scalar THEN 1 ELSE 0)
      BY <1>4
    <3> QED
      BY <3>1, NodesAre DEF Endings
  <2>3. ASSUME NEW x \in Nodes
        PROVE  /\ Finishing(x)' = 1 => /\ kind'[x] \notin {"unused", "disposed"}
                                       /\ elems'[x] = <<>> /\ DOMAIN members'[x] = {}
                                       /\ x \notin hashed'
               /\ Finishing(x)' = 0 => count'[x] >= 0
               /\ kind'[x] = "unused" => count'[x] = 0
    <3>1. CASE x = v
      <4>1. Finishing(x)' = 1
        BY <1>2, <1>4, <3>1 DEF Secure
      <4> QED
        BY <1>1, <1>2, <1>8, <3>1, <4>1 DEF Secure
    <3>2. CASE x # v
      <4>1. Finishing(x)' = Finishing(x) + 0 /\ Finishing(x) \in Nat
        BY <1>4, <3>2, PartsNat
      <4>2. /\ kind'[x] = kind[x] /\ elems'[x] = elems[x] /\ members'[x] = members[x]
            /\ count'[x] = count[x] /\ hashed' \subseteq hashed
        BY <1>1, <1>6, <1>8, <3>2
      <4> QED
        BY <4>1, <4>2 DEF Endings
    <3> QED
      BY <3>1, <3>2
  <2> QED
    BY <2>1, <2>2, <2>3 DEF Endings
<1>13. Building'
  <2>1. /\ \A i \in DOMAIN stack : stack[i] # v
        /\ building # v
    BY <1>2, NobodyRefers
  <2>2. \A i \in DOMAIN stack : stack[i] \in Nodes => count'[stack[i]] = 1
    BY <1>6, <2>1 DEF Building
  <2>3. building # 0 => count'[building] = 0
    <3>1. building # 0 => building \in Nodes \ {v} /\ count[building] = 0
      BY <2>1, NodesAre DEF Building, TypeOK
    <3> QED
      BY <1>6, <3>1
  <2> QED
    BY <1>1, <2>2, <2>3 DEF Building, IsString
<1>14. MapsFinite'
  BY <1>5
<1> QED
  BY <1>9, <1>11, <1>12, <1>13, <1>14

LEMMA Returned ==
  ASSUME IInv, NEW v \in Nodes, FreeReturn(v)
  PROVE  IInv'
<1> USE DEF IInv
<1>1. /\ todo # <<>> /\ Head(todo) = <<"finish", v>> /\ todo' = Tail(todo) /\ Dispose(v)
      /\ UNCHANGED <<elems, members, hashed, held, stack, building, left, pc>>
  BY DEF FreeReturn, parse
<1>2. /\ todo' \in Seq({"free", "finish"} \X Values)
      /\ Finishing(v) > 0
      /\ \A x : ByCalls(x)' = ByCalls(x)
      /\ \A x : Finishing(x)' = Finishing(x) - (IF v = x THEN 1 ELSE 0)
  <2>1. /\ Tail(todo) \in Seq({"free", "finish"} \X Values)
        /\ Finishing(v) > 0
        /\ \A x : Occurrences(<<"free", x>>, Tail(todo)) = ByCalls(x)
        /\ \A x : Occurrences(<<"finish", x>>, Tail(todo)) = Finishing(x) - (IF v = x THEN 1 ELSE 0)
    BY <1>1, FinishTaken
  <2> QED
    BY <1>1, <2>1 DEF ByCalls, Finishing
<1>3. /\ Finishing(v) = 1 /\ Finishing(v)' = 0 /\ ~ Secure(v)
      /\ elems[v] = <<>> /\ DOMAIN members[v] = {} /\ v \notin hashed
  <2>1. Finishing(v) = 1
    <3>1. v \in Values /\ Finishing(v) \in Nat
      BY NodesAre, PartsNat
    <3>2. Finishing(v) <= 1
      BY <3>1 DEF Endings
    <3> QED
      BY <1>2, <3>1, <3>2
  <2>2. Finishing(v)' = Finishing(v) - (IF v = v THEN 1 ELSE 0)
    BY <1>2
  <2> QED
    BY <2>1, <2>2 DEF Endings, Secure
<1>4. /\ Owners(v) = 0 /\ ByKeys(v) = 0 /\ ByStack(v) = 0 /\ ByBuilder(v) = 0
  <2>1. Owners(v) <= 0 /\ Owners(v) \in Nat
    BY <1>3, OwnersNat DEF Covered
  <2>2. /\ ByElems(v) \in Nat /\ ByKeys(v) \in Nat /\ ByVals(v) \in Nat
        /\ ByStack(v) \in Nat /\ ByBuilder(v) \in Nat /\ held[v] \in Nat /\ ByCalls(v) \in Nat
        /\ Owners(v) = ByElems(v) + ByKeys(v) + ByVals(v) + ByStack(v) + ByBuilder(v)
                         + held[v] + ByCalls(v)
    BY PartsNat, OwnersAre
  <2> HIDE DEF IInv
  <2>3. Owners(v) = 0
    BY <2>1
  <2>5. ~ ByKeys(v) > 0 /\ ~ ByStack(v) > 0 /\ ~ ByBuilder(v) > 0
    BY <1>3, OwnedSecure DEF IInv
  <2>4. ByKeys(v) = 0 /\ ByStack(v) = 0 /\ ByBuilder(v) = 0
    BY <2>2, <2>5
  <2> QED
    BY <2>3, <2>4
<1>5. /\ TypeOK' /\ MapsFinite' /\ Building'
      /\ kind'[v] = "disposed" /\ count'[v] = MaxCount /\ spent' = spent \ {v}
      /\ \A x \in Nodes \ {v} : kind'[x] = kind[x] /\ count'[x] = count[x]
  <2>1. elems' = [elems EXCEPT ![v] = <<>>] /\ hashed' = hashed \ {v}
    BY <1>1, <1>3 DEF TypeOK
  <2>2. members' = [members EXCEPT ![v] = NoMembers]
    <3>1. IsMap(members[v])
      BY MapsAre DEF TypeOK
    <3>2. members[v] = NoMembers
      BY <1>3, <3>1 DEF IsMap, NoMembers
    <3> QED
      BY <1>1, <3>2 DEF TypeOK
  <2> QED
    BY <1>1, <1>2, <1>4, <2>1, <2>2, Disposed
<1>6. Covered'
  <2> SUFFICES ASSUME NEW x \in Nodes
               PROVE  /\ Owners(x)' <= IF Secure(x)' THEN Top(x)' ELSE 0
                      /\ Secure(x)' /\ x \notin spent' => Owners(x)' = Top(x)'
    BY DEF Covered
  <2>1. Owners(x)' = Owners(x)
    <3>1. /\ ByElems(x)' = ByElems(x) /\ ByKeys(x)' = ByKeys(x) /\ ByVals(x)' = ByVals(x)
          /\ ByStack(x)' = ByStack(x) /\ ByBuilder(x)' = ByBuilder(x) /\ ByCalls(x)' = ByCalls(x)
          /\ held'[x] = held[x]
      BY <1>1, <1>2, SameParts
    <3> QED
      BY <3>1, OwnersAre, OwnersNext
  <2>2. CASE x = v
    BY <1>4, <1>5, <2>1, <2>2 DEF Secure
  <2>3. CASE x # v
    <3>1. Finishing(x)' = Finishing(x) - 0 /\ Finishing(x) \in Nat
      BY <1>2, <2>3, PartsNat
    <3>2. /\ Secure(x)' = Secure(x) /\ Top(x)' = Top(x)
          /\ (x \notin spent' => x \notin spent)
      BY <1>5, <2>3, <3>1 DEF Secure, Top
    <3> QED
      BY <2>1, <3>2 DEF Covered
  <2> QED
    BY <2>2, <2>3
<1>7. Endings'
  <2>1. \A x : v # x => Finishing(x)' = Finishing(x)
    <3> SUFFICES ASSUME NEW x, v # x
                 PROVE  Finishing(x)' = Finishing(x)
      OBVIOUS
    <3>1. Finishing(x)' = Finishing(x) - 0 /\ Finishing(x) \in Nat
      BY <1>2, PartsNat
    <3> QED
      BY <3>1
  <2>2. /\ \A x \in Values : Finishing(x)' <= 1
        /\ Finishing(Scalar)' = 0
    BY <1>3, <2>1, NodesAre DEF Endings
  <2>3. ASSUME NEW x \in Nodes
        PROVE  /\ Finishing(x)' = 1 => /\ kind'[x] \notin {"unused", "disposed"}
                                       /\ elems'[x] = <<>> /\ DOMAIN members'[x] = {}
                                       /\ x \notin hashed'
               /\ Finishing(x)' = 0 => count'[x] >= 0
               /\ kind'[x] = "unused" => count'[x] = 0
    <3>1. CASE x = v
      BY <1>3, <1>5, <3>1, BoundsAssumption
    <3>2. CASE x # v
      <4>1. Finishing(x)' = Finishing(x) /\ kind'[x] = kind[x] /\ count'[x] = count[x]
        BY <1>5, <2>1, <3>2
      <4> QED
        BY <1>1, <4>1 DEF Endings
    <3> QED
      BY <3>1, <3>2
  <2> QED
    BY <2>2, <2>3 DEF Endings
<1> QED
  BY <1>5, <1>6, <1>7

LEMMA InitHolds ==
  ASSUME Init
  PROVE  IInv
<1>1. /\ kind = [n \in Nodes |-> "unused"] /\ elems = [n \in Nodes |-> <<>>]
      /\ members = [n \in Nodes |-> NoMembers] /\ hashed = {}
      /\ count = [n \in Nodes |-> 0] /\ held = [n \in Nodes |-> 0]
      /\ stack = <<>> /\ building = 0 /\ left = 0 /\ pc = "program" /\ todo = <<>> /\ spent = {}
  BY DEF Init
<1>2. IsMap(NoMembers) /\ DOMAIN NoMembers = {}
  BY DEF IsMap, NoMembers
<1>3. TypeOK
  <2>1. members \in [Nodes -> UNION {[A -> [key : Nodes, val : Values]] : A \in SUBSET Names}]
    <3>1. NoMembers \in UNION {[A -> [key : Nodes, val : Values]] : A \in SUBSET Names}
      BY <1>2, MapsAre
    <3> HIDE DEF NoMembers
    <3> QED
      BY <1>1, <3>1
  <2>2. \A n \in Nodes : elems[n] = <<>> /\ DOMAIN members[n] = {}
    BY <1>1, <1>2
  <2>3. 0 \in -1 .. MaxCount /\ 0 \in 0 .. MaxStack /\ 0 \in Values
    BY BoundsAssumption, NodesAre
  <2> QED
    BY <1>1, <2>1, <2>2, <2>3 DEF TypeOK
<1>4. MapsFinite
  BY <1>1, <1>2, FS_EmptySet DEF MapsFinite
<1>5. \A x : Finishing(x) = 0
  BY <1>1, NoCalls
<1>6. Covered
  <2> SUFFICES ASSUME NEW x \in Nodes
               PROVE  Owners(x) = 0 /\ ~ Secure(x)
    BY DEF Covered
  <2>1. ByElems(x) = 0 /\ ByKeys(x) = 0 /\ ByVals(x) = 0
    <3>1. Places(x, elems) = {} /\ Places(x, KeysHeld) = {} /\ Places(x, ValsHeld) = {}
      BY <1>1, <1>2 DEF Places, KeysHeld, ValsHeld
    <3> QED
      BY <1>3, <1>4, <3>1, HoldsFinite, PlacesFinite DEF ByElems, ByKeys, ByVals
  <2>2. ByStack(x) = 0 /\ ByBuilder(x) = 0 /\ ByCalls(x) = 0 /\ held[x] = 0
    BY <1>1, OccurrencesNone, NoCalls, NodesAre DEF ByStack, ByBuilder
  <2> QED
    BY <1>1, <2>1, <2>2, OwnersAre DEF Secure
<1>7. Endings
  BY <1>1, <1>5 DEF Endings
<1>8. Building
  BY <1>1 DEF Building
<1> QED
  BY <1>3, <1>4, <1>6, <1>7, <1>8 DEF IInv

LEMMA Unchanged ==
  ASSUME IInv, UNCHANGED vars
  PROVE  IInv'
<1> USE DEF IInv
<1>1. UNCHANGED <<kind, elems, members, hashed, count, held, stack, building, left, pc, todo, spent>>
  BY DEF vars, nodes, parse
<1>2. \A x : Finishing(x)' = Finishing(x)
  BY <1>1, SameParts
<1>3. TypeOK' /\ MapsFinite' /\ Building' /\ Endings'
  BY <1>1, <1>2 DEF TypeOK, IsString, MapsFinite, Building, Endings
<1>4. Covered'
  <2>1. ASSUME NEW x \in Nodes
        PROVE  Owners(x)' = Owners(x) /\ Owners(x)' \in Int
    <3>1. /\ ByElems(x)' = ByElems(x) /\ ByKeys(x)' = ByKeys(x) /\ ByVals(x)' = ByVals(x)
          /\ ByStack(x)' = ByStack(x) /\ ByBuilder(x)' = ByBuilder(x) /\ held'[x] = held[x]
          /\ ByCalls(x)' = ByCalls(x)
      BY <1>1, SameParts
    <3> QED
      BY <3>1, OwnersNat, OwnersAre, OwnersNext
  <2> QED
    BY <1>1, <1>2, <2>1, Moved
<1> QED
  BY <1>3, <1>4

LEMMA StepsKeep ==
  ASSUME IInv, [Next]_vars
  PROVE  IInv'
<1>1. CASE Program
  <2>1. CASE NewString \/ NewArray \/ \E size \in {0, DictThreshold + 1} : NewObject(size)
    BY <2>1, New
  <2>2. CASE \E v \in Nodes : Retain(v) \/ Free(v)
    BY <2>2, Retained, Freed
  <2>3. CASE \E a, v \in Nodes : ArrayAppend(a, v)
    BY <2>3, Appended
  <2>4. CASE \E a, v \in Nodes : \E i \in DOMAIN elems[a] : ArraySet(a, i, v)
    BY <2>4, ElementSet
  <2>5. CASE \E o \in Nodes, v \in Nodes \cup {Scalar}, a \in Names : SetMember(o, a, v)
    BY <2>5, MemberSet DEF Values
  <2>6. CASE \E o \in Nodes, a \in Names : RemoveMember(o, a)
    BY <2>6, MemberRemoved
  <2> QED
    BY <1>1, <2>1, <2>2, <2>3, <2>4, <2>5, <2>6 DEF Program
<1>2. CASE Parser
  <2>1. CASE ParseBegin
    BY <2>1, ParseBegun
  <2>2. CASE ParseString \/ ParseScalar
    BY <2>2, StringParsed, ScalarParsed
  <2>3. CASE \E n \in 0 .. MaxStack : ParseArray(n) \/ ParseObject(n)
    <3>1. PICK n \in 0 .. MaxStack : ParseArray(n) \/ ParseObject(n)
      BY <2>3
    <3>2. n \in Nat
      BY BoundsAssumption
    <3> QED
      BY <3>1, <3>2, ArrayParsed, ObjectParsed
  <2>4. CASE \E a \in Names : ParseMember(a)
    BY <2>4, MemberParsed
  <2>5. CASE ParseContainerEnd \/ ParseTopString \/ ParseError
    BY <2>5, ContainerEnded, TopStringParsed, ParseFailed
  <2> QED
    BY <1>2, <2>1, <2>2, <2>3, <2>4, <2>5 DEF Parser
<1>3. CASE Freeing
  <2>1. CASE FreeScalar
    BY <2>1, ScalarFreed
  <2>2. CASE \E v \in Nodes : FreeShared(v) \/ FreeLeaf(v) \/ FreeContainer(v) \/ FreeReturn(v)
    BY <2>2, SharedFreed, LeafFreed, ContainerFreed, Returned
  <2> QED
    BY <1>3, <2>1, <2>2 DEF Freeing
<1>4. CASE Done \/ UNCHANGED vars
  BY <1>4, Unchanged DEF Done
<1> QED
  BY <1>1, <1>2, <1>3, <1>4 DEF Next

\* The ledger of references, in every execution: IInv holds initially and no call
\* of the program, of the parser or of JSON_free breaks it.
THEOREM Invariance == Spec => []IInv
BY InitHolds, StepsKeep, PTL DEF Spec

\* Every variable keeps its type; in particular a count of JSONRC never leaves the
\* range from -1, of a value that is being taken apart, to INT_MAX.
THEOREM Typing == Spec => []TypeOK
<1>1. IInv => TypeOK
  BY DEF IInv
<1> QED
  BY <1>1, Invariance, PTL

\* No container, place of the parser's stack, reference of the program or pending
\* JSON_free refers to a value that JSON_free has disposed of.
THEOREM NeverDangling == Spec => []NoDangling
<1>1. IInv => NoDangling
  BY InvariantImplies
<1> QED
  BY <1>1, Invariance, PTL

\* No value has more owners than its reference count stands for.
THEOREM CountsAlwaysCover == Spec => []CountsCover
<1>1. IInv => CountsCover
  BY InvariantImplies
<1> QED
  BY <1>1, Invariance, PTL

\* The count of a value is exact unless one of the steps that drop a reference
\* without JSON_Release has dropped one to it.
THEOREM LeaksAreSpent == Spec => []OnlySpentLeaks
<1>1. IInv => OnlySpentLeaks
  BY InvariantImplies
<1> QED
  BY <1>1, Invariance, PTL
=============================================================================
