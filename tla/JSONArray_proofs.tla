-------------------------- MODULE JSONArray_proofs --------------------------
(***************************************************************************)
(* Proofs about JSONArray, for every set of elements and every bound.      *)
(***************************************************************************)
EXTENDS JSONArray, SequenceTheorems, TLAPS

\* TypeOK and ArmMatchesSize are inductive together only: the cells of a list
\* are elements because its pointer is one, and the pointer is because every
\* write to the first word is one of a pointer or of an element.
IInv == TypeOK /\ ArmMatchesSize /\ ListsOwned

\* f can be the cells of a list, allocated or not.
IsList(f) == \E n \in 0 .. MaxCapacity : f \in [0 .. n - 1 -> Cells]

LEMMA ListsDistinct ==
  /\ \A l \in Lists : l \notin Cells
  /\ "new" \in Lists /\ "parse" \in Lists /\ "append" \in Lists
  /\ Garbage \in Cells
BY ElementsAssumption DEF Lists, Cells

LEMMA ListOf ==
  ASSUME NEW n \in 0 .. MaxCapacity, NEW f \in [0 .. n - 1 -> Cells]
  PROVE  IsList(f)
BY DEF IsList

LEMMA NoCellsIsList == IsList(NoCells)
<1>1. NoCells \in [0 .. 0 - 1 -> Cells]
  BY DEF NoCells
<1>2. 0 \in 0 .. MaxCapacity
  BY ArrayAssumption
<1> QED
  BY <1>1, <1>2, ListOf

\* An array without a list.
LEMMA StartInline ==
  ASSUME size \in 0 .. Limit, capacity = 0, word \in [0 .. 1 -> Cells],
         heap = [l \in Lists |-> NoCells],
         open = TRUE, freed = <<>>, ret = NOP
  PROVE  IInv
<1>1. \A l \in Lists : heap[l] = NoCells /\ IsList(heap[l])
  BY NoCellsIsList
<1>2. TypeOK
  BY <1>1, ArrayAssumption DEF TypeOK, IsList, Limit
<1>3. ~ Large
  BY DEF Large, Limit
<1>4. ArmMatchesSize
  BY <1>3, ListsDistinct DEF ArmMatchesSize
<1>5. ListsOwned
  BY <1>1 DEF ListsOwned
<1> QED
  BY <1>2, <1>4, <1>5 DEF IInv

\* An array with a list l of n cells.
LEMMA StartList ==
  ASSUME NEW l \in Lists, NEW n \in 0 .. MaxLength, NEW f \in [0 .. n - 1 -> Cells],
         n > Limit, capacity = n, size = n \/ (size = 0 /\ l = "new"),
         word = [j \in 0 .. 1 |-> IF j = 0 THEN l ELSE Garbage],
         heap = [k \in Lists |-> IF k = l THEN f ELSE NoCells],
         open = TRUE, freed = <<>>, ret = NOP
  PROVE  IInv
<1>1. n \in 0 .. MaxCapacity
  BY ArrayAssumption
<1>2. \A k \in Lists : IsList(heap[k])
  BY <1>1, NoCellsIsList, ListOf
<1>3. word[0] = l /\ word[1] = Garbage /\ DOMAIN word = 0 .. 1
  OBVIOUS
<1>4. TypeOK
  BY <1>1, <1>2, <1>3, ListsDistinct, ArrayAssumption DEF TypeOK, IsList
<1>5. DOMAIN heap[word[0]] = 0 .. capacity - 1
  BY <1>3
<1>6. ArmMatchesSize
  BY <1>3, <1>5, ArrayAssumption DEF ArmMatchesSize, Limit, Large
<1>7. ListsOwned
  BY <1>3, ArrayAssumption DEF ListsOwned, Large, Limit
<1> QED
  BY <1>4, <1>6, <1>7 DEF IInv

LEMMA Start == Init => IInv
<1> SUFFICES ASSUME Init PROVE IInv
  OBVIOUS
<1>0. open = TRUE /\ freed = <<>> /\ ret = NOP /\ Limit = 2
  BY DEF Init, Limit
<1>1. CASE \E n \in NewSizes : New(n)
  <2>1. PICK n \in NewSizes : New(n)
    BY <1>1
  <2>2. n \in 0 .. MaxLength
    BY ArrayAssumption
  <2>3. CASE n > Limit
    <3>1. Unset(n) \in [0 .. n - 1 -> Cells]
      BY <2>2, ListsDistinct DEF Unset
    <3>2. word = [j \in 0 .. 1 |-> IF j = 0 THEN "new" ELSE Garbage]
      BY <2>1, <2>3 DEF New
    <3>3. heap = [k \in Lists |-> IF k = "new" THEN Unset(n) ELSE NoCells]
      BY <2>1, <2>3 DEF New
    <3>4. size = 0 /\ capacity = n
      BY <2>1, <2>3 DEF New
    <3> QED
      BY <1>0, <2>2, <2>3, <3>1, <3>2, <3>3, <3>4, StartList, ListsDistinct
  <2>4. CASE ~ (n > Limit)
    <3>1. word \in [0 .. 1 -> Cells]
      BY <2>1, <2>4, ListsDistinct DEF New
    <3>2. size = n /\ capacity = 0
      BY <2>1, <2>4 DEF New
    <3>3. heap = [l \in Lists |-> NoCells]
      BY <2>1, <2>4 DEF New
    <3> QED
      BY <1>0, <2>2, <2>4, <3>1, <3>2, <3>3, StartInline
  <2> QED
    BY <2>3, <2>4
<1>2. CASE \E n \in ParsedSizes : \E f \in [0 .. n - 1 -> Elements] : Parsed(n, f)
  <2>1. PICK n \in ParsedSizes : \E f \in [0 .. n - 1 -> Elements] : Parsed(n, f)
    BY <1>2
  <2>2. PICK f \in [0 .. n - 1 -> Elements] : Parsed(n, f)
    BY <2>1
  <2>3. n \in 0 .. MaxLength /\ f \in [0 .. n - 1 -> Cells]
    BY ArrayAssumption DEF Cells
  <2>4. CASE n > Limit
    <3>1. word = [j \in 0 .. 1 |-> IF j = 0 THEN "parse" ELSE Garbage]
      BY <2>2, <2>4 DEF Parsed
    <3>2. heap = [k \in Lists |-> IF k = "parse" THEN f ELSE NoCells]
      BY <2>2, <2>4 DEF Parsed
    <3>3. size = n /\ capacity = n
      BY <2>2, <2>4 DEF Parsed
    <3> QED
      BY <1>0, <2>3, <2>4, <3>1, <3>2, <3>3, StartList, ListsDistinct
  <2>5. CASE ~ (n > Limit)
    <3>1. word = [j \in 0 .. 1 |-> IF j < n THEN f[j] ELSE Garbage]
      BY <2>2, <2>5 DEF Parsed
    <3>2. word \in [0 .. 1 -> Cells]
      BY <2>3, <3>1, ListsDistinct
    <3>3. size = n /\ capacity = 0
      BY <2>2, <2>5 DEF Parsed
    <3>4. heap = [l \in Lists |-> NoCells]
      BY <2>2, <2>5 DEF Parsed
    <3> QED
      BY <1>0, <2>3, <2>5, <3>2, <3>3, <3>4, StartInline
  <2> QED
    BY <2>4, <2>5
<1> QED
  BY <1>1, <1>2 DEF Init

\* The elements are cells of the arm in use.
LEMMA CellsOfArm ==
  ASSUME IInv, open
  PROVE  /\ \A j \in 0 .. size - 1 : Cell(j) \in Cells
         /\ Contents \in Seq(Cells)
<1>1. \A j \in 0 .. size - 1 : Cell(j) \in Cells
  <2> SUFFICES ASSUME NEW j \in 0 .. size - 1 PROVE Cell(j) \in Cells
    OBVIOUS
  <2>1. CASE Large
    <3>1. word[0] \in Lists /\ DOMAIN heap[word[0]] = 0 .. capacity - 1 /\ size <= capacity
      BY <2>1 DEF IInv, ArmMatchesSize
    <3>2. PICK n \in 0 .. MaxCapacity : heap[word[0]] \in [0 .. n - 1 -> Cells]
      BY <3>1 DEF IInv, TypeOK
    <3>3. j \in DOMAIN heap[word[0]]
      BY <3>1, ArrayAssumption DEF IInv, TypeOK
    <3> QED
      BY <2>1, <3>2, <3>3 DEF Cell
  <2>2. CASE ~ Large
    <3>1. size <= 2 /\ size \in Int
      BY <2>2, ArrayAssumption DEF Large, Limit, IInv, TypeOK
    <3>2. j = 0 \/ j = 1
      BY <3>1
    <3>3. word[0] \in Cells
      BY <2>2, <3>1 DEF IInv, TypeOK, ArmMatchesSize, Limit
    <3>4. word[1] \in Cells
      BY DEF IInv, TypeOK
    <3> QED
      BY <2>2, <3>2, <3>3, <3>4 DEF Cell
  <2> QED
    BY <2>1, <2>2
<1>2. size \in Nat
  BY ArrayAssumption DEF IInv, TypeOK
<1>3. \A n \in 1 .. size : Cell(n - 1) \in Cells
  BY <1>1, <1>2
<1>4. Contents \in [1 .. size -> Cells]
  BY <1>3 DEF Contents
<1>5. Contents \in Seq(Cells)
  BY <1>2, <1>4
<1> QED
  BY <1>1, <1>5

\* A list of the right length under a pointer to it keeps the invariant.
LEMMA KeepList ==
  ASSUME IInv, NEW l \in Lists, NEW n \in 0 .. MaxCapacity, NEW f \in [0 .. n - 1 -> Cells],
         open, open', size' \in 0 .. MaxLength, size' > Limit, size' <= n, capacity' = n,
         word' = [word EXCEPT ![0] = l], heap' = [heap EXCEPT ![l] = f],
         \A k \in Lists \ {"new"} : heap[k] # NoCells => k = l,
         freed' = freed, ret' = ret
  PROVE  IInv'
<1> USE DEF IInv
<1>0. heap = [k \in Lists |-> heap[k]]
  BY DEF TypeOK
<1>1. /\ word'[0] = l /\ word'[1] = word[1] /\ word' \in [0 .. 1 -> Cells \cup Lists]
      /\ heap'[l] = f
      /\ \A k \in Lists : k # l => heap'[k] = heap[k]
      /\ heap' = [k \in Lists |-> heap'[k]]
  <2>1. word'[0] = l /\ word'[1] = word[1] /\ word' \in [0 .. 1 -> Cells \cup Lists]
    BY DEF TypeOK
  <2>2. DOMAIN heap = Lists
    BY <1>0
  <2>3. heap'[l] = f /\ \A k \in Lists : k # l => heap'[k] = heap[k]
    BY <2>2
  <2>4. heap' = [k \in Lists |-> heap'[k]]
    BY <2>2
  <2> QED
    BY <2>1, <2>3, <2>4
<1>2. \A k \in Lists : \E m \in 0 .. MaxCapacity : heap'[k] \in [0 .. m - 1 -> Cells]
  <2> SUFFICES ASSUME NEW k \in Lists
               PROVE  \E m \in 0 .. MaxCapacity : heap'[k] \in [0 .. m - 1 -> Cells]
    OBVIOUS
  <2>1. CASE k = l
    BY <1>1, <2>1
  <2>2. CASE k # l
    <3>1. heap'[k] = heap[k]
      BY <1>1, <2>2
    <3> QED
      BY <3>1 DEF TypeOK
  <2> QED
    BY <2>1, <2>2
<1>3. TypeOK'
  <2>1. capacity' \in 0 .. MaxCapacity /\ size' \in 0 .. MaxLength /\ open' \in BOOLEAN
    BY DEF TypeOK
  <2>2. word' \in [0 .. 1 -> Cells \cup Lists] /\ word'[1] \in Cells
    BY <1>1 DEF TypeOK
  <2>3. freed' \in Seq(Cells) /\ ret' \in Cells \cup {NOP} \cup 0 .. MaxLength
    BY DEF TypeOK
  <2> QED
    BY <1>1, <1>2, <2>1, <2>2, <2>3 DEF TypeOK
<1>4. Large'
  BY DEF Large
<1>5. ArmMatchesSize'
  <2>1. DOMAIN heap'[word'[0]] = 0 .. capacity' - 1
    BY <1>1
  <2>2. ~ (size' \in 1 .. Limit)
    BY ArrayAssumption DEF Limit
  <2> QED
    BY <1>1, <2>1, <2>2 DEF ArmMatchesSize
<1>6. ListsOwned'
  <2> SUFFICES ASSUME NEW k \in Lists \ {"new"}, heap'[k] # NoCells
               PROVE  open' /\ Large' /\ word'[0] = k
    BY DEF ListsOwned
  <2>1. k = l
    BY <1>1
  <2> QED
    BY <1>1, <1>4, <2>1
<1> QED
  BY <1>3, <1>5, <1>6

LEMMA AppendStep ==
  ASSUME IInv, NEW v \in Elements, Append_(v)
  PROVE  IInv'
<1>0. /\ open /\ open' /\ size \in Nat /\ size < MaxLength
      /\ freed' = freed /\ ret' = ret /\ v \in Cells
      /\ size \in Int /\ MaxLength \in Nat /\ MaxCapacity \in Nat /\ Limit = 2
  BY ArrayAssumption DEF Append_, IInv, TypeOK, Cells, Limit
<1>1. CASE AppendToList(v)
  <2>1. /\ Large /\ word[0] \in Lists /\ DOMAIN heap[word[0]] = 0 .. capacity - 1
        /\ size <= capacity /\ capacity \in 0 .. MaxCapacity
    BY <1>0, <1>1 DEF AppendToList, IInv, ArmMatchesSize, TypeOK
  <2>2. AddCapacity \in capacity .. MaxCapacity /\ size + 1 <= AddCapacity
    <3>1. CASE size + 1 >= capacity
      <4>1. capacity \in Limit + 1 .. MaxLength
        BY <1>0, <2>1, <3>1 DEF Large
      <4>2. Grown(capacity) \in capacity + 1 .. MaxCapacity
        BY <4>1, ArrayAssumption
      <4> QED
        BY <1>0, <2>1, <3>1, <4>2 DEF AddCapacity
    <3>2. CASE ~ (size + 1 >= capacity)
      BY <1>0, <2>1, <3>2 DEF AddCapacity
    <3> QED
      BY <3>1, <3>2
  <2>3. AddCells(v) \in [0 .. AddCapacity - 1 -> Cells]
    <3>1. PICK n \in 0 .. MaxCapacity : heap[word[0]] \in [0 .. n - 1 -> Cells]
      BY <2>1 DEF IInv, TypeOK
    <3>2. \A j \in 0 .. AddCapacity - 1 : j < capacity => heap[word[0]][j] \in Cells
      BY <2>1, <2>2, <3>1
    <3> QED
      BY <1>0, <3>2, ListsDistinct DEF AddCells
  <2>4. word' = [word EXCEPT ![0] = word[0]]
    BY <1>1 DEF AppendToList, IInv, TypeOK
  <2>5. /\ size' \in 0 .. MaxLength /\ size' > Limit /\ size' <= AddCapacity
        /\ capacity' = AddCapacity /\ heap' = [heap EXCEPT ![word[0]] = AddCells(v)]
        /\ AddCapacity \in 0 .. MaxCapacity
    BY <1>0, <1>1, <2>1, <2>2 DEF AppendToList, Large
  <2>6. \A k \in Lists \ {"new"} : heap[k] # NoCells => k = word[0]
    BY DEF IInv, ListsOwned
  <2> QED
    BY <1>0, <2>1, <2>3, <2>4, <2>5, <2>6, KeepList
<1>2. CASE AppendThird(v)
  <2> DEFINE f == [j \in 0 .. Grown(Limit + 1) - 1 |->
                     IF j = Limit THEN v ELSE IF j < Limit THEN word[j] ELSE Garbage]
  <2>1. size = Limit /\ size' = size + 1 /\ capacity' = Grown(Limit + 1)
        /\ heap' = [heap EXCEPT !["append"] = f] /\ word' = [word EXCEPT ![0] = "append"]
    BY <1>2 DEF AppendThird
  <2>2. Grown(Limit + 1) \in Limit + 2 .. MaxCapacity
    BY <1>0, ArrayAssumption
  <2>3. word[0] \in Cells /\ word[1] \in Cells
    BY <1>0, <2>1 DEF IInv, TypeOK, ArmMatchesSize
  <2>4. f \in [0 .. Grown(Limit + 1) - 1 -> Cells]
    <3>1. \A j \in 0 .. Grown(Limit + 1) - 1 : j < Limit => word[j] \in Cells
      BY <1>0, <2>2, <2>3
    <3> QED
      BY <1>0, <3>1, ListsDistinct
  <2>5. \A k \in Lists \ {"new"} : heap[k] # NoCells => k = "append"
    BY <1>0, <2>1 DEF IInv, ListsOwned, Large
  <2>6. size' \in 0 .. MaxLength /\ size' > Limit /\ size' <= Grown(Limit + 1)
        /\ Grown(Limit + 1) \in 0 .. MaxCapacity
    BY <1>0, <2>1, <2>2
  <2> HIDE DEF f
  <2> QED
    BY <1>0, <2>1, <2>4, <2>5, <2>6, KeepList, ListsDistinct
<1>3. CASE AppendInline(v)
  <2>1. /\ size < Limit /\ size' = size + 1 /\ capacity' = capacity /\ heap' = heap
        /\ word' = [word EXCEPT ![size] = v]
    BY <1>3 DEF AppendInline
  <2>2. size = 0 \/ size = 1
    BY <1>0, <2>1
  <2>3. /\ word' \in [0 .. 1 -> Cells \cup Lists] /\ word'[1] \in Cells
        /\ size' \in 1 .. Limit /\ word'[0] \notin Lists
    <3>1. size = 1 => word[0] \notin Lists
      BY <1>0 DEF IInv, ArmMatchesSize
    <3>2. word \in [0 .. 1 -> Cells \cup Lists] /\ word[1] \in Cells
      BY DEF IInv, TypeOK
    <3> QED
      BY <1>0, <2>1, <2>2, <3>1, <3>2, ListsDistinct
  <2>4. TypeOK'
    BY <1>0, <2>1, <2>3 DEF IInv, TypeOK
  <2>5. ~ Large /\ ~ Large'
    BY <1>0, <2>1, <2>3 DEF Large
  <2>6. ArmMatchesSize'
    BY <2>3, <2>5 DEF ArmMatchesSize
  <2>7. ListsOwned'
    BY <2>1, <2>5 DEF IInv, ListsOwned
  <2> QED
    BY <2>4, <2>6, <2>7 DEF IInv
<1> QED
  BY <1>1, <1>2, <1>3 DEF Append_

LEMMA SetStep ==
  ASSUME IInv, NEW n \in Indices, NEW v \in Elements, Set(n, v)
  PROVE  IInv'
<1>0. /\ open /\ open' /\ size' = size /\ capacity' = capacity /\ n \in Nat
      /\ freed' = freed /\ ret' = ret /\ v \in Cells /\ size \in Nat
      /\ size \in 0 .. MaxLength /\ Limit = 2
  BY ArrayAssumption DEF Set, Indices, IInv, TypeOK, Cells, Limit
<1>1. CASE n < size /\ Large
  <2>1. word' = word /\ heap' = [heap EXCEPT ![word[0]][n] = v]
    BY <1>1 DEF Set
  <2>2. /\ word[0] \in Lists /\ DOMAIN heap[word[0]] = 0 .. capacity - 1
        /\ size <= capacity /\ capacity \in 0 .. MaxCapacity
    BY <1>0, <1>1 DEF IInv, ArmMatchesSize, TypeOK
  <2>3. PICK m \in 0 .. MaxCapacity : heap[word[0]] \in [0 .. m - 1 -> Cells]
    BY <2>2 DEF IInv, TypeOK
  <2> DEFINE f == [heap[word[0]] EXCEPT ![n] = v]
  <2>4. f \in [0 .. capacity - 1 -> Cells]
    BY <1>0, <2>2, <2>3
  <2>5. heap' = [heap EXCEPT ![word[0]] = f]
    BY <2>1
  <2>6. word' = [word EXCEPT ![0] = word[0]]
    BY <2>1 DEF IInv, TypeOK
  <2>7. \A k \in Lists \ {"new"} : heap[k] # NoCells => k = word[0]
    BY DEF IInv, ListsOwned
  <2>8. size' \in 0 .. MaxLength /\ size' > Limit /\ size' <= capacity
    BY <1>0, <1>1, <2>2 DEF Large
  <2> HIDE DEF f
  <2> QED
    BY <1>0, <2>2, <2>4, <2>5, <2>6, <2>7, <2>8, KeepList
<1>2. CASE n < size /\ ~ Large
  <2>1. heap' = heap /\ word' = [word EXCEPT ![n] = v]
    BY <1>2 DEF Set
  <2>2. n = 0 \/ n = 1
    BY <1>0, <1>2 DEF Large
  <2>3. word' \in [0 .. 1 -> Cells \cup Lists] /\ word'[1] \in Cells
    BY <1>0, <2>1, <2>2 DEF IInv, TypeOK
  <2>4. word'[0] \notin Lists
    <3>1. word[0] \notin Lists
      BY <1>0, <1>2 DEF IInv, ArmMatchesSize, Large
    <3>2. word'[0] = IF n = 0 THEN v ELSE word[0]
      BY <2>1, <2>2 DEF IInv, TypeOK
    <3> QED
      BY <1>0, <3>1, <3>2, ListsDistinct
  <2>5. ~ Large'
    BY <1>0, <1>2 DEF Large
  <2>6. TypeOK'
    BY <1>0, <2>1, <2>3 DEF IInv, TypeOK
  <2>7. ArmMatchesSize' /\ ListsOwned'
    BY <1>2, <2>1, <2>4, <2>5 DEF IInv, ArmMatchesSize, ListsOwned
  <2> QED
    BY <2>6, <2>7 DEF IInv
<1>3. CASE ~ (n < size)
  <2>1. word' = word /\ heap' = heap
    BY <1>3 DEF Set
  <2> QED
    BY <1>0, <2>1 DEF IInv, TypeOK, ArmMatchesSize, ListsOwned, Large
<1> QED
  BY <1>1, <1>2, <1>3

LEMMA ReadStep ==
  ASSUME IInv, Length \/ \E n \in Indices : Get(n)
  PROVE  IInv'
<1>1. /\ size' = size /\ capacity' = capacity /\ word' = word /\ heap' = heap
      /\ open' = open /\ freed' = freed
  BY DEF Length, Get
<1>2. ret' \in Cells \cup {NOP} \cup 0 .. MaxLength
  <2>1. CASE Length
    BY <2>1 DEF Length, IInv, TypeOK
  <2>2. CASE \E n \in Indices : Get(n)
    <3>1. PICK n \in Indices : Get(n)
      BY <2>2
    <3>2. n < size => Cell(n) \in Cells
      BY <3>1, CellsOfArm, ArrayAssumption DEF Get, Indices, IInv, TypeOK
    <3> QED
      BY <3>1, <3>2 DEF Get
  <2> QED
    BY <2>1, <2>2
<1> QED
  BY <1>1, <1>2 DEF IInv, TypeOK, ArmMatchesSize, ListsOwned, Large

LEMMA FreeStep ==
  ASSUME IInv, Free
  PROVE  IInv'
<1>1. open /\ ~ open' /\ open' \in BOOLEAN /\ ret' = ret /\ freed' = Contents
  BY DEF Free
<1>2. freed' \in Seq(Cells)
  BY <1>1, CellsOfArm
<1>3. ArmMatchesSize'
  BY <1>1 DEF ArmMatchesSize
<1>4. CASE Large
  <2>1. /\ heap' = [heap EXCEPT ![word[0]] = NoCells] /\ word' = [word EXCEPT ![0] = Garbage]
        /\ size' = 0 /\ capacity' = 0
    BY <1>4 DEF Free
  <2>2. word' \in [0 .. 1 -> Cells \cup Lists] /\ word'[1] \in Cells
    BY <2>1, ListsDistinct DEF IInv, TypeOK
  <2>3. DOMAIN heap = Lists /\ heap' = [k \in Lists |-> heap'[k]]
    BY <2>1 DEF IInv, TypeOK
  <2>4. \A k \in Lists : heap'[k] = IF k = word[0] THEN NoCells ELSE heap[k]
    BY <2>1, <2>3
  <2>5. \A k \in Lists : \E m \in 0 .. MaxCapacity : heap'[k] \in [0 .. m - 1 -> Cells]
    <3> SUFFICES ASSUME NEW k \in Lists
                 PROVE  \E m \in 0 .. MaxCapacity : heap'[k] \in [0 .. m - 1 -> Cells]
      OBVIOUS
    <3>1. CASE k = word[0]
      BY <2>4, <3>1, NoCellsIsList DEF IsList
    <3>2. CASE k # word[0]
      BY <2>4, <3>2 DEF IInv, TypeOK
    <3> QED
      BY <3>1, <3>2
  <2>6. TypeOK'
    <3>1. size' \in 0 .. MaxLength /\ capacity' \in 0 .. MaxCapacity
      BY <2>1, ArrayAssumption
    <3>2. ret' \in Cells \cup {NOP} \cup 0 .. MaxLength
      BY <1>1 DEF IInv, TypeOK
    <3> QED
      BY <1>1, <1>2, <2>2, <2>3, <2>5, <3>1, <3>2 DEF TypeOK
  <2>7. ListsOwned'
    BY <2>4 DEF IInv, ListsOwned
  <2> QED
    BY <1>3, <2>6, <2>7 DEF IInv
<1>5. CASE ~ Large
  <2>1. UNCHANGED <<size, capacity, word, heap>>
    BY <1>5 DEF Free
  <2>2. TypeOK'
    BY <1>1, <1>2, <2>1 DEF IInv, TypeOK
  <2>3. ListsOwned'
    BY <1>5, <2>1 DEF IInv, ListsOwned
  <2> QED
    BY <1>3, <2>2, <2>3 DEF IInv
<1> QED
  BY <1>4, <1>5

LEMMA Inductive == IInv /\ [Next]_vars => IInv'
<1> SUFFICES ASSUME IInv, [Next]_vars PROVE IInv'
  OBVIOUS
<1>1. CASE \E v \in Elements : Append_(v)
  BY <1>1, AppendStep
<1>2. CASE \E n \in Indices : Get(n)
  BY <1>2, ReadStep
<1>3. CASE \E n \in Indices : \E v \in Elements : Set(n, v)
  BY <1>3, SetStep
<1>4. CASE Length
  BY <1>4, ReadStep
<1>5. CASE Free
  BY <1>5, FreeStep
<1>6. CASE UNCHANGED vars
  BY <1>6 DEF vars, IInv, TypeOK, ArmMatchesSize, ListsOwned, Large
<1> QED
  BY <1>1, <1>2, <1>3, <1>4, <1>5, <1>6 DEF Next, Done

LEMMA Invariance == Spec => []IInv
<1>1. Init => IInv
  BY Start
<1>2. IInv /\ [Next]_vars => IInv'
  BY Inductive
<1> QED
  BY <1>1, <1>2, PTL DEF Spec

\* Every variable of the array keeps its type: no operation stores a list where
\* an element belongs (kjson.h:116-122).
THEOREM Typing == Spec => []TypeOK
<1>1. IInv => TypeOK
  BY DEF IInv
<1> QED
  BY <1>1, Invariance, PTL

\* The arm of the union that the size selects is the one that was written last,
\* and a list is never shorter than the array (kjson.c:208-231, karray.h:76-82).
THEOREM ArmsMatch == Spec => []ArmMatchesSize
<1>1. IInv => ArmMatchesSize
  BY DEF IInv
<1> QED
  BY <1>1, Invariance, PTL

\* The lists of parsed and of grown arrays are neither lost while the array is
\* in use nor left behind by its release (kjson.c:147-169).
THEOREM NoListLost == Spec => []ListsOwned
<1>1. IInv => ListsOwned
  BY DEF IInv
<1> QED
  BY <1>1, Invariance, PTL

\* The length and the elements of what the array stands for.
LEMMA ContentsOf ==
  ASSUME IInv, open
  PROVE  /\ Contents \in Seq(Cells)
         /\ Len(Contents) = size
         /\ DOMAIN Contents = 1 .. size
         /\ \A n \in 1 .. size : Contents[n] = Cell(n - 1)
<1>1. Contents \in Seq(Cells)
  BY CellsOfArm
<1>2. DOMAIN Contents = 1 .. size /\ \A n \in 1 .. size : Contents[n] = Cell(n - 1)
  BY DEF Contents
<1>3. size \in Nat
  BY ArrayAssumption DEF IInv, TypeOK
<1> QED
  BY <1>1, <1>2, <1>3

\* After an append the cells are those from before and the new one.
LEMMA AppendCells ==
  ASSUME IInv, NEW v \in Elements, Append_(v), NEW j \in 0 .. size
  PROVE  Cell(j)' = IF j < size THEN Cell(j) ELSE v
<1>0. size \in Nat /\ Limit = 2 /\ open /\ j \in Nat
  BY ArrayAssumption DEF IInv, TypeOK, Limit, Append_
<1>1. CASE AppendToList(v)
  <2>1. /\ Large /\ word[0] \in Lists /\ size <= capacity /\ capacity \in Nat
        /\ DOMAIN heap = Lists
    BY <1>0, <1>1, ArrayAssumption DEF AppendToList, IInv, ArmMatchesSize, TypeOK
  <2>2. /\ word' = word /\ heap' = [heap EXCEPT ![word[0]] = AddCells(v)] /\ Large'
    BY <1>0, <1>1, <2>1 DEF AppendToList, Large
  <2>3. Cell(j)' = AddCells(v)[j]
    BY <2>1, <2>2 DEF Cell
  <2>4. size + 1 <= AddCapacity /\ AddCapacity \in Int
    <3>1. CASE size + 1 >= capacity
      <4>1. capacity \in Limit + 1 .. MaxLength
        BY <1>0, <2>1, <3>1, ArrayAssumption DEF Large, Append_
      <4>2. Grown(capacity) \in capacity + 1 .. MaxCapacity
        BY <4>1, ArrayAssumption
      <4> QED
        BY <1>0, <2>1, <3>1, <4>2, ArrayAssumption DEF AddCapacity
    <3>2. CASE ~ (size + 1 >= capacity)
      BY <1>0, <2>1, <3>2 DEF AddCapacity
    <3> QED
      BY <3>1, <3>2
  <2>5. j \in 0 .. AddCapacity - 1 /\ (j < size => j < capacity /\ j # size)
    BY <1>0, <2>1, <2>4
  <2>6. Cell(j) = heap[word[0]][j]
    BY <2>1 DEF Cell
  <2> QED
    BY <1>0, <2>3, <2>5, <2>6 DEF AddCells
<1>2. CASE AppendThird(v)
  <2>1. size = 2 /\ ~ Large /\ Large'
    BY <1>0, <1>2 DEF AppendThird, Large
  <2>2. Grown(3) \in 4 .. MaxCapacity
    BY <1>0, ArrayAssumption
  <2>3. word'[0] = "append" /\ heap'["append"] =
                [m \in 0 .. Grown(3) - 1 |->
                   IF m = 2 THEN v ELSE IF m < 2 THEN word[m] ELSE Garbage]
    BY <1>0, <1>2, ListsDistinct DEF AppendThird, IInv, TypeOK
  <2>4. Cell(j)' = IF j = 2 THEN v ELSE word[j]
    <3>1. j \in 0 .. Grown(3) - 1 /\ (j = 2 \/ j < 2)
      BY <1>0, <2>1, <2>2, ArrayAssumption
    <3> QED
      BY <2>1, <2>3, <3>1 DEF Cell
  <2> QED
    BY <1>0, <2>1, <2>4 DEF Cell
<1>3. CASE AppendInline(v)
  <2>1. ~ Large /\ ~ Large' /\ word' = [word EXCEPT ![size] = v] /\ size \in 0 .. 1
    BY <1>0, <1>3 DEF AppendInline, Large
  <2>2. j \in 0 .. 1 /\ DOMAIN word = 0 .. 1
    BY <1>0, <2>1 DEF IInv, TypeOK
  <2>3. Cell(j)' = IF j = size THEN v ELSE word[j]
    BY <2>1, <2>2 DEF Cell
  <2> QED
    BY <1>0, <2>1, <2>3 DEF Cell
<1> QED
  BY <1>1, <1>2, <1>3 DEF Append_

LEMMA AppendRefines ==
  ASSUME IInv, NEW v \in Elements, Append_(v)
  PROVE  Contents' = Append(Contents, v)
<1>0. size \in Nat /\ size' = size + 1 /\ open /\ v \in Cells
  BY ArrayAssumption DEF IInv, TypeOK, Append_, AppendToList, AppendThird, AppendInline, Cells
<1> DEFINE s == Append(Contents, v)
<1>1. /\ Contents \in Seq(Cells) /\ Len(Contents) = size
      /\ \A n \in 1 .. size : Contents[n] = Cell(n - 1)
  BY <1>0, ContentsOf
<1>2. /\ s \in Seq(Cells) /\ Len(s) = size + 1
      /\ \A n \in 1 .. size : s[n] = Contents[n]
      /\ s[size + 1] = v
  BY <1>0, <1>1, AppendProperties
<1> HIDE DEF s
<1>3. \A n \in 1 .. size + 1 : Cell(n - 1)' = s[n]
  <2> SUFFICES ASSUME NEW n \in 1 .. size + 1 PROVE Cell(n - 1)' = s[n]
    OBVIOUS
  <2>1. n - 1 \in 0 .. size
    BY <1>0
  <2>2. Cell(n - 1)' = IF n - 1 < size THEN Cell(n - 1) ELSE v
    BY <2>1, AppendCells
  <2>3. n \in 1 .. size \/ n = size + 1
    BY <1>0
  <2> QED
    BY <1>0, <1>1, <1>2, <2>2, <2>3
<1>4. Contents' = [n \in 1 .. size + 1 |-> Cell(n - 1)']
  BY <1>0 DEF Contents
<1>5. Contents' = [n \in 1 .. size + 1 |-> s[n]]
  BY <1>3, <1>4
<1>6. s = [n \in 1 .. size + 1 |-> s[n]]
  BY <1>2, LenProperties
<1> QED
  BY <1>5, <1>6 DEF s

LEMMA SetRefines ==
  ASSUME IInv, NEW n \in Indices, NEW v \in Elements, Set(n, v)
  PROVE  Contents' = [k \in DOMAIN Contents |-> IF k = n + 1 THEN v ELSE Contents[k]]
<1>0. size \in Nat /\ size' = size /\ open /\ n \in Nat /\ Limit = 2 /\ (Large' <=> Large)
  BY ArrayAssumption DEF IInv, TypeOK, Set, Indices, Limit, Large
<1>1. DOMAIN Contents = 1 .. size /\ \A k \in 1 .. size : Contents[k] = Cell(k - 1)
  BY <1>0, ContentsOf
<1>2. \A j \in 0 .. size - 1 : Cell(j)' = IF j = n THEN v ELSE Cell(j)
  <2> SUFFICES ASSUME NEW j \in 0 .. size - 1
               PROVE  Cell(j)' = IF j = n THEN v ELSE Cell(j)
    OBVIOUS
  <2>1. CASE ~ (n < size)
    <3>1. word' = word /\ heap' = heap
      BY <2>1 DEF Set
    <3> QED
      BY <1>0, <2>1, <3>1 DEF Cell
  <2>2. CASE n < size /\ Large
    <3>1. /\ word[0] \in Lists /\ DOMAIN heap[word[0]] = 0 .. capacity - 1
          /\ size <= capacity /\ capacity \in Nat /\ DOMAIN heap = Lists
      BY <1>0, <2>2, ArrayAssumption DEF IInv, ArmMatchesSize, TypeOK
    <3>2. word' = word /\ heap' = [heap EXCEPT ![word[0]][n] = v]
      BY <2>2 DEF Set
    <3>3. heap'[word[0]] = [heap[word[0]] EXCEPT ![n] = v]
      BY <3>1, <3>2
    <3>4. n \in DOMAIN heap[word[0]] /\ j \in DOMAIN heap[word[0]]
      BY <1>0, <2>2, <3>1
    <3>5. heap'[word[0]][j] = IF j = n THEN v ELSE heap[word[0]][j]
      BY <3>3, <3>4
    <3> QED
      BY <1>0, <2>2, <3>2, <3>5 DEF Cell
  <2>3. CASE n < size /\ ~ Large
    <3>1. heap' = heap /\ word' = [word EXCEPT ![n] = v]
      BY <2>3 DEF Set
    <3>2. n \in 0 .. 1 /\ j \in 0 .. 1 /\ DOMAIN word = 0 .. 1
      BY <1>0, <2>3 DEF Large, IInv, TypeOK
    <3> QED
      BY <1>0, <2>3, <3>1, <3>2 DEF Cell
  <2> QED
    BY <2>1, <2>2, <2>3
<1>3. \A k \in 1 .. size : Cell(k - 1)' = IF k = n + 1 THEN v ELSE Contents[k]
  <2> SUFFICES ASSUME NEW k \in 1 .. size
               PROVE  Cell(k - 1)' = IF k = n + 1 THEN v ELSE Contents[k]
    OBVIOUS
  <2>1. k - 1 \in 0 .. size - 1 /\ (k - 1 = n <=> k = n + 1)
    BY <1>0
  <2> QED
    BY <1>1, <1>2, <2>1
<1>4. Contents' = [k \in 1 .. size |-> Cell(k - 1)']
  BY <1>0 DEF Contents
<1> QED
  BY <1>1, <1>3, <1>4

\* An array is the list of values its program put into it: every step of it is
\* a step of ValueList, or none, whichever arm of the union is in use, for
\* arrays of any length (kjson.c:208-231, kjson.h:481-513).
THEOREM ImplementsList == Spec => Implements
<1>1. Init => List!Init
  BY DEF Init, List!Init
<1>2. IInv /\ IInv' /\ [Next]_vars => [List!Next]_(List!vars)
  <2> SUFFICES ASSUME IInv, IInv', [Next]_vars PROVE [List!Next]_(List!vars)
    OBVIOUS
  <2>1. CASE \E v \in Elements : Append_(v)
    <3>1. PICK v \in Elements : Append_(v)
      BY <2>1
    <3>2. /\ open /\ open' /\ freed' = freed /\ ret' = ret
          /\ Contents' = Append(Contents, v)
      BY <3>1, AppendRefines DEF Append_
    <3>3. List!Append_(v)
      BY <3>2 DEF List!Append_
    <3> QED
      BY <3>3 DEF List!Next
  <2>2. CASE \E n \in Indices : \E v \in Elements : Set(n, v)
    <3>1. PICK n \in Indices, v \in Elements : Set(n, v)
      BY <2>2
    <3>2. /\ open /\ open' /\ freed' = freed /\ ret' = ret
          /\ Contents' = [k \in DOMAIN Contents |-> IF k = n + 1 THEN v ELSE Contents[k]]
      BY <3>1, SetRefines DEF Set
    <3>3. List!Set(n, v)
      BY <3>2 DEF List!Set
    <3> QED
      BY <3>3 DEF List!Next
  <2>3. CASE \E n \in Indices : Get(n)
    <3>1. PICK n \in Indices : Get(n)
      BY <2>3
    <3>2. /\ open /\ size \in Nat /\ n \in Nat
          /\ DOMAIN Contents = 1 .. size /\ \A k \in 1 .. size : Contents[k] = Cell(k - 1)
      BY <3>1, ContentsOf, ArrayAssumption DEF Get, Indices, IInv, TypeOK
    <3>3. ret' = IF n + 1 \in DOMAIN Contents THEN Contents[n + 1] ELSE NOP
      <4>1. n < size => n + 1 \in 1 .. size /\ Contents[n + 1] = Cell(n)
        <5>1. n < size => n + 1 \in 1 .. size /\ (n + 1) - 1 = n
          BY <3>2
        <5> QED
          BY <3>2, <5>1
      <4>2. ~ (n < size) => n + 1 \notin 1 .. size
        BY <3>2
      <4> QED
        BY <3>1, <3>2, <4>1, <4>2 DEF Get
    <3>4. open' /\ freed' = freed /\ Contents' = Contents
      BY <3>1, <3>2 DEF Get, Contents, Cell, Large
    <3>5. List!Get(n)
      BY <3>2, <3>3, <3>4 DEF List!Get
    <3> QED
      BY <3>5 DEF List!Next
  <2>4. CASE Length
    <3>1. open /\ open' /\ freed' = freed /\ Contents' = Contents /\ ret' = size
      BY <2>4 DEF Length, Contents, Cell, Large
    <3>2. ret' = Len(Contents)
      BY <3>1, ContentsOf
    <3>3. List!Length
      BY <3>1, <3>2 DEF List!Length
    <3> QED
      BY <3>3 DEF List!Next
  <2>5. CASE Free
    <3>1. open /\ ~ open' /\ open' = FALSE /\ freed' = Contents /\ ret' = ret
      BY <2>5 DEF Free
    <3>2. List!Free
      BY <3>1 DEF List!Free
    <3> QED
      BY <3>2 DEF List!Next
  <2>6. CASE UNCHANGED vars
    <3>1. UNCHANGED <<Contents, open, freed, ret>>
      BY <2>6 DEF vars, Contents, Cell, Large
    <3> QED
      BY <3>1 DEF List!vars
  <2> QED
    BY <2>1, <2>2, <2>3, <2>4, <2>5, <2>6 DEF Next, Done
<1>3. Spec => []IInv
  BY Invariance
<1> QED
  BY <1>1, <1>2, <1>3, PTL DEF Spec, Implements, List!Spec
=============================================================================
