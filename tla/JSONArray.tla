------------------------------ MODULE JSONArray ------------------------------
(***************************************************************************)
(* A kjson array (kjson.h, kjson.c) over the growing list of karray.h.  Up *)
(* to two elements lie in the array object itself, more in a list.  Both   *)
(* are arms of a union: the size is shared, and the first inline element   *)
(* lies where the other arm has the pointer to its list.                   *)
(***************************************************************************)
EXTENDS Integers, Sequences, FiniteSetsExt

CONSTANTS
  Elements,     \* the values a program puts in an array
  NewSizes,     \* the sizes passed to JSONArray_new
  ParsedSizes,  \* the lengths of the arrays parseArray builds
  MaxLength,    \* bound: the longest array
  MaxCapacity,  \* bound: the longest list
  Garbage,      \* what memory holds that was not written
  NOP           \* JSON_NOP(), no value

Limit == 2  \* KJSON_SMALL_ARRAY_LIMIT

\* 1 << LOG2(capacity * 2 + 1).
Grown(capacity) == Min({m \in {2 ^ e : e \in 0 .. capacity + 1} : m >= 2 * capacity + 1})

ASSUME ArrayAssumption ==
  /\ MaxLength \in Nat /\ MaxCapacity \in Nat
  /\ Limit < MaxLength /\ MaxLength <= MaxCapacity
  /\ NewSizes \subseteq 0 .. MaxLength
  /\ ParsedSizes \subseteq 0 .. MaxLength
  /\ \A n \in Limit + 1 .. MaxLength : Grown(n) \in n + 1 .. MaxCapacity

\* The calls that allocate a list: JSONArray_new for a program, or for
\* parseArray, and JSONArray_append.  An array makes each at most once.
Lists == {"new", "parse", "append"}

ASSUME ElementsAssumption ==
  /\ Garbage \notin Elements /\ NOP \notin Elements
  /\ Lists \cap (Elements \cup {Garbage, NOP}) = {}

VARIABLES
  size,      \* entry.raw.size and entry.array.size
  capacity,  \* entry.array.capacity, not used by the inline arm
  word,      \* the words behind them: word[0] is raw.ary[0] or array.list
  heap,      \* list -> its cells, none if it is not allocated
  open,      \* the array has not been freed
  freed,     \* the values its release released
  ret        \* what the last get or length call returned

vars == <<size, capacity, word, heap, open, freed, ret>>

Cells == Elements \cup {Garbage}

NoCells == [j \in {} |-> Garbage]

Unset(n) == [j \in 0 .. n - 1 |-> Garbage]

Large == size > Limit

\* JSONArray_begin and what follows it.
Cell(j) == IF Large THEN heap[word[0]][j] ELSE word[j]

Contents == [n \in 1 .. size |-> Cell(n - 1)]
-----------------------------------------------------------------------------
\* JSONArray_new(jm, n), by a program: the size of the list it initialises
\* is the size of the array.
New(n) ==
  /\ size = IF n > Limit THEN 0 ELSE n
  /\ capacity = IF n > Limit THEN n ELSE 0
  /\ word = [j \in 0 .. 1 |-> IF n > Limit /\ j = 0 THEN "new" ELSE Garbage]
  /\ heap = [l \in Lists |-> IF n > Limit /\ l = "new" THEN Unset(n) ELSE NoCells]

\* The end of parseArray: the values are moved in and the size is set.
Parsed(n, f) ==
  /\ size = n
  /\ capacity = IF n > Limit THEN n ELSE 0
  /\ word = [j \in 0 .. 1 |-> IF n > Limit THEN IF j = 0 THEN "parse" ELSE Garbage
                              ELSE IF j < n THEN f[j] ELSE Garbage]
  /\ heap = [l \in Lists |-> IF n > Limit /\ l = "parse" THEN f ELSE NoCells]

Init == /\ \/ \E n \in NewSizes : New(n)
           \/ \E n \in ParsedSizes : \E f \in [0 .. n - 1 -> Elements] : Parsed(n, f)
        /\ open = TRUE
        /\ freed = <<>>
        /\ ret = NOP

\* Mutation: room is made one element late.
AddCapacityLate == IF size > capacity THEN Grown(capacity) ELSE capacity

\* ARRAY_add where there is room, and where the list is reallocated.
AddCapacity == IF size + 1 >= capacity THEN Grown(capacity) ELSE capacity

\* Mutation: a grown list does not keep what was in it.
AddCellsFresh(v) == [j \in 0 .. AddCapacity - 1 |->
                       IF j = size THEN v
                       ELSE IF AddCapacity = capacity THEN heap[word[0]][j] ELSE Garbage]

AddCells(v) == [j \in 0 .. AddCapacity - 1 |->
                  IF j = size THEN v
                  ELSE IF j < capacity THEN heap[word[0]][j] ELSE Garbage]

AppendToList(v) ==
  /\ Large
  /\ capacity' = AddCapacity
  /\ heap' = [heap EXCEPT ![word[0]] = AddCells(v)]
  /\ size' = size + 1
  /\ UNCHANGED word

\* Mutation: the inline elements are read after the list was initialised.
AppendThirdLate(v) ==
  /\ size = Limit
  /\ capacity' = Grown(Limit + 1)
  /\ word' = [word EXCEPT ![0] = "append"]
  /\ heap' = [heap EXCEPT !["append"] =
                [j \in 0 .. Grown(Limit + 1) - 1 |->
                   IF j = Limit THEN v ELSE IF j < Limit THEN word'[j] ELSE Garbage]]
  /\ size' = size + 1

\* The third element: the list has room for three but the last ARRAY_add of
\* three grows it.
AppendThird(v) ==
  /\ size = Limit
  /\ capacity' = Grown(Limit + 1)
  /\ heap' = [heap EXCEPT !["append"] =
                [j \in 0 .. Grown(Limit + 1) - 1 |->
                   IF j = Limit THEN v ELSE IF j < Limit THEN word[j] ELSE Garbage]]
  /\ word' = [word EXCEPT ![0] = "append"]
  /\ size' = size + 1

AppendInline(v) ==
  /\ size < Limit
  /\ word' = [word EXCEPT ![size] = v]
  /\ size' = size + 1
  /\ UNCHANGED <<capacity, heap>>

Append_(v) ==
  /\ open /\ size < MaxLength
  /\ AppendToList(v) \/ AppendThird(v) \/ AppendInline(v)
  /\ UNCHANGED <<open, freed, ret>>

Set(n, v) ==
  /\ open
  /\ heap' = IF n < size /\ Large THEN [heap EXCEPT ![word[0]][n] = v] ELSE heap
  /\ word' = IF n < size /\ ~ Large THEN [word EXCEPT ![n] = v] ELSE word
  /\ UNCHANGED <<size, capacity, open, freed, ret>>

Get(n) == /\ open
          /\ ret' = IF n < size THEN Cell(n) ELSE NOP
          /\ UNCHANGED <<size, capacity, word, heap, open, freed>>

Length == /\ open
          /\ ret' = size
          /\ UNCHANGED <<size, capacity, word, heap, open, freed>>

\* Mutation: the elements are released but not the list.
FreeNoDispose ==
  /\ open
  /\ freed' = Contents
  /\ open' = FALSE
  /\ UNCHANGED <<size, capacity, word, heap, ret>>

\* JSON_free of an array nobody else refers to.
Free ==
  /\ open
  /\ freed' = Contents
  /\ open' = FALSE
  /\ IF Large THEN /\ heap' = [heap EXCEPT ![word[0]] = NoCells]
                   /\ word' = [word EXCEPT ![0] = Garbage]
                   /\ size' = 0 /\ capacity' = 0
              ELSE UNCHANGED <<size, capacity, word, heap>>
  /\ UNCHANGED ret

Done == ~ open /\ UNCHANGED vars

Indices == 0 .. MaxLength

Next == \/ \E v \in Elements : Append_(v)
        \/ \E n \in Indices : Get(n) \/ \E v \in Elements : Set(n, v)
        \/ Length
        \/ Free
        \/ Done

Spec == Init /\ [][Next]_vars
-----------------------------------------------------------------------------
\* The type of every variable.
TypeOK == /\ size \in 0 .. MaxLength
          /\ capacity \in 0 .. MaxCapacity
          /\ word \in [0 .. 1 -> Cells \cup Lists]
          /\ word[1] \in Cells
          /\ heap = [l \in Lists |-> heap[l]]
          /\ \A l \in Lists : \E n \in 0 .. MaxCapacity : heap[l] \in [0 .. n - 1 -> Cells]
          /\ open \in BOOLEAN
          /\ freed \in Seq(Cells)
          /\ ret \in Cells \cup {NOP} \cup 0 .. MaxLength

\* The arm of the union in use is the one the size tells: beyond two elements
\* the first word points to a list with as many cells as its capacity says, at
\* least as many as elements, and up to two elements it never does, so that no
\* element is taken for a pointer and no pointer for an element.
ArmMatchesSize ==
  open => /\ Large => /\ word[0] \in Lists
                      /\ DOMAIN heap[word[0]] = 0 .. capacity - 1
                      /\ size <= capacity
          /\ size \in 1 .. Limit => word[0] \notin Lists

\* A list that parseArray or JSONArray_append allocated is in use until it is
\* freed, and none is left when the array is.
ListsOwned ==
  \A l \in Lists \ {"new"} :
    heap[l] # NoCells => open /\ Large /\ word[0] = l

List == INSTANCE ValueList
        WITH Absent <- NOP,
             elems  <- IF open THEN Contents ELSE <<>>

\* Whatever the storage, an array is the list of what was appended, set and
\* parsed, across the change of the arm and every growth, and its release
\* releases each element once.
Implements == List!Spec

\* What JSON_getArray returns: a pointer to size elements.
GetArray == word[0]

\* It points to elements.
GetArrayIsReadable ==
  open /\ size > 0 => /\ GetArray \in Lists
                      /\ 0 .. size - 1 \subseteq DOMAIN heap[GetArray]
=============================================================================
