---------------------------- MODULE KMap_proofs ----------------------------
(***************************************************************************)
(* Theorems about KMap: insertions are found; how many members there are,  *)
(* which a move keeps, and the references they hold; and, where nothing is *)
(* removed, that names are unique, that iterating and looking up agree, and *)
(* that it implements Dictionary.                                          *)
(***************************************************************************)
EXTENDS KMap, FiniteSetTheorems, WellFoundedInduction, TLAPS

\* The first index at which a search stops is one of those it can stop at.
LEMMA MinIsMember ==
  ASSUME NEW S, S \subseteq Nat, S # {}
  PROVE  Min(S) \in S /\ \A y \in S : Min(S) <= y
<1> DEFINE R == {ss \in Nat \X Nat : ss[1] < ss[2]}
<1>1. IsWellFoundedOn(R, Nat)
  BY NatLessThanWellFounded DEF OpToRel
<1> HIDE DEF R
<1>2. PICK n \in S : \A y \in S : ~ (<<y, n>> \in R)
  BY <1>1, WFMin
<1>3. ASSUME NEW x \in Nat, NEW y \in Nat, y < x
      PROVE  <<y, x>> \in R
  BY <1>3 DEF R
<1>4. \A y \in S : n <= y
  <2>1. ASSUME NEW y \in S, ~ n <= y
        PROVE  FALSE
    <3>1. n \in Nat /\ y \in Nat /\ y < n
      BY <2>1
    <3> QED
      BY <1>2, <1>3, <2>1, <3>1
  <2> QED
    BY <2>1
<1> QED
  BY <1>4 DEF Min

\* The slot a probe inspects is one of the table's.
LEMMA ProbeInTable ==
  ASSUME NEW m \in Nat, NEW h \in Nat, NEW d \in Nat
  PROVE  (h + d) % (m + 1) \in 0 .. m
  OBVIOUS

\* A record made from a key and a value is a record.
LEMMA StoredAreRecords == Stored \subseteq Records /\ Empty \in Records
  BY KeysAssumption DEF Stored, Records, Record, Pairs, HashCode, Empty

\* A record that is stored has a key, and the hash of that key.
LEMMA StoredKey ==
  ASSUME NEW r \in Stored
  PROVE  r.k \in Keys /\ r.v \in Values /\ r.hash = HashCode(r.k)
  BY DEF Stored, Record, Pairs

\* JSON_free changes counts to counts and disposes only of keys and values.
LEMMA JSON_freeType ==
  ASSUME TypeOK, NEW n \in [Refs -> Nat], JSON_free(n)
  PROVE  count' \in [Refs -> Int] /\ disposed' \subseteq Refs
<1>1. ASSUME NEW x \in Refs
      PROVE  CountAfter(count[x], n[x]) \in Int
  BY SizesAssumption DEF CountAfter, TypeOK
<1> QED
  BY <1>1 DEF JSON_free, TypeOK

LEMMA OnceType == ASSUME NEW v PROVE Once(v) \in [Refs -> Nat]
  BY DEF Once

\* The slots that searches of the map end at are slots of the map.
LEMMA RoomForIsSlot ==
  ASSUME TypeOK, api = "hash", NEW r \in Records, Room(r) # {}
  PROVE  RoomFor(r) \in DOMAIN records
<1>1. Room(r) \subseteq Nat
  BY SizesAssumption DEF Room, Probes
<1>2. Min(Room(r)) \in Nat
  BY <1>1, MinIsMember
<1> QED
  BY <1>2, ProbeInTable, SizesAssumption DEF RoomFor, Probe, TypeOK, Slots, Records, Mask

LEMMA DictRoomIsSlot ==
  ASSUME NEW r, DictRoom(r) # {}
  PROVE  Min(DictRoom(r)) \in DictRoom(r) /\ Min(DictRoom(r)) \in DictSlots
<1>1. DictRoom(r) \subseteq Nat /\ DictRoom(r) \subseteq DictSlots
  BY SizesAssumption DEF DictRoom, DictSlots
<1> QED
  BY <1>1, MinIsMember

LEMMA SlotOfIsSlot ==
  ASSUME TypeOK, Idle, NEW k \in Keys, Scan(k) # {}
  PROVE  SlotOf(k) \in DOMAIN records
<1>1. Scan(k) \subseteq Nat
  BY SizesAssumption DEF Scan, DictSlots, Probes
<1>2. Min(Scan(k)) \in Scan(k) /\ Min(Scan(k)) \in Nat
  BY <1>1, MinIsMember
<1>3. CASE api = "dict"
  BY <1>2, <1>3 DEF SlotOf, Scan, TypeOK, Slots
<1>4. CASE api = "hash"
  <2>1. HashCode(k) \in Nat
    BY KeysAssumption DEF HashCode
  <2> QED
    BY <1>2, <1>4, <2>1, ProbeInTable DEF SlotOf, Probe, Mask, TypeOK, Slots
<1> QED
  BY <1>3, <1>4 DEF TypeOK, Idle
-----------------------------------------------------------------------------
LEMMA TypeInit == Init => TypeOK
<1> SUFFICES ASSUME Init PROVE TypeOK
  OBVIOUS
<1>1. PICK init \in InitSizes :
        /\ api = IF init > DictThreshold THEN "hash" ELSE "dict"
        /\ records = IF init > DictThreshold
                       THEN [j \in 0 .. RoundUp(init) - 1 |-> Empty]
                       ELSE [j \in DictSlots |-> Empty]
        /\ record_size_mask = IF init > DictThreshold THEN RoundUp(init) - 1 ELSE 0
        /\ hash_list = IF init > DictThreshold THEN NoHashes
                                               ELSE [j \in DictSlots |-> 0]
  BY DEF Init
<1>2. RoundUp(init) \in 1 .. MaxRecords /\ MaxRecords \in Nat \ {0}
  BY SizesAssumption
<1>3. /\ api \in {"dict", "hash", "freed"}
      /\ record_size_mask \in 0 .. MaxRecords - 1
      /\ hash_list \in [IF api = "dict" THEN DictSlots ELSE {} -> Nat]
  BY <1>1, <1>2 DEF NoHashes
<1>4. records \in [Slots -> Records]
  BY <1>1, <1>2, StoredAreRecords DEF Slots, Mask
<1>5. /\ used_size = 0 /\ pc = "idle" /\ rec = Empty /\ head = NoRecords /\ i = 0
      /\ count = [x \in Refs |-> 0] /\ disposed = {} /\ ret = NoValue
  BY DEF Init
<1> QED
  BY <1>3, <1>4, <1>5, StoredAreRecords DEF TypeOK, NoRecords

LEMMA TypeNext == TypeOK /\ [Next]_vars => TypeOK'
<1> SUFFICES ASSUME TypeOK, [Next]_vars PROVE TypeOK'
  OBVIOUS
<1> USE DEF table, refs, Mask
<1>1. ASSUME NEW p \in Pairs, SetCall(p)
      PROVE  TypeOK'
  <2>1. Record(p) \in Stored /\ Record(p) \in Records
    BY StoredAreRecords DEF Stored
  <2>2. count' \in [Refs -> Int]
    <3>1. count \in [Refs -> Int] /\ count' = [count EXCEPT ![p.v] = count[p.v] + 1]
      BY <1>1 DEF SetCall, TypeOK
    <3>2. p.v \in Refs
      BY DEF Pairs, Refs
    <3> QED
      BY <3>1, <3>2
  <2> QED
    BY <1>1, <2>1, <2>2 DEF SetCall, TypeOK, Slots
<1>2. CASE DictSetNew
  <2>1. Min(DictRoom(rec)) \in DictSlots
    BY <1>2, DictRoomIsSlot DEF DictSetNew
  <2>2. rec.hash \in Nat
    BY DEF TypeOK, Records
  <2>3. hash_list' \in [DictSlots -> Nat] /\ records' \in [DictSlots -> Records]
    BY <1>2, <2>1, <2>2 DEF DictSetNew, TypeOK, Slots
  <2> QED
    BY <1>2, <2>3, StoredAreRecords DEF DictSetNew, SetReturn, TypeOK, Slots
<1>3. CASE DictUpdate
  <2>1. records' \in [DictSlots -> Records]
    BY <1>3, DictRoomIsSlot DEF DictUpdate, TypeOK, Slots
  <2>2. count' \in [Refs -> Int] /\ disposed' \subseteq Refs
    BY <1>3, OnceType, JSON_freeType DEF DictUpdate
  <2> QED
    BY <1>3, <2>1, <2>2, StoredAreRecords DEF DictUpdate, SetReturn, TypeOK, Slots
<1>4. CASE DictConvert
  <2>1. 2 * Delta - 1 \in 0 .. MaxRecords - 1
    BY SizesAssumption
  <2>2. records' \in [0 .. 2 * Delta - 1 -> Records]
    BY <1>4, StoredAreRecords DEF DictConvert, Resize
  <2> QED
    BY <1>4, <2>1, <2>2 DEF DictConvert, Resize, TypeOK, Slots, NoHashes
<1>5. ASSUME NEW r \in Records, api = "hash", Add(r) \/ Update(r)
      PROVE  /\ records' \in [0 .. record_size_mask -> Records]
             /\ used_size' \in Int
             /\ count' \in [Refs -> Int] /\ disposed' \subseteq Refs
  <2>1. records' \in [0 .. record_size_mask -> Records]
    BY <1>5, RoomForIsSlot DEF Add, Update, TypeOK, Slots
  <2>2. CASE Add(r)
    BY <2>1, <2>2 DEF Add, TypeOK
  <2>3. CASE Update(r)
    BY <2>1, <2>3, OnceType, JSON_freeType DEF Update, TypeOK
  <2> QED
    BY <1>5, <2>2, <2>3
<1>6. CASE HashSet
  <2>1. rec \in Records /\ api = "hash" /\ (Add(rec) \/ Update(rec))
    BY <1>6 DEF HashSet, TypeOK
  <2> QED
    BY <1>5, <1>6, <2>1, StoredAreRecords DEF HashSet, SetReturn, TypeOK, Slots
<1>7. CASE HashGrow
  <2>1. record_size_mask \in Nat /\ 4 * (record_size_mask + 1) - 1 \in 0 .. MaxRecords - 1
    BY <1>7, SizesAssumption DEF HashGrow, TypeOK
  <2>2. records' \in [0 .. 4 * (record_size_mask + 1) - 1 -> Records]
    BY <1>7, StoredAreRecords DEF HashGrow, Resize
  <2> QED
    BY <1>7, <2>1, <2>2 DEF HashGrow, Resize, TypeOK, Slots
<1>8. CASE Rehash
  <2>1. head[i] \in Records /\ api = "hash" /\ i' \in Nat
    BY <1>8 DEF Rehash, TypeOK
  <2>2. CASE Add(head[i]) \/ Update(head[i])
    BY <1>5, <1>8, <2>1, <2>2 DEF Rehash, TypeOK, Slots
  <2>3. CASE UNCHANGED <<records, used_size, refs>>
    BY <1>8, <2>1, <2>3 DEF Rehash, TypeOK, Slots
  <2> QED
    BY <1>8, <2>2, <2>3 DEF Rehash
<1>9. CASE RehashDone
  BY <1>9 DEF RehashDone, TypeOK, Slots, NoRecords
<1>10. ASSUME NEW k \in Removable, Remove(k)
       PROVE  TypeOK'
  <2>1. k \in Keys /\ SlotOf(k) \in DOMAIN records
    BY <1>10, KeysAssumption, SlotOfIsSlot DEF Remove
  <2>2. records' \in [Slots -> Records]
    BY <1>10, <2>1 DEF Remove, Removed, TypeOK, Records
  <2>3. count' \in [Refs -> Int] /\ disposed' \subseteq Refs
    BY <1>10, OnceType, JSON_freeType DEF Remove
  <2> QED
    BY <1>10, <2>2, <2>3 DEF Remove, TypeOK, Slots
<1>11. ASSUME NEW k \in Keys, Get(k)
       PROVE  TypeOK'
  <2>1. ret' \in Values \cup {NoValue} \cup Int
    BY <1>11, SlotOfIsSlot DEF Get, Lookup, TypeOK, Records
  <2> QED
    BY <1>11, <2>1 DEF Get, TypeOK, Slots
<1>12. CASE Length
  BY <1>12 DEF Length, TypeOK, Slots
<1>13. CASE Free
  <2> DEFINE n == [x \in Refs |-> IF api = "hash" /\ x \in Values THEN 0
                                  ELSE Cardinality(Holding(Released, x))]
  <2>1. ASSUME NEW x PROVE Cardinality(Holding(Released, x)) \in Nat
    <3>1. IsFiniteSet(Visited)
      <4>1. IsFiniteSet(0 .. used_size - 1) /\ IsFiniteSet(0 .. record_size_mask)
        <5>1. 0 \in Int /\ used_size - 1 \in Int /\ record_size_mask \in Int
          BY SizesAssumption DEF TypeOK
        <5> QED
          BY <5>1, FS_Interval
      <4>2. Visited = 0 .. used_size - 1 \/ Visited \subseteq 0 .. record_size_mask
        <5>1. api = "hash" => DOMAIN records = 0 .. record_size_mask
          BY DEF TypeOK, Slots, Mask
        <5>2. api \in {"dict", "hash"}
          BY <1>13 DEF Free, Idle, TypeOK
        <5> QED
          BY <5>1, <5>2 DEF Visited, LiveSlots
      <4> QED
        BY <4>1, <4>2, FS_Subset
    <3>2. Holding(Released, x) \subseteq Visited
      BY DEF Holding, Released
    <3> QED
      BY <3>1, <3>2, FS_Subset, FS_CardinalityType
  <2>2. n \in [Refs -> Nat]
    BY <2>1
  <2>3. count' \in [Refs -> Int] /\ disposed' \subseteq Refs
    BY <1>13, <2>2, JSON_freeType DEF Free
  <2> QED
    <3>1. api' = "freed" /\ records' \in [{} -> Records] /\ hash_list' \in [{} -> Nat]
      BY <1>13 DEF Free, NoRecords, NoHashes
    <3>2. Slots' = {}
      BY <3>1 DEF Slots
    <3>3. pc = "idle" /\ UNCHANGED <<used_size, record_size_mask, pc, rec, head, i, ret>>
      BY <1>13 DEF Free, Idle
    <3> QED
      BY <2>3, <3>1, <3>2, <3>3 DEF TypeOK
<1>14. CASE Fault
  BY <1>14 DEF Fault, TypeOK, Slots
<1>15. CASE UNCHANGED vars
  BY <1>15 DEF vars, TypeOK, Slots
<1> QED
  BY <1>1, <1>2, <1>3, <1>4, <1>6, <1>7, <1>8, <1>9, <1>10, <1>11, <1>12, <1>13,
     <1>14, <1>15
  DEF Next, Insert, DictSetFault, HashGrowFault, LookupFault, FreeFault, Done

\* Every variable of the map keeps its type, in every execution: the searches
\* stay inside the table and the table has the slots its mask says.
THEOREM Typing == Spec => []TypeOK
<1> QED
  BY TypeInit, TypeNext, PTL DEF Spec
-----------------------------------------------------------------------------
\* Storing a record puts it where hashmap_get will look for it.
LEMMA StoreWithinProbe ==
  ASSUME TypeOK, WithinProbe, api = "hash", NEW r \in Records, Room(r) # {},
         records' = [records EXCEPT ![RoomFor(r)] = r],
         UNCHANGED <<api, record_size_mask>>
  PROVE  WithinProbe'
<1> SUFFICES ASSUME NEW j \in DOMAIN records, records'[j].hash # 0
             PROVE  \E d \in Probes : j = Probe(records'[j].hash, d)
  <2>1. DOMAIN records' = DOMAIN records
    OBVIOUS
  <2> QED
    BY <2>1 DEF WithinProbe, LiveSlots, Probe, Mask
<1>1. CASE j = RoomFor(r)
  <2>1. Min(Room(r)) \in Probes
    BY MinIsMember, SizesAssumption DEF Room, Probes
  <2>2. records'[j] = r
    BY <1>1 DEF TypeOK
  <2> QED
    BY <1>1, <2>1, <2>2 DEF RoomFor, Probe, Mask
<1>2. CASE j # RoomFor(r)
  <2>1. records'[j] = records[j]
    BY <1>2 DEF TypeOK
  <2>2. PICK d \in Probes : j = Probe(records[j].hash, d)
    BY <2>1 DEF WithinProbe, LiveSlots
  <2> QED
    BY <2>1, <2>2 DEF Probe, Mask
<1> QED
  BY <1>1, <1>2

\* A step that leaves the table, or only clears hashes in it, keeps the rest.
LEMMA KeepWithinProbe ==
  ASSUME WithinProbe, UNCHANGED <<api, record_size_mask>>,
         DOMAIN records' = DOMAIN records,
         \A j \in DOMAIN records : records'[j].hash \in {0, records[j].hash}
  PROVE  WithinProbe'
<1> SUFFICES ASSUME api = "hash", NEW j \in DOMAIN records, records'[j].hash # 0
             PROVE  \E d \in Probes : j = Probe(records'[j].hash, d)
  BY DEF WithinProbe, LiveSlots, Probe, Mask
<1>1. records'[j].hash = records[j].hash /\ j \in LiveSlots
  BY DEF LiveSlots
<1> QED
  BY <1>1 DEF WithinProbe, Probe, Mask

LEMMA WithinProbeNext == TypeOK /\ WithinProbe /\ [Next]_vars => WithinProbe'
<1> SUFFICES ASSUME TypeOK, WithinProbe, [Next]_vars PROVE WithinProbe'
  OBVIOUS
<1> USE DEF table, refs
<1>1. ASSUME UNCHANGED <<api, records, record_size_mask>>
      PROVE  WithinProbe'
  BY <1>1, KeepWithinProbe
<1>2. ASSUME api' # "hash"
      PROVE  WithinProbe'
  BY <1>2 DEF WithinProbe
<1>3. ASSUME NEW n, Resize(n)
      PROVE  WithinProbe'
  BY <1>3 DEF Resize, WithinProbe, LiveSlots, Empty
<1>4. ASSUME api = "hash", NEW r \in Records, Add(r) \/ Update(r),
             UNCHANGED <<api, record_size_mask>>
      PROVE  WithinProbe'
  BY <1>4, StoreWithinProbe DEF Add, Update
<1>5. CASE HashSet
  BY <1>4, <1>5 DEF HashSet, SetReturn, TypeOK
<1>6. CASE Rehash
  <2>1. head[i] \in Records /\ api = "hash"
    BY <1>6 DEF Rehash, TypeOK
  <2> QED
    BY <1>1, <1>4, <1>6, <2>1 DEF Rehash
<1>7. ASSUME NEW k \in Removable, Remove(k)
      PROVE  WithinProbe'
  <2>1. /\ records' = [records EXCEPT ![SlotOf(k)].hash = 0, ![SlotOf(k)].k = NULL]
        /\ UNCHANGED <<api, record_size_mask>>
    BY <1>7 DEF Remove, Removed
  <2>2. \A j \in DOMAIN records : records'[j].hash \in {0, records[j].hash}
    BY <2>1 DEF TypeOK, Records
  <2> QED
    BY <2>1, <2>2, KeepWithinProbe DEF TypeOK
<1>8. CASE DictSetNew \/ DictUpdate
  BY <1>2, <1>8 DEF DictSetNew, DictUpdate, SetReturn
<1> QED
  BY <1>1, <1>2, <1>3, <1>5, <1>6, <1>7, <1>8
  DEF Next, Insert, SetCall, DictSetFault, DictConvert, HashGrow, HashGrowFault,
      RehashDone, Get, LookupFault, Length, Free, FreeFault, Done, Fault, vars

\* Whatever is set, removed, moved or dropped, every member of a hashmap stays
\* within the Delta slots that hashmap_get inspects.
THEOREM MembersWithinProbe == Spec => []WithinProbe
<1>1. Init => WithinProbe
  BY DEF Init, WithinProbe, LiveSlots, Empty
<1> QED
  BY <1>1, TypeInit, TypeNext, WithinProbeNext, PTL DEF Spec
-----------------------------------------------------------------------------
(***************************************************************************)
(* What is in the slots.  A slot that is not empty has a key and the hash  *)
(* of that key; a dictmap's own copy of the hash agrees.  The old table is *)
(* there while its records move.                                           *)
(***************************************************************************)
Vacant(r) == r.hash = 0 /\ r.k = NULL

SlotsOK ==
  /\ \A j \in DOMAIN records : records[j] \in Stored \/ Vacant(records[j])
  /\ \A j \in DOMAIN head : head[j] \in Stored \/ Vacant(head[j])
  /\ api = "dict" =>
       \A j \in DictSlots : records[j] \in Stored => hash_list[j] = records[j].hash

HeadOK == /\ \E n \in Nat : DOMAIN head = 0 .. n - 1
          /\ pc # "rehash" => head = NoRecords

\* Keys and NULL differ, so that what is live has a key.
LEMMA StoredNotVacant == \A r : ~ (r \in Stored /\ Vacant(r))
  BY StoredKey, KeysAssumption DEF Vacant

\* Storing a record in a slot of the table keeps SlotsOK.
LEMMA SlotsStore ==
  ASSUME TypeOK, SlotsOK, api = "hash", NEW r \in Stored, NEW s \in DOMAIN records,
         records' = [records EXCEPT ![s] = r], UNCHANGED <<api, head>>
  PROVE  SlotsOK'
<1>1. DOMAIN records' = DOMAIN records /\ records'[s] = r
      /\ \A j \in DOMAIN records : j # s => records'[j] = records[j]
  BY DEF TypeOK
<1> QED
  BY <1>1 DEF SlotsOK

LEMMA SlotsNext == TypeOK /\ SlotsOK /\ HeadOK /\ [Next]_vars => SlotsOK' /\ HeadOK'
<1> SUFFICES ASSUME TypeOK, SlotsOK, HeadOK, [Next]_vars
             PROVE  SlotsOK' /\ HeadOK'
  OBVIOUS
<1> USE DEF table, refs
<1>1. ASSUME UNCHANGED <<api, records, hash_list, head>>,
             pc' = pc \/ (pc # "rehash" /\ pc' # "rehash")
      PROVE  SlotsOK' /\ HeadOK'
  BY <1>1 DEF SlotsOK, HeadOK
<1>2. CASE DictSetNew \/ DictUpdate
  <2>1. api = "dict" /\ UNCHANGED <<api, head>> /\ pc = "set" /\ pc' = "idle"
    BY <1>2 DEF DictSetNew, DictUpdate, SetReturn
  <2>2. HeadOK'
    BY <2>1 DEF HeadOK
  <2> DEFINE j == Min(DictRoom(rec))
  <2>3. j \in DictSlots /\ rec \in Stored /\ j \in DictRoom(rec)
    BY <1>2, <2>1, DictRoomIsSlot DEF DictSetNew, DictUpdate, TypeOK
  <2>4. records' = [records EXCEPT ![j] = rec]
        /\ (hash_list' = [hash_list EXCEPT ![j] = rec.hash]
            \/ (hash_list' = hash_list /\ hash_list[j] # 0))
    BY <1>2 DEF DictSetNew, DictUpdate
  <2> HIDE DEF j
  <2>5. hash_list'[j] = rec.hash /\ records'[j] = rec
    BY <2>1, <2>3, <2>4 DEF DictRoom, TypeOK, Slots
  <2>6. \A l \in DictSlots : l # j => hash_list'[l] = hash_list[l] /\ records'[l] = records[l]
    BY <2>1, <2>3, <2>4 DEF TypeOK, Slots
  <2>7. DOMAIN records' = DictSlots /\ DOMAIN records = DictSlots
    BY <2>1, <2>4 DEF TypeOK, Slots
  <2>8. SlotsOK'
    BY <2>1, <2>3, <2>5, <2>6, <2>7 DEF SlotsOK
  <2> QED
    BY <2>2, <2>8
<1>3. ASSUME NEW n \in Nat, Resize(n), api' = "hash"
      PROVE  SlotsOK' /\ HeadOK'
  <2>1. \A l \in DOMAIN records' : Vacant(records'[l])
    BY <1>3 DEF Resize, Vacant, Empty
  <2>2. head' = records /\ pc' = "rehash"
    BY <1>3 DEF Resize
  <2>3. \E m \in Nat : DOMAIN records = 0 .. m - 1
    <3>1. CASE api = "dict"
      BY <3>1, SizesAssumption DEF TypeOK, Slots, DictSlots
    <3>2. CASE api = "hash"
      <4>1. Mask \in Nat
        BY SizesAssumption DEF TypeOK, Mask
      <4>2. Mask + 1 \in Nat /\ 0 .. Mask = 0 .. (Mask + 1) - 1
        BY <4>1
      <4>3. DOMAIN records = 0 .. Mask
        BY <3>2 DEF TypeOK, Slots
      <4> QED
        BY <4>2, <4>3
    <3>3. CASE api = "freed"
      <4>1. DOMAIN records = {} /\ 0 .. 0 - 1 = {}
        BY <3>3 DEF TypeOK, Slots
      <4> QED
        BY <4>1
    <3> QED
      BY <3>1, <3>2, <3>3 DEF TypeOK
  <2> QED
    BY <1>3, <2>1, <2>2, <2>3 DEF SlotsOK, HeadOK
<1>4. CASE DictConvert
  <2>1. Resize(2 * Delta) /\ api' = "hash" /\ 2 * Delta \in Nat
    BY <1>4, SizesAssumption DEF DictConvert
  <2> QED
    BY <1>3, <2>1
<1>5. CASE HashGrow
  <2>1. Resize(4 * (Mask + 1)) /\ api' = "hash" /\ 4 * (Mask + 1) \in Nat
    BY <1>5, SizesAssumption DEF HashGrow, TypeOK, Mask
  <2> QED
    BY <1>3, <2>1
<1>6. ASSUME NEW r \in Stored, api = "hash", Add(r) \/ Update(r), UNCHANGED <<api, head>>
      PROVE  SlotsOK'
  <2>1. r \in Records /\ Room(r) # {} /\ records' = [records EXCEPT ![RoomFor(r)] = r]
    BY <1>6, StoredAreRecords DEF Add, Update
  <2> QED
    BY <1>6, <2>1, RoomForIsSlot, SlotsStore
<1>7. CASE HashSet
  <2>1. rec \in Stored /\ api = "hash" /\ UNCHANGED <<api, head>> /\ pc' = "idle" /\ pc = "set"
    BY <1>7 DEF HashSet, SetReturn, TypeOK
  <2> QED
    BY <1>6, <1>7, <2>1 DEF HashSet, HeadOK
<1>8. CASE Rehash
  <2>1. UNCHANGED <<api, head, hash_list, pc>> /\ pc = "rehash" /\ api = "hash"
    BY <1>8 DEF Rehash, TypeOK
  <2>2. CASE UNCHANGED records
    BY <1>1, <2>1, <2>2
  <2>3. CASE head[i].hash # 0 /\ (Add(head[i]) \/ Update(head[i]))
    <3>1. head[i] \in Stored
      BY <1>8, <2>3 DEF Rehash, SlotsOK, Vacant
    <3> QED
      BY <1>6, <1>8, <2>1, <2>3, <3>1 DEF Rehash, HeadOK
  <2> QED
    BY <1>8, <2>2, <2>3 DEF Rehash
<1>9. CASE RehashDone
  <2>1. head' = NoRecords /\ UNCHANGED <<api, records, hash_list>>
    BY <1>9 DEF RehashDone
  <2>2. DOMAIN NoRecords = 0 .. 0 - 1
    BY DEF NoRecords
  <2> QED
    BY <2>1, <2>2 DEF SlotsOK, HeadOK
<1>10. ASSUME NEW k \in Removable, Remove(k)
       PROVE  SlotsOK' /\ HeadOK'
  <2> DEFINE s == SlotOf(k)
  <2>1. /\ records' = [records EXCEPT ![s] = Removed(records[s])]
        /\ UNCHANGED <<api, hash_list, pc, head>>
    BY <1>10 DEF Remove
  <2>2. s \in DOMAIN records
    BY <1>10, SlotOfIsSlot, KeysAssumption DEF Remove
  <2> HIDE DEF s
  <2>3. records[s] \in Records
    BY <2>2 DEF TypeOK
  <2>4. Vacant(records'[s]) /\ DOMAIN records' = DOMAIN records
        /\ \A j \in DOMAIN records : j # s => records'[j] = records[j]
    BY <2>1, <2>2, <2>3 DEF Removed, Vacant, Records
  <2>5. DOMAIN records' = DictSlots \/ api # "dict"
    BY <2>4 DEF TypeOK, Slots
  <2>6. SlotsOK'
    BY <2>1, <2>4, <2>5, StoredNotVacant DEF SlotsOK
  <2> QED
    BY <2>1, <2>6 DEF HeadOK
<1>11. CASE Free
  <2>1. api' = "freed" /\ records' = NoRecords /\ UNCHANGED <<head, pc>>
    BY <1>11 DEF Free
  <2> QED
    BY <2>1 DEF SlotsOK, HeadOK, NoRecords
<1>12. ASSUME NEW p \in Pairs, SetCall(p)
       PROVE  SlotsOK' /\ HeadOK'
  BY <1>1, <1>12 DEF SetCall, Idle
<1>13. ASSUME Fault, pc # "rehash"
       PROVE  SlotsOK' /\ HeadOK'
  BY <1>1, <1>13 DEF Fault
<1>14. CASE Length \/ UNCHANGED vars \/ \E k \in Keys : Get(k)
  BY <1>1, <1>14 DEF Length, Get, vars
<1> QED
  BY <1>2, <1>4, <1>5, <1>7, <1>8, <1>9, <1>10, <1>11, <1>12, <1>13, <1>14
  DEF Next, Insert, DictSetFault, HashGrowFault, LookupFault, FreeFault, Done, Idle

LEMMA SlotsInit == Init => SlotsOK /\ HeadOK
<1> SUFFICES ASSUME Init PROVE SlotsOK /\ HeadOK
  OBVIOUS
<1>1. \A j \in DOMAIN records : Vacant(records[j])
  BY DEF Init, Empty, Vacant
<1>2. head = NoRecords /\ DOMAIN NoRecords = 0 .. 0 - 1
  BY DEF Init, NoRecords
<1>3. api = "dict" => \A j \in DictSlots : j \in DOMAIN records
  BY DEF Init
<1> QED
  BY <1>1, <1>2, <1>3, StoredNotVacant DEF SlotsOK, HeadOK

\* What holds in every reachable state, whatever the hash function and the keys.
LEMMA Sound == Spec => [](TypeOK /\ SlotsOK /\ HeadOK)
<1> QED
  BY TypeInit, TypeNext, SlotsInit, SlotsNext, PTL DEF Spec
-----------------------------------------------------------------------------
(***************************************************************************)
(* An insertion reads back.                                                *)
(***************************************************************************)
LEMMA MinIs ==
  ASSUME NEW S, S \subseteq Nat, NEW x \in S, \A y \in S : x <= y
  PROVE  Min(S) = x
<1>1. Min(S) \in S /\ Min(S) <= x /\ x <= Min(S)
  BY MinIsMember
<1>2. Min(S) \in Nat /\ x \in Nat
  BY <1>1
<1> HIDE DEF Min
<1> QED
  BY <1>1, <1>2

LEMMA DictReadsBack ==
  ASSUME TypeOK, SlotsOK, NEW k, rec.k = k, DictSetNew \/ DictUpdate
  PROVE  Lookup(k)' = rec.v
<1> DEFINE j == Min(DictRoom(rec))
<1>1. rec \in Stored /\ api = "dict" /\ api' = "dict" /\ rec.hash = HashCode(k)
      /\ rec.k \in Keys
  BY StoredKey DEF DictSetNew, DictUpdate, SetReturn, TypeOK
<1>2. j \in DictRoom(rec) /\ j \in DictSlots /\ \A l \in DictRoom(rec) : j <= l
  <2>1. DictRoom(rec) \subseteq Nat /\ DictRoom(rec) # {}
    BY SizesAssumption DEF DictRoom, DictSlots, DictSetNew, DictUpdate
  <2> QED
    BY <2>1, MinIsMember DEF DictRoom
<1>3. /\ records' = [records EXCEPT ![j] = rec]
      /\ \/ hash_list' = [hash_list EXCEPT ![j] = rec.hash]
         \/ hash_list' = hash_list /\ hash_list[j] # 0
  BY DEF DictSetNew, DictUpdate
<1> HIDE DEF j
<1>4. hash_list'[j] = rec.hash /\ records'[j] = rec
  BY <1>1, <1>2, <1>3 DEF DictRoom, TypeOK, Slots
<1>5. \A l \in DictSlots : l # j => hash_list'[l] = hash_list[l] /\ records'[l] = records[l]
  BY <1>1, <1>2, <1>3 DEF TypeOK, Slots
<1>6. Scan(k)' = {l \in DictSlots : hash_list'[l] = HashCode(k) /\ Stops(records'[l].k, k)}
  BY <1>1 DEF Scan
<1>7. j \in Scan(k)'
  BY <1>1, <1>2, <1>4, <1>6 DEF Stops, Equal
<1>8. ASSUME NEW l \in Scan(k)' PROVE j <= l
  <2>1. CASE l = j
    BY <1>2, <2>1, SizesAssumption DEF DictSlots
  <2>2. CASE l # j
    BY <1>1, <1>2, <1>5, <1>6, <1>8, <2>2 DEF DictRoom
  <2> QED
    BY <2>1, <2>2
<1>9. Min(Scan(k)') = j
  <2>1. Scan(k)' \subseteq Nat
    BY <1>6, SizesAssumption DEF DictSlots
  <2> QED
    BY <1>7, <1>8, <2>1, MinIs
<1> QED
  BY <1>1, <1>4, <1>7, <1>9 DEF Lookup, SlotOf

LEMMA HashReadsBack ==
  ASSUME TypeOK, SlotsOK, NEW k, rec.k = k, HashSet
  PROVE  Lookup(k)' = rec.v
<1> DEFINE m == Min(Room(rec))
           At(d) == Probe(rec.hash, d)
<1>1. rec \in Stored /\ rec \in Records /\ api = "hash" /\ api' = "hash"
      /\ rec.hash = HashCode(k) /\ rec.k \in Keys /\ record_size_mask' = record_size_mask
      /\ Room(rec) # {} /\ records' = [records EXCEPT ![At(m)] = rec]
  BY StoredKey, StoredAreRecords DEF HashSet, SetReturn, TypeOK, Add, Update, RoomFor
<1>2. m \in Room(rec) /\ m \in Probes /\ \A d \in Room(rec) : m <= d
  <2>1. Room(rec) \subseteq Nat
    BY SizesAssumption DEF Room, Probes
  <2> QED
    BY <1>1, <2>1, MinIsMember DEF Room
<1>3. At(m) \in DOMAIN records
  BY <1>1, RoomForIsSlot DEF RoomFor
<1> HIDE DEF m
<1>4. Scan(k)' = {d \in Probes : records'[At(d)].hash = rec.hash /\ Stops(records'[At(d)].k, k)}
  BY <1>1 DEF Scan, Probe, Mask
<1>5. \A d \in Probes : At(d) \in DOMAIN records
  <2>1. rec.hash \in Nat /\ Probes \subseteq Nat /\ record_size_mask \in Nat
        /\ DOMAIN records = 0 .. record_size_mask
    BY <1>1, SizesAssumption DEF Records, Probes, TypeOK, Slots, Mask
  <2> QED
    BY <2>1, ProbeInTable DEF Probe, Mask
<1>6. records'[At(m)] = rec
  BY <1>1, <1>3
<1>7. m \in Scan(k)'
  BY <1>1, <1>2, <1>4, <1>6 DEF Stops, Equal
<1>8. ASSUME NEW d \in Scan(k)' PROVE m <= d
  <2>1. d \in Probes /\ records'[At(d)].hash = rec.hash /\ Stops(records'[At(d)].k, k)
    BY <1>4, <1>8
  <2>2. CASE At(d) = At(m)
    <3>1. d \in Room(rec)
      BY <1>2, <2>1, <2>2 DEF Room
    <3> QED
      BY <1>2, <3>1
  <2>3. CASE At(d) # At(m)
    <3>1. records'[At(d)] = records[At(d)]
      BY <1>1, <1>5, <2>1, <2>3
    <3>2. records[At(d)] \in Stored \/ Vacant(records[At(d)])
      BY <1>5, <2>1 DEF SlotsOK
    <3>3. d \in Room(rec)
      <4>1. CASE records[At(d)].hash = 0
        BY <2>1, <4>1 DEF Room
      <4>2. CASE records[At(d)] \in Stored
        <5>1. records[At(d)].k # NULL
          BY <4>2, StoredKey, KeysAssumption
        <5> QED
          BY <1>1, <2>1, <3>1, <5>1 DEF Room, Stops, Equal
      <4> QED
        BY <3>2, <4>1, <4>2 DEF Vacant
    <3> QED
      BY <1>2, <3>3
  <2> QED
    BY <2>2, <2>3
<1>9. Min(Scan(k)') = m
  <2>1. Scan(k)' \subseteq Nat
    BY <1>4, SizesAssumption DEF Probes
  <2> QED
    BY <1>2, <1>7, <1>8, <2>1, MinIs DEF Probes
<1>10. SlotOf(k)' = At(m)
  BY <1>1, <1>9 DEF SlotOf, Probe, Mask
<1> QED
  BY <1>6, <1>7, <1>10 DEF Lookup

LEMMA ReadsBackNext ==
  ASSUME TypeOK, SlotsOK, Next
  PROVE  \A k \in Keys : pc = "set" /\ pc' = "idle" /\ rec.k = k => Lookup(k)' = rec.v
<1> SUFFICES ASSUME NEW k \in Keys, pc = "set", pc' = "idle", rec.k = k
             PROVE  Lookup(k)' = rec.v
  OBVIOUS
<1>1. DictSetNew \/ DictUpdate \/ HashSet
  BY DEF Next, Insert, SetCall, DictSetFault, DictConvert, HashGrow, HashGrowFault, Resize,
         Rehash, RehashDone, Remove, Get, LookupFault, Length, Free, FreeFault, Done,
         Fault, Idle, vars
<1> QED
  BY <1>1, DictReadsBack, HashReadsBack

\* Whatever was removed, grown, dropped or duplicated before, and whatever the
\* hash codes are: the slot at which an insertion stores its record is the one
\* where the next lookup of its key stops.
THEOREM InsertionsFound == Spec => SetReadsBack
<1>1. TypeOK /\ SlotsOK /\ HeadOK /\ [Next]_vars =>
        [\A k \in Keys : pc = "set" /\ pc' = "idle" /\ rec.k = k => Lookup(k)' = rec.v]_vars
  BY ReadsBackNext
<1> QED
  BY <1>1, Sound, PTL DEF Spec, SetReadsBack
-----------------------------------------------------------------------------
(***************************************************************************)
(* The members: how many there are, which a move keeps, and the references *)
(* they hold.                                                              *)
(***************************************************************************)

\* No name has the hash code 0, which marks a free slot.
NoZeroHash == \A k \in Keys : HashCode(k) # 0
-----------------------------------------------------------------------------
(***************************************************************************)
(* A move drops no record from a small map.                                *)
(***************************************************************************)
WideEnough == /\ api = "hash" => 4 * (Mask + 1) >= Delta
              /\ pc = "rehash" => Mask + 1 >= Delta

LEMMA Division ==
  ASSUME NEW n \in Nat \ {0}, NEW x \in Nat
  PROVE  x = n * (x \div n) + (x % n) /\ x \div n \in Nat /\ x % n \in 0 .. n - 1
OBVIOUS

\* The slots that a probe inspects in a table that is wide enough differ.
LEMMA ProbesDiffer ==
  ASSUME NEW n \in Nat \ {0}, NEW h \in Nat, NEW d \in 0 .. n - 1, NEW e \in 0 .. n - 1,
         (h + d) % n = (h + e) % n
  PROVE  d = e
<1> DEFINE x == h + d
           y == h + e
<1>1. x \in Nat /\ y \in Nat /\ x % n = y % n
  OBVIOUS
<1>2. x - y = d - e /\ -n < d - e /\ d - e < n
  OBVIOUS
<1> HIDE DEF x, y
<1> DEFINE p == x \div n
           q == y \div n
           r == x % n
<1>3. x = n * p + r /\ y = n * q + r /\ p \in Int /\ q \in Int /\ r \in Int
  BY <1>1, Division
<1> HIDE DEF p, q, r
<1>4. x - y = n * (p - q)
  BY <1>3
<1>5. CASE p - q >= 1
  <2>1. n * (p - q) >= n
    BY <1>3, <1>5
  <2> QED
    BY <1>1, <1>2, <1>4, <2>1
<1>6. CASE p - q <= -1
  <2>1. n * (p - q) <= -n
    BY <1>3, <1>6
  <2> QED
    BY <1>1, <1>2, <1>4, <2>1
<1>7. CASE p - q = 0
  BY <1>2, <1>4, <1>7
<1> QED
  BY <1>3, <1>5, <1>6, <1>7

LEMMA WideInit == Init => WideEnough
<1> SUFFICES ASSUME Init, api = "hash" PROVE 4 * (Mask + 1) >= Delta
  BY DEF Init, WideEnough
<1>1. PICK init \in InitSizes :
        /\ api = IF init > DictThreshold THEN "hash" ELSE "dict"
        /\ record_size_mask = IF init > DictThreshold THEN RoundUp(init) - 1 ELSE 0
  BY DEF Init
<1>2. init \in Nat /\ init >= DictThreshold + 1 /\ Mask = RoundUp(init) - 1
  BY <1>1, SizesAssumption DEF Mask
<1>3. RoundUp(init) \in Nat /\ RoundUp(init) >= init
  BY SizesAssumption
<1> HIDE DEF RoundUp
<1>4. 4 * (DictThreshold + 1) >= Delta /\ DictThreshold \in Nat /\ Delta \in Nat
  BY SizesAssumption
<1> QED
  BY <1>2, <1>3, <1>4

LEMMA WideNext == TypeOK /\ WideEnough /\ [Next]_vars => WideEnough'
<1> SUFFICES ASSUME TypeOK, WideEnough, [Next]_vars PROVE WideEnough'
  OBVIOUS
<1> USE DEF table, refs, Mask
<1>1. ASSUME UNCHANGED <<api, record_size_mask>>, pc' = "rehash" => pc = "rehash"
      PROVE  WideEnough'
  BY <1>1 DEF WideEnough
<1>2. CASE DictConvert
  <2>1. record_size_mask' = 2 * Delta - 1
    BY <1>2 DEF DictConvert, Resize
  <2> QED
    BY <2>1, SizesAssumption DEF WideEnough
<1>3. CASE HashGrow
  <2>1. api = "hash" /\ record_size_mask \in Nat
        /\ record_size_mask' = 4 * (record_size_mask + 1) - 1
    BY <1>3, SizesAssumption DEF HashGrow, Resize, TypeOK
  <2> QED
    BY <2>1, SizesAssumption DEF WideEnough
<1>4. CASE Free
  BY <1>4 DEF Free, Idle, WideEnough
<1>5. CASE Rehash \/ RehashDone
  BY <1>1, <1>5 DEF Rehash, RehashDone
<1>6. CASE DictSetNew \/ DictUpdate \/ HashSet
  BY <1>1, <1>6 DEF DictSetNew, DictUpdate, HashSet, SetReturn
<1>7. CASE Fault
  BY <1>1, <1>7 DEF Fault
<1>8. CASE Length \/ UNCHANGED vars
  BY <1>1, <1>8 DEF Length, vars
<1>9. ASSUME NEW k, Get(k) \/ Remove(k) PROVE WideEnough'
  BY <1>1, <1>9 DEF Get, Remove
<1>10. ASSUME NEW p, SetCall(p) PROVE WideEnough'
  BY <1>1, <1>10 DEF SetCall
<1> QED
  BY <1>2, <1>3, <1>4, <1>5, <1>6, <1>7, <1>8, <1>9, <1>10
  DEF Next, Insert, DictSetFault, HashGrowFault, LookupFault, FreeFault, Done

\* The slots of a table are finitely many.
LEMMA SlotsFinite == TypeOK => IsFiniteSet(DOMAIN records)
<1> SUFFICES ASSUME TypeOK PROVE IsFiniteSet(Slots)
  BY DEF TypeOK
<1>1. DictThreshold - 1 \in Int /\ Mask \in Int /\ 0 \in Int
  BY SizesAssumption DEF TypeOK, Mask
<1>2. IsFiniteSet(0 .. DictThreshold - 1) /\ IsFiniteSet(0 .. Mask)
  BY <1>1, FS_Interval
<1> QED
  BY <1>2, FS_EmptySet DEF TypeOK, Slots, DictSlots

LEMMA FullProbeIsLong ==
  ASSUME TypeOK, SlotsOK, WideEnough, RehashDrops
  PROVE  Cardinality(LiveSlots) >= Delta
<1> DEFINE h == head[i].hash
           f == [d \in Probes |-> Probe(h, d)]
<1>1. api = "hash" /\ h \in Nat /\ Mask \in Nat /\ Delta \in Nat \ {0} /\ Mask + 1 >= Delta
  BY SizesAssumption DEF RehashDrops, TypeOK, Mask, Records, WideEnough
<1>2. DOMAIN records = 0 .. Mask
  BY <1>1 DEF TypeOK, Slots
<1>3. ASSUME NEW d \in Probes PROVE f[d] \in LiveSlots
  <2>1. d \in Nat
    BY <1>1 DEF Probes
  <2>2. Probe(h, d) \in DOMAIN records
    BY <1>1, <1>2, <2>1, ProbeInTable DEF Probe
  <2>3. records[Probe(h, d)].hash # 0
    BY DEF RehashDrops, Room
  <2> QED
    BY <2>2, <2>3 DEF LiveSlots
<1>4. ASSUME NEW d \in Probes, NEW e \in Probes, f[d] = f[e] PROVE d = e
  <2>1. d \in 0 .. (Mask + 1) - 1 /\ e \in 0 .. (Mask + 1) - 1 /\ Mask + 1 \in Nat \ {0}
    BY <1>1 DEF Probes
  <2>2. (h + d) % (Mask + 1) = (h + e) % (Mask + 1)
    BY <1>4 DEF Probe
  <2> HIDE DEF h
  <2> QED
    BY <1>1, <2>1, <2>2, ProbesDiffer
<1>5. f \in Injection(Probes, LiveSlots)
  <2>1. f \in [Probes -> LiveSlots]
    BY <1>3
  <2>2. \A d, e \in DOMAIN f : f[d] = f[e] => d = e
    BY <1>4
  <2> QED
    BY <2>1, <2>2 DEF Injection, IsInjective
<1>6. IsFiniteSet(LiveSlots)
  <2>1. LiveSlots \in SUBSET DOMAIN records
    BY DEF LiveSlots
  <2> QED
    BY <2>1, SlotsFinite, FS_Subset
<1>7. Cardinality(Probes) <= Cardinality(LiveSlots)
  BY <1>5, <1>6, FS_Injection
<1>8. Cardinality(Probes) = Delta
  <2>1. 0 \in Int /\ Delta - 1 \in Int /\ ~ 0 > Delta - 1
    BY <1>1
  <2> QED
    BY <1>1, <2>1, FS_Interval DEF Probes
<1>9. Cardinality(LiveSlots) \in Nat
  BY <1>6, FS_CardinalityType
<1> QED
  BY <1>1, <1>7, <1>8, <1>9

\* Whatever their hash codes: a move that has no room for a record has moved
\* Delta others before it.
THEOREM SmallMapsKept == Spec => []SmallMapsKeepMembers
<1>1. TypeOK /\ SlotsOK /\ HeadOK /\ WideEnough => SmallMapsKeepMembers
  BY FullProbeIsLong DEF SmallMapsKeepMembers
<1> QED
  BY <1>1, Sound, WideInit, WideNext, PTL DEF Spec
-----------------------------------------------------------------------------
(***************************************************************************)
(* The references of the map, step by step.  For each value, a step keeps  *)
(* what the map owns and what is counted, adds one to both, takes one from *)
(* both, or loses a record without giving its reference back.              *)
(***************************************************************************)
Keep(v) == /\ Owned(v)' = Owned(v)
           /\ count'[v] = count[v]
           /\ v \in disposed' <=> v \in disposed

Gain(v) == /\ v \notin disposed /\ v \notin disposed'
           /\ Owned(v)' = Owned(v) + 1
           /\ count'[v] = count[v] + 1

Release(v) == /\ Owned(v) > 0
              /\ Owned(v)' = Owned(v) - 1
              /\ count'[v] = CountAfter(count[v], 1)
              /\ v \in disposed' <=> v \in disposed \/ Disposes(count[v], 1)

Lose(v) == /\ ~ NoZeroHash \/ RehashDrops
           /\ Owned(v)' = Owned(v) - 1
           /\ count'[v] = count[v]
           /\ v \in disposed' <=> v \in disposed

\* Between calls no record waits to be stored.
RecOK == pc = "idle" => rec = Empty

LEMMA RecInit == Init => RecOK
  BY DEF Init, RecOK

LEMMA RecNext == RecOK /\ [Next]_vars => RecOK'
<1> SUFFICES ASSUME RecOK, [Next]_vars PROVE RecOK'
  OBVIOUS
<1> USE DEF table, refs, RecOK
<1>1. CASE Insert
  BY <1>1 DEF Insert, DictSetNew, DictUpdate, DictSetFault, DictConvert, HashSet, HashGrow,
     HashGrowFault, Rehash, RehashDone, Resize, SetReturn, Fault
<1>2. CASE UNCHANGED <<pc, rec>> \/ pc' # "idle"
  BY <1>2
<1> QED
  BY <1>1, <1>2 DEF Next, SetCall, Remove, Get, LookupFault, Length, Free, FreeFault, Done,
     Fault, Idle, vars

\* The records that refer to a value are finitely many.
LEMMA HeldFinite ==
  ASSUME TypeOK, HeadOK, NEW v
  PROVE  /\ IsFiniteSet(Held(v)) /\ Cardinality(Held(v)) \in Nat
         /\ IsFiniteSet(Pending(v)) /\ Cardinality(Pending(v)) \in Nat
<1>1. Held(v) \in SUBSET DOMAIN records
  BY DEF Held
<1>2. IsFiniteSet(DOMAIN head)
  <2>1. PICK n \in Nat : DOMAIN head = 0 .. n - 1
    BY DEF HeadOK
  <2>2. 0 \in Int /\ n - 1 \in Int
    OBVIOUS
  <2> QED
    BY <2>1, <2>2, FS_Interval
<1>3. Pending(v) \in SUBSET DOMAIN head
  BY DEF Pending
<1> QED
  BY <1>1, <1>2, <1>3, SlotsFinite, FS_Subset, FS_CardinalityType

\* Storing r in slot s.
LEMMA StoreHeld ==
  ASSUME TypeOK, HeadOK, NEW v \in Values, NEW r \in Stored, NEW s \in DOMAIN records,
         records' = [records EXCEPT ![s] = r]
  PROVE  Cardinality(Held(v)') = Cardinality(Held(v)) - (IF s \in Held(v) THEN 1 ELSE 0)
                                 + (IF r.v = v THEN 1 ELSE 0)
<1>1. r.k # NULL /\ r.v \in Values
  BY StoredKey, KeysAssumption
<1>2. DOMAIN records' = DOMAIN records /\ records'[s] = r
      /\ \A j \in DOMAIN records : j # s => records'[j] = records[j]
  BY DEF TypeOK
<1> DEFINE H == Held(v) \ {s}
<1>3. IsFiniteSet(H) /\ s \notin H /\ Cardinality(H) \in Nat
      /\ Cardinality(H) = Cardinality(Held(v)) - (IF s \in Held(v) THEN 1 ELSE 0)
  <2>1. IsFiniteSet(Held(v)) /\ Cardinality(Held(v)) \in Nat
    BY HeldFinite
  <2>2. IsFiniteSet(H) /\ Cardinality(H) = IF s \in Held(v) THEN Cardinality(Held(v)) - 1
                                                         ELSE Cardinality(Held(v))
    BY <2>1, FS_RemoveElement
  <2>3. Cardinality(H) \in Nat
    BY <2>2, FS_CardinalityType
  <2> QED
    BY <2>1, <2>2, <2>3
<1>4. CASE r.v = v
  <2>1. Held(v)' = H \cup {s}
    BY <1>1, <1>2, <1>4 DEF Held
  <2>2. Cardinality(H \cup {s}) = Cardinality(H) + 1
    BY <1>3, FS_AddElement
  <2> HIDE DEF H
  <2> QED
    BY <1>3, <1>4, <2>1, <2>2
<1>5. CASE r.v # v
  <2>1. Held(v)' = H
    BY <1>1, <1>2, <1>5 DEF Held
  <2> HIDE DEF H
  <2> QED
    BY <1>3, <1>5, <2>1
<1> QED
  BY <1>4, <1>5

\* A turn of the loop over the old table.
LEMMA PendingTurn ==
  ASSUME TypeOK, HeadOK, NEW v \in Values, i \in DOMAIN head, head' = head, i' = i + 1
  PROVE  Cardinality(Pending(v)') = Cardinality(Pending(v)) - (IF i \in Pending(v) THEN 1 ELSE 0)
<1>1. Pending(v)' = Pending(v) \ {i}
  <2>1. PICK n \in Nat : DOMAIN head = 0 .. n - 1
    BY DEF HeadOK
  <2>2. \A j \in DOMAIN head : j >= i + 1 <=> j >= i /\ j # i
    BY <2>1
  <2> QED
    BY <2>2 DEF Pending
<1>2. IsFiniteSet(Pending(v)) /\ Cardinality(Pending(v)) \in Nat
  BY HeldFinite
<1>3. Cardinality(Pending(v) \ {i}) = IF i \in Pending(v) THEN Cardinality(Pending(v)) - 1
                                                         ELSE Cardinality(Pending(v))
  BY <1>2, FS_RemoveElement
<1> QED
  BY <1>1, <1>2, <1>3

\* Releasing the value of the record in slot s, and taking the record away.
LEMMA Overwritten ==
  ASSUME TypeOK, HeadOK, NEW v \in Values, NEW s \in DOMAIN records, records[s].k # NULL,
         JSON_free(Once(records[s].v)),
         Owned(v)' = Owned(v) - (IF s \in Held(v) THEN 1 ELSE 0)
  PROVE  Keep(v) \/ Release(v)
<1>1. v \in Refs /\ Owned(v) \in Nat
  BY HeldFinite DEF Refs, Owned
<1>2. CASE records[s].v = v
  <2>1. s \in Held(v)
    BY <1>2 DEF Held
  <2>2. Cardinality(Held(v)) > 0
    BY <2>1, HeldFinite, FS_EmptySet
  <2>3. Owned(v) > 0
    BY <2>2, HeldFinite DEF Owned
  <2>4. count'[v] = CountAfter(count[v], 1)
        /\ (v \in disposed' <=> v \in disposed \/ Disposes(count[v], 1))
    BY <1>1, <1>2 DEF JSON_free, Once
  <2> QED
    BY <2>1, <2>3, <2>4 DEF Release
<1>3. CASE records[s].v # v
  <2>1. s \notin Held(v)
    BY <1>3 DEF Held
  <2>2. count'[v] = CountAfter(count[v], 0)
        /\ (v \in disposed' <=> v \in disposed \/ Disposes(count[v], 0))
    BY <1>1, <1>3 DEF JSON_free, Once
  <2>3. count[v] \in Int
    BY <1>1 DEF TypeOK
  <2>4. CountAfter(count[v], 0) = count[v] /\ ~ Disposes(count[v], 0)
    BY <2>3 DEF CountAfter, Disposes
  <2> QED
    BY <1>1, <2>1, <2>2, <2>4 DEF Keep
<1> QED
  BY <1>2, <1>3
\* A record with the hash code 0 goes: it counts as a free slot, but may have a
\* value.
LEMMA GoneRefs ==
  ASSUME TypeOK, HeadOK, NEW v \in Values, NEW s \in DOMAIN records, UNCHANGED refs,
         records[s].hash = 0, records[s] \in Stored \/ Vacant(records[s]),
         Owned(v)' = Owned(v) - (IF s \in Held(v) THEN 1 ELSE 0)
  PROVE  Keep(v) \/ Lose(v)
<1>1. Owned(v) \in Nat
  BY HeldFinite DEF Owned
<1>2. count' = count /\ disposed' = disposed
  BY DEF refs
<1>3. CASE s \in Held(v)
  <2>1. records[s] \in Stored
    BY <1>3 DEF Held, Vacant
  <2>2. ~ NoZeroHash
    BY <2>1, StoredKey DEF NoZeroHash
  <2> QED
    BY <1>1, <1>2, <1>3, <2>2 DEF Lose
<1>4. CASE s \notin Held(v)
  BY <1>1, <1>2, <1>4 DEF Keep
<1> QED
  BY <1>3, <1>4

\* What the map owns after r was stored in slot s, when nothing else holds r.
LEMMA StoreOwned ==
  ASSUME TypeOK, HeadOK, NEW v \in Values, NEW r \in Stored, NEW s \in DOMAIN records,
         records' = [records EXCEPT ![s] = r],
         Cardinality(Pending(v)') \in Int,
         Cardinality(Pending(v)') + (IF rec'.v = v THEN 1 ELSE 0)
           = Cardinality(Pending(v)) + (IF rec.v = v THEN 1 ELSE 0) - (IF r.v = v THEN 1 ELSE 0)
  PROVE  Owned(v)' = Owned(v) - (IF s \in Held(v) THEN 1 ELSE 0)
<1>1. Cardinality(Held(v)') = Cardinality(Held(v)) - (IF s \in Held(v) THEN 1 ELSE 0)
                              + (IF r.v = v THEN 1 ELSE 0)
  BY StoreHeld
<1>2. Cardinality(Held(v)) \in Nat /\ Cardinality(Pending(v)) \in Nat
  BY HeldFinite
<1> QED
  BY <1>1, <1>2 DEF Owned

\* ... and what becomes of the value of the record that was there.
LEMMA StoredRefs ==
  ASSUME TypeOK, SlotsOK, HeadOK, NEW v \in Values, NEW r \in Stored, api = "hash",
         Add(r) \/ Update(r),
         Cardinality(Pending(v)') \in Int,
         Cardinality(Pending(v)') + (IF rec'.v = v THEN 1 ELSE 0)
           = Cardinality(Pending(v)) + (IF rec.v = v THEN 1 ELSE 0) - (IF r.v = v THEN 1 ELSE 0)
  PROVE  Keep(v) \/ Release(v) \/ Lose(v)
<1> DEFINE s == RoomFor(r)
<1>1. Room(r) # {} /\ r \in Records /\ records' = [records EXCEPT ![s] = r]
  BY StoredAreRecords DEF Add, Update
<1>2. s \in DOMAIN records
  BY <1>1, RoomForIsSlot
<1>3. \/ records[s].hash = 0 /\ UNCHANGED refs
      \/ records[s].hash # 0 /\ JSON_free(Once(records[s].v))
  BY DEF Add, Update
<1>4. records[s] \in Stored \/ Vacant(records[s])
  BY <1>2 DEF SlotsOK
<1> HIDE DEF s
<1>5. Owned(v)' = Owned(v) - (IF s \in Held(v) THEN 1 ELSE 0)
  BY <1>1, <1>2, StoreOwned
<1>6. CASE records[s].hash = 0 /\ UNCHANGED refs
  BY <1>2, <1>4, <1>5, <1>6, GoneRefs
<1>7. CASE records[s].hash # 0 /\ JSON_free(Once(records[s].v))
  <2>1. records[s].k # NULL
    BY <1>4, <1>7, StoredKey, KeysAssumption DEF Vacant
  <2> QED
    BY <1>2, <1>5, <1>7, <2>1, Overwritten
<1> QED
  BY <1>3, <1>6, <1>7
\* A step that leaves the records alone.
LEMMA SameOwned ==
  ASSUME NEW v, UNCHANGED <<records, head, i, rec>>
  PROVE  Owned(v)' = Owned(v)
BY DEF Owned, Held, Pending

LEMMA DictRefs ==
  ASSUME TypeOK, SlotsOK, HeadOK, NEW v \in Values, DictSetNew \/ DictUpdate
  PROVE  Keep(v) \/ Release(v) \/ Lose(v)
<1> DEFINE j == Min(DictRoom(rec))
<1>1. /\ api = "dict" /\ rec \in Stored /\ j \in DictSlots /\ j \in DictRoom(rec)
      /\ records' = [records EXCEPT ![j] = rec]
      /\ UNCHANGED <<head, i>> /\ rec' = Empty
  BY DictRoomIsSlot DEF DictSetNew, DictUpdate, SetReturn, TypeOK
<1>2. \/ hash_list[j] = 0 /\ UNCHANGED refs
      \/ hash_list[j] # 0 /\ records[j].k # NULL /\ JSON_free(Once(records[j].v))
  BY DEF DictSetNew, DictUpdate
<1> HIDE DEF j
<1>3. j \in DOMAIN records
  BY <1>1 DEF TypeOK, Slots
<1>4. Owned(v)' = Owned(v) - (IF j \in Held(v) THEN 1 ELSE 0)
  <2>1. Cardinality(Pending(v)') = Cardinality(Pending(v)) /\ Cardinality(Pending(v)) \in Nat
    BY <1>1, HeldFinite DEF Pending
  <2>2. rec'.v # v
    BY <1>1, KeysAssumption DEF Empty
  <2>3. /\ Cardinality(Pending(v)') \in Int
        /\ Cardinality(Pending(v)') + (IF rec'.v = v THEN 1 ELSE 0)
           = Cardinality(Pending(v)) + (IF rec.v = v THEN 1 ELSE 0) - (IF rec.v = v THEN 1 ELSE 0)
    BY <2>1, <2>2
  <2> QED
    BY <1>1, <1>3, <2>3, StoreOwned
<1>5. CASE hash_list[j] = 0 /\ UNCHANGED refs
  <2>1. records[j] \in Stored \/ Vacant(records[j])
    BY <1>3 DEF SlotsOK
  <2>2. records[j].hash = 0
    BY <1>1, <1>5, <2>1 DEF SlotsOK, Vacant
  <2> QED
    BY <1>3, <1>4, <1>5, <2>1, <2>2, GoneRefs
<1>6. CASE hash_list[j] # 0 /\ records[j].k # NULL /\ JSON_free(Once(records[j].v))
  BY <1>3, <1>4, <1>6, Overwritten
<1> QED
  BY <1>2, <1>5, <1>6

LEMMA ResizeRefs ==
  ASSUME TypeOK, HeadOK, NEW v \in Values, pc = "set", NEW n, Resize(n)
  PROVE  Keep(v)
<1>1. head = NoRecords /\ head' = records /\ i' = 0 /\ UNCHANGED <<rec, count, disposed>>
  BY DEF HeadOK, Resize, refs
<1>2. Pending(v) = {}
  BY <1>1 DEF Pending, NoRecords
<1>3. Held(v)' = {}
  BY DEF Resize, Held, Empty
<1>4. Pending(v)' = Held(v)
  <2>1. \A j \in DOMAIN records : j >= 0
    BY SizesAssumption DEF TypeOK, Slots, DictSlots, Mask
  <2> QED
    BY <1>1, <2>1 DEF Pending, Held
<1>5. Cardinality(Held(v)) \in Nat /\ Cardinality({}) = 0
  BY HeldFinite, FS_EmptySet
<1>6. Cardinality(Held(v)') = 0 /\ Cardinality(Pending(v)) = 0
      /\ Cardinality(Pending(v)') = Cardinality(Held(v))
  BY <1>2, <1>3, <1>4, <1>5
<1>7. Owned(v)' = Owned(v)
  BY <1>1, <1>5, <1>6 DEF Owned
<1> QED
  BY <1>1, <1>7 DEF Keep

LEMMA RehashRefs ==
  ASSUME TypeOK, SlotsOK, HeadOK, NEW v \in Values, Rehash
  PROVE  Keep(v) \/ Release(v) \/ Lose(v)
<1>1. i \in DOMAIN head /\ head' = head /\ i' = i + 1 /\ rec' = rec /\ api = "hash"
  BY DEF Rehash, TypeOK
<1>2. Cardinality(Pending(v)') = Cardinality(Pending(v)) - (IF i \in Pending(v) THEN 1 ELSE 0)
      /\ Cardinality(Pending(v)) \in Nat /\ Cardinality(Held(v)) \in Nat
  BY <1>1, PendingTurn, HeldFinite
<1>3. i \in Pending(v) <=> head[i].k # NULL /\ head[i].v = v
  BY <1>1 DEF Pending, TypeOK
<1>4. head[i] \in Stored \/ Vacant(head[i])
  BY <1>1 DEF SlotsOK
<1>5. CASE head[i].hash # 0 /\ (Add(head[i]) \/ Update(head[i]))
  <2>1. head[i] \in Stored
    BY <1>4, <1>5 DEF Vacant
  <2>2. head[i].k # NULL
    BY <2>1, StoredKey, KeysAssumption
  <2>3. Cardinality(Pending(v)') \in Int
        /\ Cardinality(Pending(v)') + (IF rec'.v = v THEN 1 ELSE 0)
            = Cardinality(Pending(v)) + (IF rec.v = v THEN 1 ELSE 0)
              - (IF head[i].v = v THEN 1 ELSE 0)
    BY <1>1, <1>2, <1>3, <2>2
  <2> QED
    BY <1>1, <1>5, <2>1, <2>3, StoredRefs
<1>6. CASE UNCHANGED <<records, used_size, refs>> /\ (head[i].hash = 0 \/ RehashDrops)
  <2>1. Held(v)' = Held(v) /\ count' = count /\ disposed' = disposed
    BY <1>6 DEF Held, refs
  <2>2. Owned(v)' = Owned(v) - (IF i \in Pending(v) THEN 1 ELSE 0) /\ Owned(v) \in Nat
    BY <1>1, <1>2, <2>1 DEF Owned
  <2>3. CASE i \in Pending(v)
    <3>1. ~ NoZeroHash \/ RehashDrops
      <4>1. head[i] \in Stored
        BY <1>3, <1>4, <2>3 DEF Vacant
      <4> QED
        BY <1>6, <4>1, StoredKey DEF NoZeroHash
    <3> QED
      BY <2>1, <2>2, <2>3, <3>1 DEF Lose
  <2>4. CASE i \notin Pending(v)
    BY <2>1, <2>2, <2>4 DEF Keep
  <2> QED
    BY <2>3, <2>4
<1> QED
  BY <1>5, <1>6 DEF Rehash

LEMMA RemoveRefs ==
  ASSUME TypeOK, HeadOK, NEW v \in Values, NEW k \in Removable, Remove(k)
  PROVE  Keep(v) \/ Release(v)
<1> DEFINE s == SlotOf(k)
<1>1. /\ records[s].k # NULL /\ JSON_free(Once(records[s].v))
      /\ records' = [records EXCEPT ![s] = Removed(records[s])]
      /\ UNCHANGED <<rec, head, i>>
  BY DEF Remove
<1>2. s \in DOMAIN records
  BY SlotOfIsSlot, KeysAssumption DEF Remove
<1> HIDE DEF s
<1>3. records'[s].k = NULL /\ DOMAIN records' = DOMAIN records
      /\ \A j \in DOMAIN records : j # s => records'[j] = records[j]
  <2>1. records[s] \in Records
    BY <1>2 DEF TypeOK
  <2> QED
    BY <1>1, <1>2, <2>1 DEF Removed, Records
<1>4. Held(v)' = Held(v) \ {s} /\ Pending(v)' = Pending(v)
  BY <1>1, <1>3 DEF Held, Pending
<1>5. IsFiniteSet(Held(v)) /\ Cardinality(Held(v)) \in Nat /\ Cardinality(Pending(v)) \in Nat
  BY HeldFinite
<1>6. Cardinality(Held(v) \ {s}) = IF s \in Held(v) THEN Cardinality(Held(v)) - 1
                                                    ELSE Cardinality(Held(v))
  BY <1>5, FS_RemoveElement
<1>7. Owned(v)' = Owned(v) - (IF s \in Held(v) THEN 1 ELSE 0)
  BY <1>1, <1>4, <1>5, <1>6 DEF Owned
<1> QED
  BY <1>1, <1>2, <1>7, Overwritten

LEMMA SetCallRefs ==
  ASSUME TypeOK, RecOK, HeadOK, NEW v \in Values, NEW p \in Pairs, SetCall(p)
  PROVE  Keep(v) \/ Gain(v)
<1>1. /\ rec = Empty /\ rec' = Record(p) /\ p.v \notin disposed
      /\ count' = [count EXCEPT ![p.v] = count[p.v] + 1]
      /\ UNCHANGED <<records, head, i, disposed>>
  BY DEF SetCall, RecOK, Idle, table
<1>2. rec.v # v /\ rec'.v = p.v
  BY <1>1, KeysAssumption DEF Empty, Record
<1>3. Held(v)' = Held(v) /\ Pending(v)' = Pending(v)
  BY <1>1 DEF Held, Pending
<1>4. Cardinality(Held(v)) \in Nat /\ Cardinality(Pending(v)) \in Nat
  BY HeldFinite
<1>5. count \in [Refs -> Int] /\ p.v \in Refs /\ v \in Refs
  BY DEF TypeOK, Pairs, Refs
<1>6. CASE p.v = v
  <2>1. Owned(v)' = Owned(v) + 1
    BY <1>2, <1>3, <1>4, <1>6 DEF Owned
  <2> QED
    BY <1>1, <1>5, <1>6, <2>1 DEF Gain
<1>7. CASE p.v # v
  <2>1. Owned(v)' = Owned(v)
    BY <1>2, <1>3, <1>4, <1>7 DEF Owned
  <2> QED
    BY <1>1, <1>5, <1>7, <2>1 DEF Keep
<1> QED
  BY <1>6, <1>7

LEMMA RefsStep ==
  ASSUME TypeOK, SlotsOK, HeadOK, RecOK, [Next]_vars, api' # "freed", NEW v \in Values
  PROVE  Keep(v) \/ Gain(v) \/ Release(v) \/ Lose(v)
<1> USE DEF table, refs
<1>1. ASSUME UNCHANGED <<records, head, i, rec, count, disposed>>
      PROVE  Keep(v)
  BY <1>1, SameOwned DEF Keep
<1>2. CASE Length \/ Fault \/ UNCHANGED vars \/ \E k \in Keys : Get(k)
  BY <1>1, <1>2 DEF Length, Fault, Get, vars
<1>3. CASE DictConvert \/ HashGrow
  BY <1>3, ResizeRefs DEF DictConvert, HashGrow
<1>4. CASE HashSet
  <2>1. api = "hash" /\ rec \in Stored /\ rec' = Empty /\ UNCHANGED <<head, i>>
    BY <1>4 DEF HashSet, SetReturn, TypeOK
  <2>2. Cardinality(Pending(v)') = Cardinality(Pending(v)) /\ Cardinality(Pending(v)) \in Nat
    BY <2>1, HeldFinite DEF Pending
  <2>3. rec'.v # v
    BY <2>1, KeysAssumption DEF Empty
  <2> QED
    BY <1>4, <2>1, <2>2, <2>3, StoredRefs DEF HashSet
<1>5. CASE RehashDone
  <2>1. head' = NoRecords /\ i \notin DOMAIN head /\ i \in Nat
        /\ UNCHANGED <<records, rec, count, disposed>>
    BY <1>5 DEF RehashDone, TypeOK
  <2>2. Pending(v) = {}
    <3>1. PICK n \in Nat : DOMAIN head = 0 .. n - 1
      BY DEF HeadOK
    <3> QED
      BY <2>1, <3>1 DEF Pending
  <2>3. Pending(v)' = {} /\ Held(v)' = Held(v)
    BY <2>1 DEF Pending, Held, NoRecords
  <2> QED
    BY <2>1, <2>2, <2>3 DEF Keep, Owned
<1>6. CASE Free
  BY <1>6 DEF Free
<1> QED
  BY <1>2, <1>3, <1>4, <1>5, <1>6, DictRefs, RehashRefs, RemoveRefs, SetCallRefs
  DEF Next, Insert, DictSetFault, HashGrowFault, LookupFault, FreeFault, Done

\* What NoneDangling needs to be inductive: it says nothing of the count of a
\* value that the map does not own, which the next insertion starts from.
Covered == api # "freed" =>
             \A v \in Values : /\ v \notin disposed => count[v] >= Owned(v)
                               /\ Owned(v) > 0 => v \notin disposed

LEMMA CoveredInit == Init => Covered /\ NoneLeaked
<1> SUFFICES ASSUME Init, NEW v \in Values
             PROVE  Owned(v) = 0 /\ count[v] = 0 /\ disposed = {}
  BY DEF Covered, NoneLeaked
<1>1. Held(v) = {} /\ Pending(v) = {} /\ rec.v # v
  BY KeysAssumption DEF Init, Held, Pending, Empty, NoRecords
<1>2. count[v] = 0 /\ disposed = {}
  BY DEF Init, Refs
<1> QED
  BY <1>1, <1>2, FS_EmptySet DEF Owned

LEMMA CoveredNext ==
  ASSUME TypeOK, SlotsOK, HeadOK, RecOK, Covered, [Next]_vars
  PROVE  Covered'
<1> SUFFICES ASSUME api' # "freed", NEW v \in Values
             PROVE  /\ v \notin disposed' => count'[v] >= Owned(v)'
                    /\ Owned(v)' > 0 => v \notin disposed'
  BY DEF Covered
<1>1. Owned(v) \in Nat /\ count[v] \in Int
  BY HeldFinite DEF Owned, TypeOK, Refs
<1>2. /\ v \notin disposed => count[v] >= Owned(v)
      /\ Owned(v) > 0 => v \notin disposed
  <2>1. api # "freed"
    BY DEF Next, Insert, SetCall, DictSetNew, DictUpdate, DictSetFault, DictConvert, HashSet,
       HashGrow, HashGrowFault, Rehash, RehashDone, Remove, Get, LookupFault, Length, Free,
       FreeFault, Done, Idle, vars, TypeOK
  <2> QED
    BY <2>1 DEF Covered
<1>3. Keep(v) \/ Gain(v) \/ Release(v) \/ Lose(v)
  BY RefsStep
<1>4. CASE Keep(v)
  BY <1>1, <1>2, <1>4 DEF Keep
<1>5. CASE Gain(v)
  BY <1>1, <1>2, <1>5 DEF Gain
<1>6. CASE Release(v)
  BY <1>1, <1>2, <1>6 DEF Release, CountAfter, Disposes
<1>7. CASE Lose(v)
  BY <1>1, <1>2, <1>7 DEF Lose
<1> QED
  BY <1>3, <1>4, <1>5, <1>6, <1>7
LEMMA AllCovered == Spec => [](TypeOK /\ SlotsOK /\ HeadOK /\ RecOK /\ Covered)
<1>1. Init => RecOK /\ Covered
  BY RecInit, CoveredInit
<1>2. TypeOK /\ SlotsOK /\ HeadOK /\ RecOK /\ Covered /\ [Next]_vars => RecOK' /\ Covered'
  BY RecNext, CoveredNext
<1> QED
  BY <1>1, <1>2, Sound, PTL DEF Spec

\* Whatever the hash codes are and whatever a move drops: no update, removal or
\* free disposes of a value that the map still refers to.
THEOREM NeverDangling == Spec => []NoneDangling
<1>1. TypeOK /\ SlotsOK /\ HeadOK /\ RecOK /\ Covered => NoneDangling
  BY DEF Covered, NoneDangling
<1> QED
  BY <1>1, AllCovered, PTL

LEMMA NoneLeakedNext ==
  ASSUME NoZeroHash, ~ RehashDrops,
         TypeOK, SlotsOK, HeadOK, RecOK, Covered, NoneLeaked, [Next]_vars
  PROVE  NoneLeaked'
<1> SUFFICES ASSUME api' # "freed", NEW v \in Values, v \notin disposed'
             PROVE  count'[v] = Owned(v)'
  BY DEF NoneLeaked
<1>1. Owned(v) \in Nat /\ count[v] \in Int
  BY HeldFinite DEF Owned, TypeOK, Refs
<1>2. Keep(v) \/ Gain(v) \/ Release(v)
  BY RefsStep DEF Lose
<1>3. v \notin disposed
  BY <1>2 DEF Keep, Gain, Release
<1>4. count[v] = Owned(v)
  <2>1. api # "freed"
    BY DEF Next, Insert, SetCall, DictSetNew, DictUpdate, DictSetFault, DictConvert, HashSet,
       HashGrow, HashGrowFault, Rehash, RehashDone, Remove, Get, LookupFault, Length, Free,
       FreeFault, Done, Idle, vars, TypeOK
  <2> QED
    BY <1>3, <2>1 DEF NoneLeaked
<1>5. CASE Release(v)
  BY <1>1, <1>4, <1>5 DEF Release, CountAfter, Disposes
<1> QED
  BY <1>1, <1>2, <1>4, <1>5 DEF Keep, Gain

\* When no name has the hash code 0 and no move drops a record, the map owns
\* exactly the references that are counted for it.
THEOREM NothingLeaked == NoZeroHash => (Spec /\ []~RehashDrops => []NoneLeaked)
<1> SUFFICES ASSUME NoZeroHash PROVE Spec /\ []~RehashDrops => []NoneLeaked
  OBVIOUS
<1>1. Init => NoneLeaked
  BY CoveredInit
<1>2. TypeOK /\ SlotsOK /\ HeadOK /\ RecOK /\ Covered /\ NoneLeaked /\ ~RehashDrops
        /\ [Next]_vars => NoneLeaked'
  BY NoneLeakedNext
<1> QED
  BY <1>1, <1>2, AllCovered, PTL DEF Spec
-----------------------------------------------------------------------------
(***************************************************************************)
(* used_size.                                                              *)
(***************************************************************************)
\* Storing r in slot s makes it live.
LEMMA StoreLive ==
  ASSUME NoZeroHash, TypeOK, NEW r \in Stored, NEW s \in DOMAIN records,
         records' = [records EXCEPT ![s] = r]
  PROVE  LiveSlots' = LiveSlots \cup {s}
<1>1. DOMAIN records' = DOMAIN records /\ records'[s] = r
      /\ \A j \in DOMAIN records : j # s => records'[j] = records[j]
  BY DEF TypeOK
<1>2. r.hash # 0
  BY StoredKey DEF NoZeroHash
<1> QED
  BY <1>1, <1>2 DEF LiveSlots

LEMMA LiveFinite == TypeOK => IsFiniteSet(LiveSlots) /\ Cardinality(LiveSlots) \in Nat
<1>1. LiveSlots \in SUBSET DOMAIN records
  BY DEF LiveSlots
<1> QED
  BY <1>1, SlotsFinite, FS_Subset, FS_CardinalityType

\* Storing r in a free slot, and over a record.
LEMMA StoreCounted ==
  ASSUME NoZeroHash, TypeOK, NEW r \in Stored, NEW s \in DOMAIN records,
         records' = [records EXCEPT ![s] = r],
         used_size = Cardinality(LiveSlots),
         used_size' = used_size + (IF records[s].hash = 0 THEN 1 ELSE 0)
  PROVE  used_size' = Cardinality(LiveSlots')
<1>1. LiveSlots' = LiveSlots \cup {s}
  BY StoreLive
<1>2. s \in LiveSlots <=> records[s].hash # 0
  BY DEF LiveSlots
<1>3. Cardinality(LiveSlots \cup {s})
        = IF s \in LiveSlots THEN Cardinality(LiveSlots) ELSE Cardinality(LiveSlots) + 1
  BY LiveFinite, FS_AddElement
<1>4. Cardinality(LiveSlots) \in Nat
  BY LiveFinite
<1> QED
  BY <1>1, <1>2, <1>3, <1>4

LEMMA HashCounted ==
  ASSUME NoZeroHash, TypeOK, api = "hash", NEW r \in Stored, Add(r) \/ Update(r),
         used_size = Cardinality(LiveSlots)
  PROVE  used_size' = Cardinality(LiveSlots')
<1>1. r \in Records /\ Room(r) # {} /\ records' = [records EXCEPT ![RoomFor(r)] = r]
      /\ used_size' = used_size + (IF records[RoomFor(r)].hash = 0 THEN 1 ELSE 0)
  BY StoredAreRecords DEF Add, Update, TypeOK
<1> QED
  BY <1>1, RoomForIsSlot, StoreCounted

LEMMA UsedSizeNext ==
  ASSUME NoZeroHash, TypeOK, SlotsOK, HeadOK, UsedSizeExact, [Next]_vars
  PROVE  UsedSizeExact'
<1> USE DEF table, refs
<1>1. CASE UNCHANGED <<api, records, used_size>>
  BY <1>1 DEF UsedSizeExact, LiveSlots
<1>2. CASE DictSetNew \/ DictUpdate
  <2> DEFINE j == Min(DictRoom(rec))
  <2>1. /\ api = "dict" /\ rec \in Stored /\ j \in DictSlots /\ j \in DictRoom(rec)
        /\ records' = [records EXCEPT ![j] = rec]
    BY <1>2, DictRoomIsSlot DEF DictSetNew, DictUpdate, SetReturn, TypeOK
  <2>2. \/ hash_list[j] = 0 /\ used_size' = used_size + 1
        \/ hash_list[j] # 0 /\ records[j].k # NULL /\ used_size' = used_size
    BY <1>2 DEF DictSetNew, DictUpdate
  <2> HIDE DEF j
  <2>3. j \in DOMAIN records /\ (records[j] \in Stored \/ Vacant(records[j]))
    BY <2>1 DEF TypeOK, Slots, SlotsOK
  <2>4. records[j].hash = 0 <=> hash_list[j] = 0
    <3>1. CASE records[j] \in Stored
      <4>1. records[j].hash # 0 /\ hash_list[j] = records[j].hash
        BY <2>1, <3>1, StoredKey DEF NoZeroHash, SlotsOK
      <4> QED
        BY <4>1
    <3>2. CASE Vacant(records[j])
      BY <2>2, <3>2 DEF Vacant
    <3> QED
      BY <2>3, <3>1, <3>2
  <2>5. used_size' = used_size + (IF records[j].hash = 0 THEN 1 ELSE 0)
    BY <2>2, <2>4 DEF TypeOK
  <2>6. used_size = Cardinality(LiveSlots)
    BY <2>1 DEF UsedSizeExact
  <2> QED
    BY <2>1, <2>3, <2>5, <2>6, StoreCounted DEF UsedSizeExact
<1>3. ASSUME NEW n, Resize(n)
      PROVE  UsedSizeExact'
  <2>1. LiveSlots' = {} /\ used_size' = 0
    BY <1>3 DEF Resize, LiveSlots, Empty
  <2> QED
    BY <2>1, FS_EmptySet DEF UsedSizeExact
<1>4. CASE HashSet
  BY <1>4, HashCounted DEF HashSet, UsedSizeExact, TypeOK
<1>5. CASE Rehash
  <2>1. CASE head[i].hash # 0 /\ (Add(head[i]) \/ Update(head[i]))
    <3>1. head[i] \in Stored /\ api = "hash"
      BY <1>5, <2>1 DEF Rehash, SlotsOK, Vacant, TypeOK
    <3> QED
      BY <2>1, <3>1, HashCounted DEF UsedSizeExact
  <2>2. CASE UNCHANGED <<records, used_size>>
    BY <1>1, <1>5, <2>2 DEF Rehash
  <2> QED
    BY <1>5, <2>1, <2>2 DEF Rehash
<1>6. ASSUME NEW k \in Removable, Remove(k)
      PROVE  UsedSizeExact'
  <2> DEFINE s == SlotOf(k)
  <2>1. /\ records[s].k # NULL /\ used_size' = used_size - 1
        /\ records' = [records EXCEPT ![s] = Removed(records[s])]
        /\ UNCHANGED api /\ api # "freed"
    BY <1>6 DEF Remove, Idle
  <2>2. s \in DOMAIN records
    BY <1>6, SlotOfIsSlot, KeysAssumption DEF Remove
  <2> HIDE DEF s
  <2>3. records'[s].hash = 0 /\ DOMAIN records' = DOMAIN records
        /\ \A j \in DOMAIN records : j # s => records'[j] = records[j]
    <3>1. records[s] \in Records
      BY <2>2 DEF TypeOK
    <3> QED
      BY <2>1, <2>2, <3>1 DEF Removed, Records
  <2>4. s \in LiveSlots
    <3>1. records[s] \in Stored
      BY <2>1, <2>2 DEF SlotsOK, Vacant
    <3> QED
      BY <2>2, <3>1, StoredKey DEF NoZeroHash, LiveSlots
  <2>5. LiveSlots' = LiveSlots \ {s}
    BY <2>3 DEF LiveSlots
  <2>6. Cardinality(LiveSlots \ {s}) = Cardinality(LiveSlots) - 1
    BY <2>4, LiveFinite, FS_RemoveElement
  <2> QED
    BY <2>1, <2>5, <2>6 DEF UsedSizeExact
<1>7. CASE Free
  BY <1>7 DEF Free, UsedSizeExact
<1> QED
  BY <1>1, <1>2, <1>3, <1>4, <1>5, <1>6, <1>7
  DEF Next, Insert, SetCall, DictSetFault, DictConvert, HashGrow, HashGrowFault,
      RehashDone, Get, LookupFault, Length, FreeFault, Done, Fault, vars

\* When no name has the hash code 0, JSON_length returns the number of records,
\* after any sequence of insertions, removals and moves.
THEOREM UsedSizeCounts == NoZeroHash => (Spec => []UsedSizeExact)
<1> SUFFICES ASSUME NoZeroHash PROVE Spec => []UsedSizeExact
  OBVIOUS
<1>1. Init => UsedSizeExact
  <2> SUFFICES ASSUME Init PROVE LiveSlots = {} /\ used_size = 0
    BY FS_EmptySet DEF UsedSizeExact
  <2> QED
    BY DEF Init, LiveSlots, Empty
<1>2. TypeOK /\ SlotsOK /\ HeadOK /\ UsedSizeExact /\ [Next]_vars => UsedSizeExact'
  BY UsedSizeNext
<1> QED
  BY <1>1, <1>2, Sound, PTL DEF Spec
-----------------------------------------------------------------------------
(***************************************************************************)
(* Where nothing is removed.                                               *)
(*                                                                         *)
(* The hypotheses are those under which the code keeps these promises.  A  *)
(* dictmap's copy of the hash stays when a record is removed; a record     *)
(* with the hash code 0 counts as a free slot; two keys without a text     *)
(* may differ in the byte that JSONString_equal compares all the same.     *)
(***************************************************************************)

\* Keys of the same text have the same first byte, the unset one included.
SameBytes == \A a, b \in Keys : Name[a] = Name[b] => Byte0[a] = Byte0[b]

Hypotheses == NoZeroHash /\ SameBytes /\ Removable = {}

\* Every slot that a probe passes on its way to a member is taken: a search for
\* the member's name cannot stop at a free slot before it.
NoGaps == api = "hash" =>
            \A j \in LiveSlots :
              \E d \in Probes :
                /\ j = Probe(records[j].hash, d)
                /\ \A e \in Probes : e < d => Probe(records[j].hash, e) \in LiveSlots

\* A dictmap is filled from its start, and its copies of the hashes are right.
DictInOrder == api = "dict" =>
                 /\ used_size \in Nat
                 /\ LiveSlots = 0 .. used_size - 1
                 /\ \A j \in DictSlots : hash_list[j] = records[j].hash

DictInv == NoGaps /\ DictInOrder /\ UniqueNames

\* s is the slot of the record with r's name, or a free one if there is none.
RightSlot(s, r) ==
  /\ s \in DOMAIN records
  /\ \A j \in LiveSlots : Name[records[j].k] = Name[r.k] => j = s
  /\ s \in LiveSlots => Name[records[s].k] = Name[r.k]

\* Keys are equal when their texts are.
LEMMA EqualNames ==
  ASSUME SameBytes, NEW a \in Keys, NEW b \in Keys
  PROVE  Equal(a, b) <=> Name[a] = Name[b]
BY DEF SameBytes, Equal

\* What is live was stored.
LEMMA LiveStored ==
  ASSUME SlotsOK, NEW j \in LiveSlots
  PROVE  records[j] \in Stored /\ records[j].k \in Keys /\ j \in DOMAIN records
BY StoredKey DEF SlotsOK, LiveSlots, Vacant

LEMMA HashRightSlot ==
  ASSUME Hypotheses, TypeOK, SlotsOK, DictInv, api = "hash", NEW r \in Stored, Room(r) # {}
  PROVE  /\ RightSlot(RoomFor(r), r)
         /\ \E m \in Probes : /\ RoomFor(r) = Probe(r.hash, m)
                              /\ \A e \in Probes : e < m => Probe(r.hash, e) \in LiveSlots
<1> DEFINE m == Min(Room(r))
           s == Probe(r.hash, m)
<1>1. r \in Records /\ r.k \in Keys /\ r.hash = HashCode(r.k) /\ RoomFor(r) = s
  BY StoredAreRecords, StoredKey DEF RoomFor
<1>2. m \in Room(r) /\ m \in Probes /\ \A e \in Room(r) : m <= e
  <2>1. Room(r) \subseteq Nat
    BY SizesAssumption DEF Room, Probes
  <2> QED
    BY <2>1, MinIsMember DEF Room
<1>3. s \in DOMAIN records
  BY <1>1, RoomForIsSlot
<1> HIDE DEF m
<1>4. s \in LiveSlots => Name[records[s].k] = Name[r.k]
  BY <1>2 DEF LiveSlots, Room, Equal
<1>5. ASSUME NEW e \in Probes, e < m
      PROVE  Probe(r.hash, e) \in LiveSlots
  <2>1. Probe(r.hash, e) \in DOMAIN records
    <3>1. e \in Nat /\ r.hash \in Nat /\ Mask \in Nat
      BY <1>1, SizesAssumption DEF Probes, Records, TypeOK, Mask
    <3>2. DOMAIN records = 0 .. Mask
      BY DEF TypeOK, Slots
    <3> QED
      BY <3>1, <3>2, ProbeInTable DEF Probe
  <2>2. e \notin Room(r)
    BY <1>2, <1>5, SizesAssumption DEF Probes
  <2> QED
    BY <2>1, <2>2 DEF Room, LiveSlots
<1>6. ASSUME NEW j \in LiveSlots, Name[records[j].k] = Name[r.k]
      PROVE  j = s
  <2>1. records[j] \in Stored /\ records[j].k \in Keys /\ records[j].hash = r.hash
    BY <1>1, <1>6, LiveStored, StoredKey DEF HashCode
  <2>2. PICK d \in Probes : /\ j = Probe(r.hash, d)
                            /\ \A e \in Probes : e < d => Probe(r.hash, e) \in LiveSlots
    BY <2>1 DEF DictInv, NoGaps
  <2>3. Equal(records[j].k, r.k)
    BY <1>1, <1>6, <2>1, EqualNames DEF Hypotheses
  <2>4. d \in Room(r)
    BY <2>1, <2>2, <2>3 DEF Room
  <2>5. CASE m = d
    BY <2>2, <2>5
  <2>6. CASE m # d
    <3>1. m < d
      BY <1>2, <2>4, <2>6, SizesAssumption DEF Probes
    <3>2. s \in LiveSlots
      BY <1>2, <2>2, <3>1
    <3> QED
      BY <1>4, <1>6, <3>2 DEF DictInv, UniqueNames
  <2> QED
    BY <2>5, <2>6
<1>7. RightSlot(s, r)
  BY <1>3, <1>4, <1>6 DEF RightSlot
<1> QED
  BY <1>1, <1>2, <1>5, <1>7

LEMMA DictRightSlot ==
  ASSUME Hypotheses, TypeOK, SlotsOK, DictInv, api = "dict", NEW r \in Stored, DictRoom(r) # {}
  PROVE  /\ RightSlot(Min(DictRoom(r)), r)
         /\ hash_list[Min(DictRoom(r))] = 0 => Min(DictRoom(r)) = used_size
         /\ hash_list[Min(DictRoom(r))] # 0 => Min(DictRoom(r)) \in LiveSlots
<1> DEFINE s == Min(DictRoom(r))
<1>1. s \in DictRoom(r) /\ s \in DictSlots /\ \A j \in DictRoom(r) : s <= j
  <2>1. DictRoom(r) \subseteq Nat
    BY SizesAssumption DEF DictRoom, DictSlots
  <2> QED
    BY <2>1, MinIsMember DEF DictRoom
<1> HIDE DEF s
<1>2. /\ r.k \in Keys /\ r.hash = HashCode(r.k) /\ r.hash # 0
      /\ used_size \in Nat /\ LiveSlots = 0 .. used_size - 1
      /\ DOMAIN records = DictSlots
      /\ \A j \in DictSlots : hash_list[j] = records[j].hash
  BY StoredKey DEF DictInv, DictInOrder, Hypotheses, NoZeroHash, TypeOK, Slots
<1>3. \A j \in DictSlots : j \in LiveSlots <=> hash_list[j] # 0
  BY <1>2 DEF LiveSlots
<1>4. s \in LiveSlots => Name[records[s].k] = Name[r.k]
  <2> SUFFICES ASSUME s \in LiveSlots PROVE Name[records[s].k] = Name[r.k]
    OBVIOUS
  <2>1. records[s].k # NULL
    BY LiveStored, KeysAssumption
  <2> QED
    BY <1>1, <1>3, <2>1 DEF DictRoom, Stops, Equal
<1>5. ASSUME NEW j \in LiveSlots, Name[records[j].k] = Name[r.k]
      PROVE  j = s
  <2>1. records[j] \in Stored /\ records[j].k \in Keys /\ j \in DictSlots
    BY <1>2, LiveStored
  <2>2. hash_list[j] = r.hash /\ Equal(records[j].k, r.k)
    BY <1>2, <1>5, <2>1, EqualNames, StoredKey DEF Hypotheses, HashCode
  <2>3. j \in DictRoom(r)
    BY <2>1, <2>2 DEF DictRoom, Stops
  <2>4. s \in LiveSlots
    BY <1>1, <1>2, <2>1, <2>3, SizesAssumption DEF DictSlots
  <2> QED
    BY <1>4, <1>5, <2>4 DEF DictInv, UniqueNames
<1>6. ASSUME hash_list[s] = 0
      PROVE  s = used_size
  <2>1. s \notin LiveSlots /\ s \in 0 .. DictThreshold - 1 /\ DictThreshold \in Nat
    BY <1>1, <1>3, <1>6, SizesAssumption DEF DictSlots
  <2>2. s >= used_size /\ used_size \in DictSlots /\ used_size \notin LiveSlots
    BY <1>2, <2>1 DEF DictSlots
  <2>3. used_size \in DictRoom(r)
    BY <1>3, <2>2 DEF DictRoom
  <2> QED
    BY <1>1, <1>2, <2>1, <2>2, <2>3
<1>7. RightSlot(s, r)
  BY <1>1, <1>2, <1>4, <1>5 DEF RightSlot
<1> QED
  BY <1>1, <1>3, <1>6, <1>7 DEF s
-----------------------------------------------------------------------------
\* Storing r where it belongs: no name gets a second record.
LEMMA StoreUnique ==
  ASSUME Hypotheses, TypeOK, SlotsOK, UniqueNames, NEW r \in Stored, NEW s,
         RightSlot(s, r), records' = [records EXCEPT ![s] = r],
         \A l \in Unmoved' : l \in Unmoved /\ head'[l] = head[l] /\ Name[head[l].k] # Name[r.k]
  PROVE  UniqueNames' /\ LiveSlots' = LiveSlots \cup {s}
<1>1. s \in DOMAIN records /\ DOMAIN records' = DOMAIN records /\ records'[s] = r
      /\ \A j \in DOMAIN records : j # s => records'[j] = records[j]
  BY DEF TypeOK, RightSlot
<1>2. LiveSlots' = LiveSlots \cup {s}
  BY <1>1, StoreLive DEF Hypotheses
<1>3. \A j \in LiveSlots' : j = s \/ (j \in LiveSlots /\ j # s /\ records'[j] = records[j])
  BY <1>1, <1>2 DEF LiveSlots
<1>4. ASSUME NEW j \in LiveSlots', NEW l \in LiveSlots',
             Name[records'[j].k] = Name[records'[l].k]
      PROVE  j = l
  BY <1>1, <1>3, <1>4 DEF RightSlot, UniqueNames
<1>5. ASSUME NEW j \in LiveSlots', NEW l \in Unmoved'
      PROVE  Name[records'[j].k] # Name[head'[l].k]
  BY <1>1, <1>3 DEF UniqueNames
<1>6. ASSUME NEW j \in Unmoved', NEW l \in Unmoved', Name[head'[j].k] = Name[head'[l].k]
      PROVE  j = l
  BY <1>6 DEF UniqueNames
<1> QED
  BY <1>2, <1>4, <1>5, <1>6 DEF UniqueNames

\* What a map has stored after a step, as a set of records.
LEMMA StoreLiveRecords ==
  ASSUME Hypotheses, TypeOK, SlotsOK, NEW r \in Stored, NEW s,
         RightSlot(s, r), records' = [records EXCEPT ![s] = r]
  PROVE  {records'[j] : j \in LiveSlots'}
           = {records[j] : j \in {l \in LiveSlots : Name[records[l].k] # Name[r.k]}} \cup {r}
<1>1. s \in DOMAIN records /\ records'[s] = r
      /\ \A j \in DOMAIN records : j # s => records'[j] = records[j]
  BY DEF TypeOK, RightSlot
<1>2. LiveSlots' = LiveSlots \cup {s}
  BY <1>1, StoreLive DEF Hypotheses
<1>3. \A j \in LiveSlots : j \in DOMAIN records /\ (Name[records[j].k] # Name[r.k] <=> j # s)
  BY DEF RightSlot, LiveSlots
<1> QED
  BY <1>1, <1>2, <1>3

\* A hashmap in which r was stored at the first place its probe came to.
LEMMA StoreNoGaps ==
  ASSUME Hypotheses, TypeOK, SlotsOK, DictInv, api = "hash", NEW r \in Stored, Room(r) # {},
         records' = [records EXCEPT ![RoomFor(r)] = r], UNCHANGED <<api, record_size_mask>>
  PROVE  NoGaps'
<1> DEFINE s == RoomFor(r)
<1>1. RightSlot(s, r)
  BY HashRightSlot
<1>2. PICK m \in Probes : /\ s = Probe(r.hash, m)
                          /\ \A e \in Probes : e < m => Probe(r.hash, e) \in LiveSlots
  BY HashRightSlot
<1>3. s \in DOMAIN records /\ records'[s] = r
      /\ \A j \in DOMAIN records : j # s => records'[j] = records[j]
  BY <1>1 DEF TypeOK, RightSlot
<1>4. LiveSlots' = LiveSlots \cup {s}
  BY <1>3, StoreLive DEF Hypotheses
<1> HIDE DEF s
<1>5. \A h, d : Probe(h, d)' = Probe(h, d)
  BY DEF Probe, Mask
<1>6. ASSUME NEW j \in LiveSlots'
      PROVE  \E d \in Probes :
               /\ j = Probe(records'[j].hash, d)
               /\ \A e \in Probes : e < d => Probe(records'[j].hash, e) \in LiveSlots'
  <2>1. CASE j = s
    BY <1>2, <1>3, <1>4, <2>1
  <2>2. CASE j # s
    <3>1. j \in LiveSlots /\ records'[j] = records[j]
      BY <1>3, <1>4, <2>2 DEF LiveSlots
    <3> QED
      BY <1>4, <3>1 DEF DictInv, NoGaps
  <2> QED
    BY <2>1, <2>2
<1> QED
  BY <1>5, <1>6 DEF NoGaps, Probe, Mask
\* Between the moves nothing is left to be moved.
LEMMA NoneUnmoved == HeadOK /\ pc # "rehash" => Unmoved = {}
BY DEF HeadOK, Unmoved, NoRecords

LEMMA DictInvInit == Init => DictInv
<1> SUFFICES ASSUME Init PROVE DictInv
  OBVIOUS
<1>1. LiveSlots = {} /\ Unmoved = {} /\ used_size = 0
  BY DEF Init, LiveSlots, Unmoved, Empty, NoRecords
<1>2. api = "dict" => \A j \in DictSlots : hash_list[j] = records[j].hash
  BY DEF Init, Empty
<1> QED
  BY <1>1, <1>2 DEF DictInv, NoGaps, DictInOrder, UniqueNames

LEMMA DictInvDict ==
  ASSUME Hypotheses, TypeOK, SlotsOK, HeadOK, DictInv, DictSetNew \/ DictUpdate
  PROVE  DictInv'
<1> DEFINE s == Min(DictRoom(rec))
<1>1. /\ api = "dict" /\ api' = "dict" /\ pc = "set" /\ rec \in Stored /\ DictRoom(rec) # {}
      /\ records' = [records EXCEPT ![s] = rec] /\ UNCHANGED <<head, i>>
  BY DEF DictSetNew, DictUpdate, SetReturn, TypeOK
<1>2. \/ /\ hash_list[s] = 0
         /\ hash_list' = [hash_list EXCEPT ![s] = rec.hash]
         /\ used_size' = used_size + 1
      \/ hash_list[s] # 0 /\ UNCHANGED <<hash_list, used_size>>
  BY DEF DictSetNew, DictUpdate
<1>3. /\ RightSlot(s, rec) /\ s \in DictRoom(rec) /\ s \in DictSlots
      /\ hash_list[s] = 0 => s = used_size
      /\ hash_list[s] # 0 => s \in LiveSlots
  BY <1>1, DictRightSlot, DictRoomIsSlot
<1> HIDE DEF s
<1>4. Unmoved = {} /\ Unmoved' = {}
  BY <1>1, NoneUnmoved DEF Unmoved
<1>5. UniqueNames' /\ LiveSlots' = LiveSlots \cup {s}
  BY <1>1, <1>3, <1>4, StoreUnique DEF DictInv
<1>6. used_size \in Nat /\ LiveSlots = 0 .. used_size - 1
      /\ \A j \in DictSlots : hash_list[j] = records[j].hash
  BY <1>1 DEF DictInv, DictInOrder
<1>7. used_size' \in Nat /\ LiveSlots' = 0 .. used_size' - 1
  BY <1>2, <1>3, <1>5, <1>6
<1>8. \A j \in DictSlots : hash_list'[j] = records'[j].hash
  <2>1. hash_list \in [DictSlots -> Nat] /\ records \in [DictSlots -> Records]
    BY <1>1 DEF TypeOK, Slots
  <2>2. hash_list[s] # 0 => hash_list[s] = rec.hash
    BY <1>3 DEF DictRoom
  <2> QED
    BY <1>1, <1>2, <1>3, <1>6, <2>1, <2>2
<1> QED
  BY <1>1, <1>5, <1>7, <1>8 DEF DictInv, NoGaps, DictInOrder

LEMMA DictInvStore ==
  ASSUME Hypotheses, TypeOK, SlotsOK, HeadOK, DictInv, api = "hash",
         NEW r \in Stored, Add(r) \/ Update(r), UNCHANGED <<api, record_size_mask>>,
         \A l \in Unmoved' : l \in Unmoved /\ head'[l] = head[l] /\ Name[head[l].k] # Name[r.k]
  PROVE  DictInv'
<1>1. Room(r) # {} /\ records' = [records EXCEPT ![RoomFor(r)] = r]
  BY DEF Add, Update
<1>2. RightSlot(RoomFor(r), r)
  BY <1>1, HashRightSlot
<1>3. UniqueNames'
  BY <1>1, <1>2, StoreUnique DEF DictInv
<1>4. NoGaps'
  BY <1>1, StoreNoGaps
<1> QED
  BY <1>3, <1>4 DEF DictInv, DictInOrder

\* The table stays, of the old one the records that are still to be moved may
\* get fewer.
LEMMA DictInvKeep ==
  ASSUME DictInv, UNCHANGED <<api, records, hash_list, used_size, record_size_mask>>,
         \A l \in Unmoved' : l \in Unmoved /\ head'[l] = head[l]
  PROVE  DictInv'
<1>1. LiveSlots' = LiveSlots
  BY DEF LiveSlots
<1>2. UniqueNames'
  BY <1>1 DEF DictInv, UniqueNames
<1> QED
  BY <1>1, <1>2 DEF DictInv, NoGaps, DictInOrder, Probe, Mask

LEMMA DictInvNext ==
  ASSUME Hypotheses, TypeOK, SlotsOK, HeadOK, DictInv, [Next]_vars
  PROVE  DictInv'
<1> USE DEF table
<1>1. ASSUME UNCHANGED <<api, table, hash_list, head, i>>
      PROVE  DictInv'
  BY <1>1, DictInvKeep DEF Unmoved
<1>2. CASE Fault \/ Length \/ UNCHANGED vars \/ (\E k \in Keys : Get(k))
           \/ (\E p \in Pairs : SetCall(p))
  BY <1>1, <1>2 DEF Fault, Length, Get, SetCall, vars
<1>3. ASSUME NEW n, Resize(n), pc = "set", api' = "hash"
      PROVE  DictInv'
  <2>1. LiveSlots' = {}
    BY <1>3 DEF Resize, LiveSlots, Empty
  <2>2. \A l \in Unmoved' : l \in LiveSlots /\ head'[l] = records[l]
    BY <1>3 DEF Resize, Unmoved, LiveSlots
  <2>3. UniqueNames'
    BY <2>1, <2>2 DEF DictInv, UniqueNames
  <2> QED
    BY <1>3, <2>1, <2>3 DEF DictInv, NoGaps, DictInOrder
<1>4. CASE DictConvert \/ HashGrow
  BY <1>3, <1>4 DEF DictConvert, HashGrow
<1>5. CASE HashSet
  <2>1. /\ api = "hash" /\ rec \in Stored /\ (Add(rec) \/ Update(rec)) /\ pc = "set"
        /\ UNCHANGED <<api, record_size_mask, head, i>>
    BY <1>5 DEF HashSet, SetReturn, TypeOK
  <2>2. Unmoved' = {}
    BY <2>1, NoneUnmoved DEF Unmoved
  <2> QED
    BY <2>1, <2>2, DictInvStore
<1>6. CASE Rehash
  <2>1. /\ i \in DOMAIN head /\ i' = i + 1 /\ i \in Nat /\ api = "hash"
        /\ UNCHANGED <<api, record_size_mask, hash_list, head>>
    BY <1>6 DEF Rehash, TypeOK
  <2>2. \A l \in Unmoved' : l \in Unmoved /\ l # i /\ head'[l] = head[l]
    <3>1. PICK n \in Nat : DOMAIN head = 0 .. n - 1
      BY DEF HeadOK
    <3> QED
      BY <2>1, <3>1 DEF Unmoved
  <2>3. CASE head[i].hash # 0 /\ (Add(head[i]) \/ Update(head[i]))
    <3>1. head[i] \in Stored
      BY <2>1, <2>3 DEF SlotsOK, Vacant
    <3>2. i \in Unmoved
      BY <2>1, <2>3 DEF Unmoved
    <3>3. \A l \in Unmoved' : l \in Unmoved /\ head'[l] = head[l]
                              /\ Name[head[l].k] # Name[head[i].k]
      BY <2>2, <3>2 DEF DictInv, UniqueNames
    <3> QED
      BY <2>1, <2>3, <3>1, <3>3, DictInvStore
  <2>4. CASE UNCHANGED <<records, used_size>>
    BY <2>1, <2>2, <2>4, DictInvKeep
  <2> QED
    BY <1>6, <2>3, <2>4 DEF Rehash
<1>7. CASE RehashDone
  <2>1. Unmoved' = {} /\ UNCHANGED <<api, table, hash_list>>
    BY <1>7 DEF RehashDone, Unmoved, NoRecords
  <2> QED
    BY <2>1, DictInvKeep
<1>8. CASE Free
  <2>1. LiveSlots' = {} /\ Unmoved' = {} /\ api' = "freed"
    BY <1>8, NoneUnmoved DEF Free, Idle, LiveSlots, Unmoved, NoRecords
  <2> QED
    BY <2>1 DEF DictInv, NoGaps, DictInOrder, UniqueNames
<1> QED
  BY <1>2, <1>4, <1>5, <1>6, <1>7, <1>8, DictInvDict
  DEF Next, Insert, DictSetFault, HashGrowFault, LookupFault, FreeFault, Done, Hypotheses

LEMMA DictInvAlways ==
  Hypotheses => (Spec => [](TypeOK /\ SlotsOK /\ HeadOK /\ RecOK /\ UsedSizeExact /\ DictInv))
<1> SUFFICES ASSUME Hypotheses
             PROVE  Spec => [](TypeOK /\ SlotsOK /\ HeadOK /\ RecOK /\ UsedSizeExact /\ DictInv)
  OBVIOUS
<1>1. TypeOK /\ SlotsOK /\ HeadOK /\ DictInv /\ [Next]_vars => DictInv'
  BY DictInvNext
<1>2. Spec => []UsedSizeExact
  BY UsedSizeCounts DEF Hypotheses
<1> QED
  BY <1>1, <1>2, DictInvInit, AllCovered, PTL DEF Spec

\* As long as nothing is removed, no name ever has two records: not after an
\* overwrite, and not while the records move.
THEOREM NamesUnique == Hypotheses => (Spec => []UniqueNames)
<1> SUFFICES ASSUME Hypotheses PROVE Spec => []UniqueNames
  OBVIOUS
<1>1. TypeOK /\ SlotsOK /\ HeadOK /\ RecOK /\ UsedSizeExact /\ DictInv => UniqueNames
  BY DEF DictInv
<1> QED
  BY <1>1, DictInvAlways, PTL
-----------------------------------------------------------------------------
\* Where a lookup stops, and that it stops at every member of the name.
LEMMA LookupFinds ==
  ASSUME Hypotheses, TypeOK, SlotsOK, DictInv, Idle, NEW k \in Keys
  PROVE  /\ Scan(k) # {} => /\ SlotOf(k) \in LiveSlots
                            /\ Name[records[SlotOf(k)].k] = Name[k]
         /\ \A j \in LiveSlots : Name[records[j].k] = Name[k] => Scan(k) # {} /\ j = SlotOf(k)
<1>1. HashCode(k) \in Nat \ {0} /\ api \in {"dict", "hash"}
  BY KeysAssumption DEF Hypotheses, NoZeroHash, HashCode, Idle, TypeOK
<1>2. ASSUME Scan(k) # {}
      PROVE  SlotOf(k) \in LiveSlots /\ Name[records[SlotOf(k)].k] = Name[k]
  <2> DEFINE m == Min(Scan(k))
             s == SlotOf(k)
  <2>1. m \in Scan(k)
    <3>1. Scan(k) \subseteq Nat
      BY SizesAssumption DEF Scan, DictSlots, Probes
    <3> QED
      BY <1>2, <3>1, MinIsMember
  <2>2. s \in DOMAIN records
    BY <1>2, SlotOfIsSlot
  <2>3. records[s].hash = HashCode(k) /\ Stops(records[s].k, k)
    <3> HIDE DEF m
    <3>1. s = IF api = "dict" THEN m ELSE Probe(HashCode(k), m)
      BY DEF SlotOf, m
    <3>2. CASE api = "dict"
      BY <2>1, <3>1, <3>2 DEF Scan, DictInv, DictInOrder
    <3>3. CASE api = "hash"
      BY <2>1, <3>1, <3>3 DEF Scan
    <3> QED
      BY <1>1, <3>2, <3>3
  <2>4. s \in LiveSlots
    BY <1>1, <2>2, <2>3 DEF LiveSlots
  <2> HIDE DEF s
  <2>5. records[s].k # NULL
    BY <2>4, LiveStored, KeysAssumption
  <2> QED
    BY <2>3, <2>4, <2>5 DEF Stops, Equal, s
<1>3. ASSUME NEW j \in LiveSlots, Name[records[j].k] = Name[k]
      PROVE  Scan(k) # {} /\ j = SlotOf(k)
  <2>1. records[j].k \in Keys /\ j \in DOMAIN records /\ records[j].hash = HashCode(k)
    BY <1>3, LiveStored, StoredKey DEF HashCode
  <2>2. Stops(records[j].k, k)
    BY <1>3, <2>1, EqualNames DEF Hypotheses, Stops
  <2>3. CASE api = "dict"
    <3>1. j \in Scan(k)
      BY <2>1, <2>2, <2>3 DEF Scan, DictInv, DictInOrder, TypeOK, Slots
    <3> QED
      BY <1>2, <1>3, <3>1 DEF DictInv, UniqueNames
  <2>4. CASE api = "hash"
    <3>1. PICK d \in Probes : j = Probe(HashCode(k), d)
      BY <2>1, <2>4 DEF DictInv, NoGaps
    <3>2. d \in Scan(k)
      BY <2>1, <2>2, <2>4, <3>1 DEF Scan
    <3> QED
      BY <1>2, <1>3, <3>2 DEF DictInv, UniqueNames
  <2> QED
    BY <1>1, <2>3, <2>4
<1> QED
  BY <1>2, <1>3

\* As long as nothing is removed, each member that JSON_OBJECT_EACH visits is the
\* one that JSON_get returns for its key.
THEOREM IterationAgrees == Hypotheses => (Spec => []IterationAgreesWithGet)
<1> SUFFICES ASSUME Hypotheses PROVE Spec => []IterationAgreesWithGet
  OBVIOUS
<1>1. TypeOK /\ SlotsOK /\ HeadOK /\ RecOK /\ UsedSizeExact /\ DictInv => IterationAgreesWithGet
  <2> SUFFICES ASSUME TypeOK, SlotsOK, DictInv, Idle, NEW j \in Visited
               PROVE  records[j].k # NULL /\ Lookup(records[j].k) = records[j].v
    BY DEF IterationAgreesWithGet
  <2>1. j \in LiveSlots
    BY DEF Visited, DictInv, DictInOrder
  <2>2. records[j].k \in Keys
    BY <2>1, LiveStored
  <2> DEFINE k == records[j].k
  <2>3. Scan(k) # {} /\ j = SlotOf(k)
    BY <2>1, <2>2, LookupFinds
  <2> QED
    BY <2>2, <2>3, KeysAssumption DEF Lookup
<1> QED
  BY <1>1, DictInvAlways, PTL
-----------------------------------------------------------------------------
(***************************************************************************)
(* The dictionary that a set of records is: Meaning, for any set.          *)
(***************************************************************************)
MeaningOf(L) == [n \in Names |-> IF \E r \in L : Name[r.k] = n
                                   THEN (CHOOSE r \in L : Name[r.k] = n).v
                                   ELSE NoValue]

NamedOnce(L) == /\ \A r \in L : r.k \in Keys
                /\ \A r, q \in L : Name[r.k] = Name[q.k] => r = q

LEMMA MeaningIs ==
  ASSUME NEW L, NamedOnce(L)
  PROVE  /\ \A r \in L : Name[r.k] \in Names /\ MeaningOf(L)[Name[r.k]] = r.v
         /\ \A n \in Names : (\A r \in L : Name[r.k] # n) => MeaningOf(L)[n] = NoValue
<1>1. ASSUME NEW r \in L
      PROVE  Name[r.k] \in Names /\ MeaningOf(L)[Name[r.k]] = r.v
  <2>1. Name[r.k] \in Names
    BY DEF Names, NamedOnce
  <2> DEFINE q == CHOOSE q \in L : Name[q.k] = Name[r.k]
  <2>2. q \in L /\ Name[q.k] = Name[r.k]
    OBVIOUS
  <2>3. q = r
    BY <2>2 DEF NamedOnce
  <2> QED
    BY <2>1, <2>3 DEF MeaningOf
<1>2. ASSUME NEW n \in Names, \A r \in L : Name[r.k] # n
      PROVE  MeaningOf(L)[n] = NoValue
  BY <1>2 DEF MeaningOf
<1> QED
  BY <1>1, <1>2

\* Storing a record over the one of its name sets its name.
LEMMA MeaningSet ==
  ASSUME NEW L, NamedOnce(L), NEW r \in Stored
  PROVE  MeaningOf({q \in L : Name[q.k] # Name[r.k]} \cup {r})
           = [MeaningOf(L) EXCEPT ![Name[r.k]] = r.v]
<1> DEFINE M == {q \in L : Name[q.k] # Name[r.k]} \cup {r}
<1>1. r.k \in Keys
  BY StoredKey
<1>2. NamedOnce(M)
  BY <1>1 DEF NamedOnce
<1>3. MeaningOf(M)[Name[r.k]] = r.v /\ Name[r.k] \in Names
  BY <1>2, MeaningIs
<1>4. ASSUME NEW n \in Names, n # Name[r.k]
      PROVE  MeaningOf(M)[n] = MeaningOf(L)[n]
  <2>1. CASE \E q \in L : Name[q.k] = n
    <3>1. PICK q \in L : Name[q.k] = n
      BY <2>1
    <3>2. q \in M
      BY <1>4, <3>1
    <3> HIDE DEF M
    <3> QED
      BY <1>2, <3>1, <3>2, MeaningIs
  <2>2. CASE \A q \in L : Name[q.k] # n
    <3>1. \A q \in M : Name[q.k] # n
      BY <1>4, <2>2
    <3> HIDE DEF M
    <3> QED
      BY <1>2, <2>2, <3>1, MeaningIs
  <2> QED
    BY <2>1, <2>2
<1>5. MeaningOf(M) = [n \in Names |-> MeaningOf(M)[n]]
      /\ MeaningOf(L) = [n \in Names |-> MeaningOf(L)[n]]
  BY DEF MeaningOf
<1> HIDE DEF M
<1>6. MeaningOf(M) = [MeaningOf(L) EXCEPT ![Name[r.k]] = r.v]
  <2> DEFINE f == MeaningOf(M)
             g == MeaningOf(L)
  <2> HIDE DEF f, g
  <2>1. f = [n \in Names |-> f[n]] /\ g = [n \in Names |-> g[n]]
        /\ f[Name[r.k]] = r.v /\ (\A n \in Names : n # Name[r.k] => f[n] = g[n])
    BY <1>3, <1>4, <1>5 DEF f, g
  <2>2. f = [g EXCEPT ![Name[r.k]] = r.v]
    BY <2>1
  <2> QED
    BY <2>2 DEF f, g
<1> QED
  BY <1>6 DEF M
LEMMA LiveNamedOnce ==
  ASSUME SlotsOK, DictInv
  PROVE  /\ NamedOnce(Live) /\ Live \subseteq Stored
         /\ Meaning = MeaningOf(Live)
<1>1. \A l \in Unmoved : head[l] \in Stored
  BY DEF SlotsOK, Unmoved, Vacant
<1>2. Live \subseteq Stored
  BY <1>1, LiveStored DEF Live
<1>3. \A r \in Live : r.k \in Keys
  BY <1>2, StoredKey
<1>4. ASSUME NEW r \in Live, NEW q \in Live, Name[r.k] = Name[q.k]
      PROVE  r = q
  <2>1. CASE \E j \in LiveSlots : r = records[j]
    BY <1>4, <2>1 DEF Live, DictInv, UniqueNames
  <2>2. CASE \E j \in Unmoved : r = head[j]
    BY <1>4, <2>2 DEF Live, DictInv, UniqueNames
  <2> QED
    BY <2>1, <2>2 DEF Live
<1>5. Meaning = MeaningOf(Live)
  BY DEF Meaning, MeaningOf
<1> QED
  BY <1>2, <1>3, <1>4, <1>5 DEF NamedOnce

\* An insertion that returns has set the name to the value.
LEMMA SetRefines ==
  ASSUME Hypotheses, TypeOK, SlotsOK, HeadOK, DictInv, DictSetNew \/ DictUpdate \/ HashSet
  PROVE  /\ rec \in Stored
         /\ Meaning' = [Meaning EXCEPT ![Name[rec.k]] = rec.v]
         /\ api # "freed" /\ api' = api /\ ret' = ret
<1>1. /\ rec \in Stored /\ pc = "set" /\ api # "freed" /\ UNCHANGED <<api, ret, head, i>>
  BY DEF DictSetNew, DictUpdate, HashSet, SetReturn, TypeOK
<1>2. PICK s \in DOMAIN records : RightSlot(s, rec) /\ records' = [records EXCEPT ![s] = rec]
  <2>1. CASE DictSetNew \/ DictUpdate
    <3>1. api = "dict" /\ DictRoom(rec) # {}
          /\ records' = [records EXCEPT ![Min(DictRoom(rec))] = rec]
      BY <2>1 DEF DictSetNew, DictUpdate
    <3> QED
      BY <1>1, <3>1, DictRightSlot DEF RightSlot
  <2>2. CASE HashSet
    <3>1. api = "hash" /\ Room(rec) # {} /\ records' = [records EXCEPT ![RoomFor(rec)] = rec]
      BY <2>2 DEF HashSet, Add, Update
    <3> QED
      BY <1>1, <3>1, HashRightSlot DEF RightSlot
  <2> QED
    BY <2>1, <2>2
<1>3. Unmoved = {} /\ Unmoved' = {}
  BY <1>1, NoneUnmoved DEF Unmoved
<1>4. {records'[j] : j \in LiveSlots'}
        = {records[j] : j \in {l \in LiveSlots : Name[records[l].k] # Name[rec.k]}} \cup {rec}
  BY <1>1, <1>2, StoreLiveRecords
<1>5. Live' = {q \in Live : Name[q.k] # Name[rec.k]} \cup {rec}
  BY <1>3, <1>4 DEF Live
<1>6. Meaning' = MeaningOf(Live')
  BY DEF Meaning, MeaningOf
<1>7. MeaningOf({q \in Live : Name[q.k] # Name[rec.k]} \cup {rec})
        = [MeaningOf(Live) EXCEPT ![Name[rec.k]] = rec.v]
  BY <1>1, LiveNamedOnce, MeaningSet
<1> QED
  BY <1>1, <1>5, <1>6, <1>7, LiveNamedOnce

\* A move changes nothing.
LEMMA RehashRefines ==
  ASSUME Hypotheses, TypeOK, SlotsOK, HeadOK, DictInv, Rehash, ~ RehashDrops
  PROVE  Live' = Live
<1>1. /\ i \in DOMAIN head /\ i' = i + 1 /\ i \in Nat /\ api = "hash" /\ head' = head
  BY DEF Rehash, TypeOK
<1>2. Unmoved' = Unmoved \ {i}
  <2>1. PICK n \in Nat : DOMAIN head = 0 .. n - 1
    BY DEF HeadOK
  <2>2. \A l \in DOMAIN head : l >= i + 1 <=> l >= i /\ l # i
    BY <1>1, <2>1
  <2> QED
    BY <1>1, <2>2 DEF Unmoved
<1>3. CASE head[i].hash # 0 /\ (Add(head[i]) \/ Update(head[i]))
  <2> DEFINE r == head[i]
  <2>1. r \in Stored /\ i \in Unmoved
    BY <1>1, <1>3 DEF SlotsOK, Vacant, Unmoved
  <2>2. Room(r) # {} /\ records' = [records EXCEPT ![RoomFor(r)] = r]
    BY <1>3 DEF Add, Update
  <2>3. RightSlot(RoomFor(r), r)
    BY <1>1, <2>1, <2>2, HashRightSlot
  <2>4. \A j \in LiveSlots : Name[records[j].k] # Name[r.k]
    BY <2>1 DEF DictInv, UniqueNames
  <2>5. {records'[j] : j \in LiveSlots'}
          = {records[j] : j \in {l \in LiveSlots : Name[records[l].k] # Name[r.k]}} \cup {r}
    BY <2>1, <2>2, <2>3, StoreLiveRecords
  <2>6. {records'[j] : j \in LiveSlots'} = {records[j] : j \in LiveSlots} \cup {r}
    BY <2>4, <2>5
  <2>7. {head'[l] : l \in Unmoved'} = {head[l] : l \in Unmoved \ {i}}
    BY <1>1, <1>2
  <2> QED
    BY <2>1, <2>6, <2>7 DEF Live
<1>4. CASE head[i].hash = 0 /\ UNCHANGED <<records, used_size, refs>>
  <2>1. Unmoved' = Unmoved
    BY <1>1, <1>2, <1>4 DEF Unmoved
  <2>2. LiveSlots' = LiveSlots
    BY <1>4 DEF LiveSlots
  <2> QED
    BY <1>1, <1>4, <2>1, <2>2 DEF Live
<1> QED
  BY <1>3, <1>4 DEF Rehash

\* A lookup returns what the dictionary has.
LEMMA GetRefines ==
  ASSUME Hypotheses, TypeOK, SlotsOK, HeadOK, DictInv, Idle, NEW k \in Keys
  PROVE  Name[k] \in Names /\ Lookup(k) = Meaning[Name[k]]
<1>1. Unmoved = {}
  BY NoneUnmoved DEF Idle
<1>2. NamedOnce(Live) /\ Meaning = MeaningOf(Live)
  BY LiveNamedOnce
<1>3. Name[k] \in Names
  BY DEF Names
<1>4. CASE Scan(k) # {}
  <2>1. SlotOf(k) \in LiveSlots /\ Name[records[SlotOf(k)].k] = Name[k]
    BY <1>4, LookupFinds
  <2>2. records[SlotOf(k)] \in Live
    BY <2>1 DEF Live
  <2>3. MeaningOf(Live)[Name[k]] = records[SlotOf(k)].v
    BY <1>2, <2>1, <2>2, MeaningIs
  <2> QED
    BY <1>2, <1>3, <1>4, <2>3 DEF Lookup
<1>5. CASE Scan(k) = {}
  <2>1. \A j \in LiveSlots : Name[records[j].k] # Name[k]
    BY <1>5, LookupFinds
  <2>2. \A r \in Live : Name[r.k] # Name[k]
    BY <1>1, <2>1 DEF Live
  <2> QED
    BY <1>2, <1>3, <1>5, <2>2, MeaningIs DEF Lookup
<1> QED
  BY <1>4, <1>5

\* There are as many names present as there are live slots.
LEMMA LengthRefines ==
  ASSUME Hypotheses, TypeOK, SlotsOK, HeadOK, DictInv, UsedSizeExact, Idle
  PROVE  used_size = Cardinality({n \in Names : Meaning[n] # NoValue})
<1> DEFINE P == {n \in Names : Meaning[n] # NoValue}
           f == [j \in LiveSlots |-> Name[records[j].k]]
<1>1. Unmoved = {}
  BY NoneUnmoved DEF Idle
<1>2. NamedOnce(Live) /\ Meaning = MeaningOf(Live) /\ Live \subseteq Stored
  BY LiveNamedOnce
<1>3. ASSUME NEW j \in LiveSlots
      PROVE  f[j] \in P
  <2>1. records[j] \in Live /\ records[j] \in Stored
    BY LiveStored DEF Live
  <2>2. Name[records[j].k] \in Names /\ Meaning[Name[records[j].k]] = records[j].v
    BY <1>2, <2>1, MeaningIs
  <2>3. records[j].v # NoValue
    BY <2>1, StoredKey, KeysAssumption
  <2> QED
    BY <2>2, <2>3
<1>4. ASSUME NEW n \in P
      PROVE  \E j \in LiveSlots : f[j] = n
  <2>1. ~ \A r \in Live : Name[r.k] # n
    BY <1>2, <1>4, MeaningIs
  <2> QED
    BY <1>1, <2>1 DEF Live
<1>5. \A j, l \in LiveSlots : f[j] = f[l] => j = l
  BY DEF DictInv, UniqueNames
<1>6. f \in Bijection(LiveSlots, P)
  <2>1. f \in [LiveSlots -> P] /\ DOMAIN f = LiveSlots
    BY <1>3
  <2> HIDE DEF f, P
  <2> QED
    BY <1>4, <1>5, <2>1 DEF Bijection, Injection, Surjection, IsInjective
<1>7. IsFiniteSet(LiveSlots)
  BY LiveFinite
<1>8. Cardinality(P) = Cardinality(LiveSlots)
  BY <1>6, <1>7, FS_Bijection DEF ExistsBijection
<1> QED
  BY <1>8 DEF UsedSizeExact, Idle
NoMembers == [n \in Names |-> NoValue]

LEMMA InitRefines == Init => Dict!Init
<1> SUFFICES ASSUME Init PROVE Dict!Init
  OBVIOUS
<1>1. api # "freed" /\ ret = NoValue
  BY DEF Init
<1>2. Live = {}
  BY DEF Init, Live, LiveSlots, Unmoved, Empty, NoRecords
<1>3. Meaning = NoMembers
  BY <1>2 DEF Meaning, NoMembers
<1> QED
  BY <1>1, <1>3 DEF Dict!Init, NoMembers

\* A step of the map is a step of the dictionary, or none.
LEMMA NextRefines ==
  ASSUME Hypotheses, TypeOK, SlotsOK, HeadOK, RecOK, UsedSizeExact, DictInv, ~ RehashDrops,
         [Next]_vars
  PROVE  [Dict!Next]_(Dict!vars)
<1> USE DEF table
<1>1. ASSUME Live' = Live, ret' = ret, api' = api \/ (api # "freed" /\ api' # "freed")
      PROVE  UNCHANGED Dict!vars
  <2>1. Meaning' = Meaning
    BY <1>1 DEF Meaning
  <2> QED
    BY <1>1, <2>1 DEF Dict!vars
<1>2. ASSUME UNCHANGED <<api, table, head, i>>
      PROVE  Live' = Live /\ Meaning' = Meaning
  BY <1>2 DEF Live, LiveSlots, Unmoved, Meaning
<1>3. CASE DictSetNew \/ DictUpdate \/ HashSet
  <2>1. /\ rec \in Stored /\ Meaning' = [Meaning EXCEPT ![Name[rec.k]] = rec.v]
        /\ api # "freed" /\ api' = api /\ ret' = ret
    BY <1>3, SetRefines
  <2>2. Name[rec.k] \in Names /\ rec.v \in Values
    BY <2>1, StoredKey DEF Names
  <2>3. Dict!Set(Name[rec.k], rec.v)
    BY <2>1 DEF Dict!Set
  <2> QED
    BY <2>2, <2>3 DEF Dict!Next
<1>4. CASE DictConvert \/ HashGrow
  <2>1. /\ pc = "set" /\ api # "freed" /\ api' # "freed" /\ ret' = ret
        /\ head' = records /\ i' = 0
    BY <1>4 DEF DictConvert, HashGrow, Resize
  <2>2. LiveSlots' = {}
    <3>1. PICK n : Resize(n)
      BY <1>4 DEF DictConvert, HashGrow
    <3> QED
      BY <3>1 DEF Resize, LiveSlots, Empty
  <2>3. Unmoved = {}
    BY <2>1, NoneUnmoved
  <2>4. Unmoved' = LiveSlots
    <3>1. \A j \in DOMAIN records : j >= 0
      BY SizesAssumption DEF TypeOK, Slots, DictSlots, Mask
    <3> QED
      BY <2>1, <3>1 DEF Unmoved, LiveSlots
  <2>5. Live' = Live
    BY <2>1, <2>2, <2>3, <2>4 DEF Live
  <2> QED
    BY <1>1, <2>1, <2>5
<1>5. CASE Rehash
  BY <1>1, <1>5, RehashRefines DEF Rehash
<1>6. CASE RehashDone
  <2>1. i \notin DOMAIN head /\ i \in Nat /\ head' = NoRecords /\ UNCHANGED <<api, records, ret>>
    BY <1>6 DEF RehashDone, TypeOK
  <2>2. Unmoved = {}
    <3>1. PICK n \in Nat : DOMAIN head = 0 .. n - 1
      BY DEF HeadOK
    <3> QED
      BY <2>1, <3>1 DEF Unmoved
  <2>3. Unmoved' = {} /\ LiveSlots' = LiveSlots
    BY <2>1 DEF Unmoved, LiveSlots, NoRecords
  <2>4. Live' = Live
    BY <2>1, <2>2, <2>3 DEF Live
  <2> QED
    BY <1>1, <2>1, <2>4
<1>7. ASSUME NEW k \in Keys, Get(k)
      PROVE  Dict!Next
  <2>1. Idle /\ api # "freed" /\ api' = api /\ ret' = Lookup(k)
        /\ UNCHANGED <<table, head, i>>
    BY <1>7 DEF Get, Idle
  <2>2. Name[k] \in Names /\ Lookup(k) = Meaning[Name[k]]
    BY <2>1, GetRefines
  <2>3. Dict!Get(Name[k])
    BY <1>2, <2>1, <2>2 DEF Dict!Get
  <2> QED
    BY <2>2, <2>3 DEF Dict!Next
<1>8. CASE Length
  <2>1. Idle /\ api # "freed" /\ api' = api /\ ret' = used_size
        /\ UNCHANGED <<table, head, i>>
    BY <1>8 DEF Length, Idle
  <2>2. ret' = Dict!Cardinality(Dict!Present)
    BY <2>1, LengthRefines DEF Dict!Present, Dict!Cardinality, Cardinality, Dict!IsFiniteSet, IsFiniteSet
  <2>3. Meaning' = Meaning
    BY <1>2, <2>1
  <2>4. Dict!Length
    BY <2>1, <2>2, <2>3 DEF Dict!Length
  <2> QED
    BY <2>4 DEF Dict!Next
<1>9. CASE Free
  <2>1. api # "freed" /\ api' = "freed" /\ ret' = ret
    BY <1>9 DEF Free, Idle
  <2>2. Dict!Free
    BY <2>1 DEF Dict!Free
  <2> QED
    BY <2>2 DEF Dict!Next
<1>10. CASE Fault \/ UNCHANGED vars \/ (\E p \in Pairs : SetCall(p))
  BY <1>1, <1>2, <1>10 DEF Fault, SetCall, vars
<1> QED
  BY <1>3, <1>4, <1>5, <1>6, <1>7, <1>8, <1>9, <1>10
  DEF Next, Insert, DictSetFault, HashGrowFault, LookupFault, FreeFault, Done, Hypotheses

\* A map from which nothing is removed, and whose moves find room for every
\* record, is a dictionary, however its hash codes collide.
THEOREM ImplementsDictionary == Hypotheses => (Spec /\ []~RehashDrops => Implements)
<1> SUFFICES ASSUME Hypotheses PROVE Spec /\ []~RehashDrops => Implements
  OBVIOUS
<1>1. TypeOK /\ SlotsOK /\ HeadOK /\ RecOK /\ UsedSizeExact /\ DictInv /\ ~RehashDrops
        /\ [Next]_vars => [Dict!Next]_(Dict!vars)
  BY NextRefines
<1> QED
  BY <1>1, InitRefines, DictInvAlways, PTL DEF Spec, Implements, Dict!Spec
=============================================================================
