-------------------------------- MODULE KMap --------------------------------
(***************************************************************************)
(* The map behind a kjson object (kmap.c, kmap.h), with the part of        *)
(* kjson.c that calls it: setting, looking up and removing a member,       *)
(* counting the members and freeing the object.                            *)
(*                                                                         *)
(* A map starts as a dictmap, DictThreshold records searched in order, and *)
(* becomes a hashmap, an open-addressing table, when those are full.  An   *)
(* insertion that finds no room within Delta slots of its home quadruples  *)
(* the table and moves every record.  The operations are sequential;       *)
(* an insertion is several steps here so that its loops can be seen.       *)
(***************************************************************************)
EXTENDS Integers, FiniteSets, FiniteSetsExt

CONSTANTS
  Keys,           \* the JSONString objects used as member names
  Values,         \* the reference-counted values that can be members
  Name,           \* key -> its text
  Byte0,          \* key -> its str[0]: unset memory when the text is empty
  Hash,           \* text -> HASH(text), any unsigned, 0 included
  Removable,      \* the keys the program may remove (a bound of the model)
  InitSizes,      \* the sizes passed to JSONObject_new
  DictThreshold,  \* DICTMAP_THRESHOLD, 3 in the code
  Delta,          \* DELTA, 16 in the code
  MaxRecords,     \* the largest table calloc can provide
  MaxCount,       \* INT_MAX, the largest reference count
  NULL,           \* no key: a null or uninitialised pointer
  NoValue         \* no value

\* 1 << LOG2(n): the least power of two that is not below n.
RoundUp(n) == Min({m \in {2 ^ e : e \in 0 .. n} : m >= n})

ASSUME SizesAssumption ==
  /\ DictThreshold \in Nat \ {0}
  /\ Delta \in Nat \ {0}
  /\ MaxRecords \in Nat /\ MaxRecords >= 2 * Delta
  /\ MaxCount \in Nat \ {0}
  /\ InitSizes \subseteq Nat /\ InitSizes # {}
  /\ \A n \in InitSizes : RoundUp(n) \in 1 .. MaxRecords /\ RoundUp(n) >= n
  /\ 4 * (DictThreshold + 1) >= Delta

ASSUME KeysAssumption ==
  /\ NULL \notin Keys
  /\ NoValue \notin Values
  /\ Keys \cap Values = {}
  /\ Removable \subseteq Keys
  /\ \A k \in Keys : Hash[Name[k]] \in Nat

VARIABLES
  api,              \* "dict" or "hash": DICT_API or HASH_API; "freed" after
  records,          \* the slots, a function on 0 .. n-1
  hash_list,        \* a dictmap's own copy of the hashes; 0 marks a free slot
  used_size,
  record_size_mask, \* a hashmap's number of slots, less one
  pc,               \* "idle", or the loop an insertion is in, or "fault"
  rec,              \* the record being inserted
  head, i,          \* the old table while its records move, and the next one
  count,            \* reference count of each key and value
  disposed,         \* the keys and values that were disposed of
  ret               \* what the last lookup or length call returned

table == <<records, used_size, record_size_mask>>
refs  == <<count, disposed>>
vars  == <<api, table, hash_list, pc, rec, head, i, refs, ret>>
-----------------------------------------------------------------------------
Refs == Keys \cup Values

HashCode(k) == Hash[Name[k]]

Records == [hash : Nat, k : Keys \cup {NULL}, v : Values \cup {NoValue}]

Empty == [hash |-> 0, k |-> NULL, v |-> NoValue]

NoRecords == [j \in {} |-> Empty]

NoHashes == [j \in {} |-> 0]

Pairs == [k : Keys, v : Values]

Record(p) == [hash |-> HashCode(p.k), k |-> p.k, v |-> p.v]

Stored == {Record(p) : p \in Pairs}

\* JSONString_equal: a text decides its hash code, but the first byte is
\* compared even when the length is 0.
Equal(a, b) == Name[a] = Name[b] /\ Byte0[a] = Byte0[b]

\* What a comparison of a stored key with k does not step over: an equal key,
\* or no key at all, where it faults.
Stops(stored, k) == stored = NULL \/ Equal(stored, k)

Mask == record_size_mask

Probe(h, d) == (h + d) % (Mask + 1)

\* Mutation: the probe stops one slot too early.
ProbesOneShort == 0 .. Delta - 2

Probes == 0 .. Delta - 1

DictSlots == 0 .. DictThreshold - 1

\* Mutation: equal hash codes are taken for equal names.
ScanByHash(k) ==
  IF api = "dict" THEN {j \in DictSlots : hash_list[j] = HashCode(k)}
                  ELSE {d \in Probes : records[Probe(HashCode(k), d)].hash = HashCode(k)}

\* The distances (hashmap) or slots (dictmap) at which looking k up stops.
Scan(k) ==
  IF api = "dict"
    THEN {j \in DictSlots : /\ hash_list[j] = HashCode(k)
                            /\ Stops(records[j].k, k)}
    ELSE {d \in Probes : LET r == records[Probe(HashCode(k), d)] IN
                           r.hash = HashCode(k) /\ Stops(r.k, k)}

SlotOf(k) == IF api = "dict" THEN Min(Scan(k))
                             ELSE Probe(HashCode(k), Min(Scan(k)))

\* Mutations: names are compared by address; a record with the same name is not
\* looked for; the probe runs over the whole table.
RoomByAddress(r) == {d \in Probes : LET s == records[Probe(r.hash, d)] IN
                                      s.hash = 0 \/ (s.hash = r.hash /\ s.k = r.k)}

RoomIfFree(r) == {d \in Probes : records[Probe(r.hash, d)].hash = 0}

RoomAnywhere(r) == {d \in 0 .. Mask : LET s == records[Probe(r.hash, d)] IN
                                        s.hash = 0 \/ (s.hash = r.hash /\ Equal(s.k, r.k))}

\* The distances, and the slot, at which storing r in the hashmap stops.
Room(r) == {d \in Probes : LET s == records[Probe(r.hash, d)] IN
                             s.hash = 0 \/ (s.hash = r.hash /\ Equal(s.k, r.k))}

RoomFor(r) == Probe(r.hash, Min(Room(r)))

\* The slots at which storing r in the dictmap stops.
DictRoom(r) == {j \in DictSlots :
                  \/ hash_list[j] = 0
                  \/ hash_list[j] = r.hash /\ Stops(records[j].k, r.k)}

\* The count after n calls of JSON_free from a count of c: the call that brings
\* it to 0 or less disposes of the object and sets its count to INT_MAX.
Disposes(c, n) == n > 0 /\ n >= c

CountAfter(c, n) == IF Disposes(c, n)
                      THEN MaxCount - (n - IF c > 1 THEN c ELSE 1)
                      ELSE c - n

\* n[x] calls of JSON_free on each x.
JSON_free(n) ==
  /\ count' = [x \in Refs |-> CountAfter(count[x], n[x])]
  /\ disposed' = disposed \cup {x \in Refs : Disposes(count[x], n[x])}

Once(v) == [x \in Refs |-> IF x = v THEN 1 ELSE 0]

\* The record the loop of hashmap_record_resize is at has no slot to go to.
RehashDrops == /\ pc = "rehash" /\ i \in DOMAIN head
               /\ head[i].hash # 0 /\ Room(head[i]) = {}

-----------------------------------------------------------------------------
Init ==
  \E init \in InitSizes :
    /\ api = IF init > DictThreshold THEN "hash" ELSE "dict"
    /\ records = IF init > DictThreshold
                   THEN [j \in 0 .. RoundUp(init) - 1 |-> Empty]
                   ELSE [j \in DictSlots |-> Empty]
    /\ record_size_mask = IF init > DictThreshold THEN RoundUp(init) - 1 ELSE 0
    /\ hash_list = IF init > DictThreshold THEN NoHashes
                                           ELSE [j \in DictSlots |-> 0]
    /\ used_size = 0
    /\ pc = "idle"
    /\ rec = Empty
    /\ head = NoRecords
    /\ i = 0
    /\ count = [x \in Refs |-> 0]
    /\ disposed = {}
    /\ ret = NoValue

Idle == pc = "idle" /\ api # "freed"

Fault == /\ pc' = "fault"
         /\ UNCHANGED <<api, table, hash_list, rec, head, i, refs, ret>>

\* Mutation: the value is not retained.
SetCallNoRetain(p) ==
  /\ Idle
  /\ disposed \cap {p.k, p.v} = {}
  /\ rec' = Record(p)
  /\ pc' = "set"
  /\ UNCHANGED <<api, table, hash_list, head, i, refs, ret>>

\* _JSONObject_set: the value is retained, then kmap_set.  A value that was
\* disposed of is not the program's to use again.
SetCall(p) ==
  /\ Idle
  /\ disposed \cap {p.k, p.v} = {}
  /\ count[p.v] < MaxCount
  /\ count' = [count EXCEPT ![p.v] = @ + 1]
  /\ rec' = Record(p)
  /\ pc' = "set"
  /\ UNCHANGED <<api, table, hash_list, head, i, disposed, ret>>

\* The call returns.
SetReturn == /\ pc' = "idle"
             /\ rec' = Empty
             /\ UNCHANGED <<api, record_size_mask, head, i, ret>>

DictSetNew ==
  /\ pc = "set" /\ api = "dict" /\ DictRoom(rec) # {}
  /\ LET j == Min(DictRoom(rec)) IN
       /\ hash_list[j] = 0
       /\ hash_list' = [hash_list EXCEPT ![j] = rec.hash]
       /\ records' = [records EXCEPT ![j] = rec]
  /\ used_size' = used_size + 1
  /\ SetReturn
  /\ UNCHANGED refs

DictUpdate ==
  /\ pc = "set" /\ api = "dict" /\ DictRoom(rec) # {}
  /\ LET j == Min(DictRoom(rec)) IN
       /\ hash_list[j] # 0
       /\ records[j].k # NULL
       /\ JSON_free(Once(records[j].v))
       /\ records' = [records EXCEPT ![j] = rec]
  /\ SetReturn
  /\ UNCHANGED <<used_size, hash_list>>

\* The hash matches a record that was removed, whose key is null.
DictSetFault ==
  /\ pc = "set" /\ api = "dict" /\ DictRoom(rec) # {}
  /\ LET j == Min(DictRoom(rec)) IN hash_list[j] # 0 /\ records[j].k = NULL
  /\ Fault

\* Mutations: the new table's mask is its size; its records are counted on top
\* of the old ones; the loop starts behind the first record.
ResizeMask(size) ==
  /\ head' = records
  /\ records' = [j \in 0 .. size - 1 |-> Empty]
  /\ record_size_mask' = size
  /\ used_size' = 0 /\ i' = 0 /\ pc' = "rehash"
  /\ UNCHANGED <<rec, refs, ret>>

ResizeNoReset(size) ==
  /\ head' = records
  /\ records' = [j \in 0 .. size - 1 |-> Empty]
  /\ record_size_mask' = size - 1
  /\ i' = 0 /\ pc' = "rehash"
  /\ UNCHANGED <<used_size, rec, refs, ret>>

ResizeSkipFirst(size) ==
  /\ head' = records
  /\ records' = [j \in 0 .. size - 1 |-> Empty]
  /\ record_size_mask' = size - 1
  /\ used_size' = 0 /\ i' = 1 /\ pc' = "rehash"
  /\ UNCHANGED <<rec, refs, ret>>

\* hashmap_record_resize, up to its loop: an empty table of size slots.
Resize(size) ==
  /\ head' = records
  /\ records' = [j \in 0 .. size - 1 |-> Empty]
  /\ record_size_mask' = size - 1
  /\ used_size' = 0
  /\ i' = 0
  /\ pc' = "rehash"
  /\ UNCHANGED <<rec, refs, ret>>

DictConvert ==
  /\ pc = "set" /\ api = "dict" /\ DictRoom(rec) = {}
  /\ api' = "hash"
  /\ hash_list' = NoHashes
  /\ Resize(2 * Delta)

\* hashmap_set_no_resize, where there is room: into a free slot, ...
Add(r) == /\ Room(r) # {}
          /\ records[RoomFor(r)].hash = 0
          /\ records' = [records EXCEPT ![RoomFor(r)] = r]
          /\ used_size' = used_size + 1
          /\ UNCHANGED refs

\* Mutation: the value that is overwritten is not released.
UpdateNoRelease(r) == /\ Room(r) # {}
                      /\ records[RoomFor(r)].hash # 0
                      /\ records' = [records EXCEPT ![RoomFor(r)] = r]
                      /\ UNCHANGED <<used_size, refs>>

\* ... or over the record with the same name, whose value is released.
Update(r) == /\ Room(r) # {}
             /\ records[RoomFor(r)].hash # 0
             /\ JSON_free(Once(records[RoomFor(r)].v))
             /\ records' = [records EXCEPT ![RoomFor(r)] = r]
             /\ UNCHANGED used_size

HashSet == /\ pc = "set" /\ api = "hash"
           /\ Add(rec) \/ Update(rec)
           /\ SetReturn
           /\ UNCHANGED hash_list

\* Mutation: the table is rebuilt at its old size.
HashGrowSameSize ==
  /\ pc = "set" /\ api = "hash" /\ Room(rec) = {}
  /\ 4 * (Mask + 1) <= MaxRecords
  /\ Resize(Mask + 1)
  /\ UNCHANGED <<api, hash_list>>

\* hashmap_set doubles the size and hashmap_record_resize doubles it again.
HashGrow ==
  /\ pc = "set" /\ api = "hash" /\ Room(rec) = {}
  /\ 4 * (Mask + 1) <= MaxRecords
  /\ Resize(4 * (Mask + 1))
  /\ UNCHANGED <<api, hash_list>>

\* calloc fails and its result is used unchecked.
HashGrowFault ==
  /\ pc = "set" /\ api = "hash" /\ Room(rec) = {}
  /\ 4 * (Mask + 1) > MaxRecords
  /\ Fault

\* One turn of the loop of hashmap_record_resize.  A record for which the new
\* table has no room is dropped: the loop just continues.
Rehash ==
  /\ pc = "rehash" /\ i \in DOMAIN head
  /\ i' = i + 1
  /\ \/ head[i].hash # 0 /\ (Add(head[i]) \/ Update(head[i]))
     \/ head[i].hash = 0 /\ UNCHANGED <<records, used_size, refs>>
     \/ RehashDrops /\ UNCHANGED <<records, used_size, refs>>
  /\ UNCHANGED <<api, record_size_mask, hash_list, pc, rec, head, ret>>

RehashDone ==
  /\ pc = "rehash" /\ i \notin DOMAIN head
  /\ head' = NoRecords
  /\ i' = 0
  /\ pc' = "set"
  /\ UNCHANGED <<api, table, hash_list, rec, refs, ret>>

\* What is left of a record in its slot.
Removed(r) == [r EXCEPT !.hash = 0, !.k = NULL]

\* JSONObject_remove: a dictmap's copy of the hash stays.
Remove(k) ==
  /\ Idle /\ Scan(k) # {}
  /\ records[SlotOf(k)].k # NULL
  /\ JSON_free(Once(records[SlotOf(k)].v))
  /\ records' = [records EXCEPT ![SlotOf(k)] = Removed(@)]
  /\ used_size' = used_size - 1
  /\ UNCHANGED <<api, record_size_mask, hash_list, pc, rec, head, i, ret>>

\* The value at the slot where the lookup stops.
Lookup(k) == IF Scan(k) = {} THEN NoValue ELSE records[SlotOf(k)].v

\* JSON_get and JSONObject_get.
Get(k) ==
  /\ Idle
  /\ Scan(k) # {} => records[SlotOf(k)].k # NULL
  /\ ret' = Lookup(k)
  /\ UNCHANGED <<api, table, hash_list, pc, rec, head, i, refs>>

\* A lookup, for a get or a remove, reads the null key of a slot.
LookupFault(k) ==
  /\ Idle /\ Scan(k) # {}
  /\ records[SlotOf(k)].k = NULL
  /\ Fault

\* JSON_length of an object.
Length ==
  /\ Idle
  /\ ret' = used_size
  /\ UNCHANGED <<api, table, hash_list, pc, rec, head, i, refs>>

\* The slots that iteration visits: those hashmap_api_next takes for live, or
\* the first used_size ones (dictmap_api_next).
LiveSlots == {j \in DOMAIN records : records[j].hash # 0}

Visited == IF api = "dict" THEN 0 .. used_size - 1 ELSE LiveSlots

\* The slots whose record kmap_dispose releases.
Released == {j \in Visited : api = "dict" /\ j \in DictSlots => hash_list[j] # 0}

\* A slot beyond the array, or one whose key is null.
Unreadable(j) == j \notin DOMAIN records \/ records[j].k = NULL

Holding(S, x) == {j \in S : x \in {records[j].k, records[j].v}}

\* JSON_free of an object nobody else refers to: a dictmap releases its keys
\* and values, a hashmap only its keys.
Free ==
  /\ Idle
  /\ ~ \E j \in Released : Unreadable(j)
  /\ JSON_free([x \in Refs |-> IF api = "hash" /\ x \in Values THEN 0
                                 ELSE Cardinality(Holding(Released, x))])
  /\ api' = "freed"
  /\ records' = NoRecords
  /\ hash_list' = NoHashes
  /\ UNCHANGED <<used_size, record_size_mask, pc, rec, head, i, ret>>

FreeFault ==
  /\ Idle
  /\ \E j \in Released : Unreadable(j)
  /\ Fault

\* The object is gone, or the program has crashed.
Done == /\ api = "freed" \/ pc = "fault"
        /\ UNCHANGED vars

Insert == \/ DictSetNew \/ DictUpdate \/ DictSetFault \/ DictConvert
          \/ HashSet \/ HashGrow \/ HashGrowFault
          \/ Rehash \/ RehashDone

Next == \/ \E p \in Pairs : SetCall(p)
        \/ Insert
        \/ \E k \in Removable : Remove(k)
        \/ \E k \in Keys : Get(k) \/ LookupFault(k)
        \/ Length
        \/ Free \/ FreeFault
        \/ Done

\* The loops of an insertion run on: nothing else runs in the meantime.
Fairness == WF_vars(Insert)

Spec == Init /\ [][Next]_vars

FairSpec == Spec /\ Fairness
-----------------------------------------------------------------------------
(***************************************************************************)
(* What the map holds: its live slots and, while a table is being moved,   *)
(* those of the old table that are still to come.                          *)
(***************************************************************************)
Unmoved == {j \in DOMAIN head : j >= i /\ head[j].hash # 0}

Live == {records[j] : j \in LiveSlots} \cup {head[j] : j \in Unmoved}

\* The records that refer to v: in the table, and in the old one while it moves.
Held(v) == {j \in DOMAIN records : records[j].k # NULL /\ records[j].v = v}

Pending(v) == {j \in DOMAIN head : j >= i /\ head[j].k # NULL /\ head[j].v = v}

\* How many references to v the map owns, the one to be stored included.
Owned(v) == Cardinality(Held(v)) + Cardinality(Pending(v))
            + (IF rec.v = v THEN 1 ELSE 0)

Names == {Name[k] : k \in Keys}

Meaning == [n \in Names |->
              IF \E r \in Live : Name[r.k] = n
                THEN (CHOOSE r \in Live : Name[r.k] = n).v
                ELSE NoValue]

Dict == INSTANCE Dictionary
        WITH Removable <- {Name[k] : k \in Removable},
             Members <- Values,
             Absent  <- NoValue,
             dict    <- IF api = "freed" THEN [n \in Names |-> NoValue] ELSE Meaning,
             open    <- api # "freed"
\* A map from which nothing is removed, whose keys do not make it drop a
\* record, is a dictionary.
Implements == Dict!Spec
-----------------------------------------------------------------------------
Slots == CASE api = "dict"  -> DictSlots
            [] api = "hash"  -> 0 .. Mask
            [] api = "freed" -> {}

\* The type of every variable (kmap.h), and which of them are in use when.
TypeOK ==
  /\ api \in {"dict", "hash", "freed"}
  /\ records \in [Slots -> Records]
  /\ hash_list \in [IF api = "dict" THEN DictSlots ELSE {} -> Nat]
  /\ used_size \in Int
  /\ record_size_mask \in 0 .. MaxRecords - 1
  /\ pc \in {"idle", "set", "rehash", "fault"}
  /\ pc = "rehash" => api = "hash"
  /\ rec \in Records
  /\ pc \in {"set", "rehash"} => rec \in Stored
  /\ head \in [DOMAIN head -> Records]
  /\ i \in Nat
  /\ count \in [Refs -> Int]
  /\ disposed \subseteq Refs
  /\ ret \in Values \cup {NoValue} \cup Int
-----------------------------------------------------------------------------
\* Every member of a hashmap lies within Delta slots of its home: no lookup
\* has to probe further than hashmap_get does to find it.
WithinProbe ==
  api = "hash" => \A j \in LiveSlots :
                    \E d \in Probes : j = Probe(records[j].hash, d)

\* used_size, which JSON_length returns, counts the live slots of the table,
\* also half-way through a move and after one dropped a record.
UsedSizeExact == api # "freed" => used_size = Cardinality(LiveSlots)

\* A member, or the value of an insertion in progress, was not disposed of,
\* and its count covers every place that holds it: no later update, removal
\* or free can dispose of it while the map still refers to it.
NoneDangling ==
  api # "freed" =>
    \A v \in Values : Owned(v) > 0 => v \notin disposed /\ count[v] >= Owned(v)

\* A map that lost no member to a move owns exactly the references counted:
\* overwriting a member releases the old value once, growing releases none.
NoneLeaked ==
  api # "freed" => \A v \in Values \ disposed : count[v] = Owned(v)

\* Growing drops a record only from a map of more than Delta members.
SmallMapsKeepMembers == RehashDrops => Cardinality(LiveSlots) >= Delta

\* The map never holds two members of the same name.
UniqueNames ==
  /\ \A j, l \in LiveSlots : Name[records[j].k] = Name[records[l].k] => j = l
  /\ \A j, l \in Unmoved : Name[head[j].k] = Name[head[l].k] => j = l
  /\ \A j \in LiveSlots, l \in Unmoved : Name[records[j].k] # Name[head[l].k]

\* Iterating over the object and looking its keys up agree: each member that
\* JSON_OBJECT_EACH visits is the one JSON_get returns for its key.
IterationAgreesWithGet ==
  Idle => \A j \in Visited : records[j].k # NULL /\ Lookup(records[j].k) = records[j].v

\* An insertion that has returned is what a lookup of its key finds next,
\* whatever was removed, grown, dropped or duplicated before.
SetReadsBack ==
  [][\A k \in Keys :
       pc = "set" /\ pc' = "idle" /\ rec.k = k => Lookup(k)' = rec.v]_vars

\* An insertion terminates: the table does not grow for ever.
SetTerminates == (pc = "set") ~> (pc \in {"idle", "fault"})
=============================================================================
