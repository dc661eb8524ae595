------------------------------ MODULE Document ------------------------------
(***************************************************************************)
(* The references between the values of kjson documents: the counts of     *)
(* JSONRC, who raises them (kstack_push, _JSONObject_set, JSON_Retain) and *)
(* how JSON_free takes a document apart.  Documents are built by the       *)
(* parser and by the program; a map is the set of its members here, with   *)
(* the one difference that matters when it is freed: a hashmap releases    *)
(* its keys only.                                                          *)
(*                                                                         *)
(* A count of 0 is that of a value nobody retained: the next JSON_free     *)
(* disposes of it, as it does when the count is 1.  held[v] is how many    *)
(* calls of JSON_free the program owes for v.  A 64-bit integer and an     *)
(* error are scalars too: JSON_free does nothing for them.                 *)
(***************************************************************************)
EXTENDS Integers, FiniteSets, FiniteSetsExt, Sequences, SequencesExt

CONSTANTS
  MaxNodes,       \* bound: the values that are made, numbered as allocated
  Names,          \* the texts of strings
  DictThreshold,  \* DICTMAP_THRESHOLD, 3 in the code
  MaxShared,      \* bound: how far the program raises a count
  MaxStack,       \* bound: the depth of the parser's stack
  MaxHeld,        \* bound: the values the program has in its hands at once
  MaxCount        \* INT_MAX

ASSUME BoundsAssumption ==
  /\ MaxNodes \in Nat /\ DictThreshold \in Nat
  /\ MaxShared \in Nat \ {0} /\ MaxHeld \in Nat \ {0}
  /\ MaxStack \in Nat
  /\ MaxCount \in Nat /\ MaxCount >= 2 /\ MaxCount >= MaxShared
  /\ Names # {}

Nodes == 1 .. MaxNodes

\* A number, a Boolean or null: it is not counted.
Scalar == 0

VARIABLES
  kind,      \* node -> what it is
  elems,     \* array -> its elements, a sequence
  members,   \* object -> a function from names to a key and a value
  hashed,    \* the objects whose map is a hashmap
  count,     \* node -> its reference count
  held,      \* node -> the references the program owes a JSON_free for
  stack,     \* ins->stack while a text is parsed
  building,  \* the container parseObject or parseArray has made, or 0
  left,      \* field_size: how many members it has still to set
  pc,        \* "program" or "parse"
  todo,      \* the calls of JSON_free in progress, innermost first
  spent      \* history: nodes to which a reference was given up uncounted

nodes == <<kind, elems, members, hashed>>
parse == <<stack, building, left, pc>>
vars  == <<nodes, count, held, parse, todo, spent>>
-----------------------------------------------------------------------------
NoMembers == [n \in {} |-> [key |-> 0, val |-> 0]]

Unused == {n \in Nodes : kind[n] = "unused"}

\* The next address the memory pool gives out.
Fresh == Min(Unused)

Live == {n \in Nodes : kind[n] \notin {"unused", "disposed"}}

\* Those that JSON_free has begun to take apart.
Dying == {n \in Nodes : \E t \in DOMAIN todo : todo[t] = <<"finish", n>>}

\* The keys and the values of an object's members, under their names.
KeysHeld == [o \in Nodes |-> [a \in DOMAIN members[o] |-> members[o][a].key]]
ValsHeld == [o \in Nodes |-> [a \in DOMAIN members[o] |-> members[o][a].val]]

MemberKeys(o) == {members[o][a].key : a \in DOMAIN members[o]}

MemberVals(o) == {members[o][a].val : a \in DOMAIN members[o]}

Children(n) == (ToSet(elems[n]) \cup MemberKeys(n) \cup MemberVals(n)) \ {Scalar}

Parents(n) == {p \in Live : n \in Children(p)}

\* What can be reached from n.
Below(n) ==
  LET reach[d \in 0 .. MaxNodes] ==
        IF d = 0 THEN {n}
                 ELSE reach[d - 1] \cup UNION {Children(m) : m \in reach[d - 1]}
  IN  reach[MaxNodes]

Idle == pc = "program" /\ todo = <<>>

\* The program has v in its hands, or may get at it through a container, even
\* one that is lost.
Known(v) == v \in Live /\ (held[v] > 0 \/ Parents(v) # {})

\* A container that took v without a reference is not its only owner.
Sharable(v) == Known(v) /\ (count[v] > 0 \/ held[v] > 0)

Init ==
  /\ kind = [n \in Nodes |-> "unused"]
  /\ elems = [n \in Nodes |-> <<>>]
  /\ members = [n \in Nodes |-> NoMembers]
  /\ hashed = {}
  /\ count = [n \in Nodes |-> 0]
  /\ held = [n \in Nodes |-> 0]
  /\ stack = <<>> /\ building = 0 /\ left = 0 /\ pc = "program"
  /\ todo = <<>>
  /\ spent = {}

\* JSON_Init: a new node of kind k, with a count of c.
Make(k, c) == /\ Unused # {}
              /\ kind' = [kind EXCEPT ![Fresh] = k]
              /\ count' = [count EXCEPT ![Fresh] = c]

\* The program has a hand free for another value.
HandFree == Cardinality({v \in Nodes : held[v] > 0}) < MaxHeld

\* JSON_free of each of a sequence of values.
Calls(seq) == [n \in DOMAIN seq |-> <<"free", seq[n]>>]

\* The value is handed to the program.
Hand(v) == held' = [held EXCEPT ![v] = @ + 1]
-----------------------------------------------------------------------------
\* JSONString_new, JSONArray_new(jm, 0), JSONObject_new(jm, size).
NewString == /\ Idle /\ HandFree
             /\ Make("string", 0)
             /\ Hand(Fresh)
             /\ UNCHANGED <<elems, members, hashed, parse, todo, spent>>

NewArray == /\ Idle /\ HandFree
            /\ Make("array", 0)
            /\ Hand(Fresh)
            /\ UNCHANGED <<elems, members, hashed, parse, todo, spent>>

NewObject(size) == /\ Idle /\ HandFree
                   /\ Make("object", 0)
                   /\ hashed' = IF size > DictThreshold THEN hashed \cup {Fresh} ELSE hashed
                   /\ Hand(Fresh)
                   /\ UNCHANGED <<elems, members, parse, todo, spent>>

\* JSON_Retain of a counted value that the program gets at through a container.
Retain(v) == /\ Idle /\ HandFree /\ Sharable(v)
             /\ held[v] = 0 /\ count[v] < MaxShared
             /\ count' = [count EXCEPT ![v] = @ + 1]
             /\ Hand(v)
             /\ UNCHANGED <<nodes, parse, todo, spent>>

\* JSONArray_append takes what the program has, and takes no reference.
ArrayAppend(a, v) == /\ Idle /\ Known(a) /\ kind[a] = "array"
                     /\ held[v] > 0 /\ a \notin Below(v)
                     /\ elems' = [elems EXCEPT ![a] = Append(@, v)]
                     /\ held' = [held EXCEPT ![v] = @ - 1]
                     /\ UNCHANGED <<kind, members, hashed, count, parse, todo, spent>>

\* JSONArray_set: what was there is the program's again.
ArraySet(a, i, v) ==
  /\ Idle /\ Known(a) /\ kind[a] = "array"
  /\ i \in DOMAIN elems[a]
  /\ held[v] > 0 /\ a \notin Below(v)
  /\ elems' = [elems EXCEPT ![a][i] = v]
  /\ held' = [held EXCEPT ![v] = @ - 1, ![elems[a][i]] = @ + 1]
  /\ UNCHANGED <<kind, members, hashed, count, parse, todo, spent>>

\* kmap_set of a key k with the name a, after v was retained: a record of that
\* name loses its key and releases its value.
Store(o, a, k, v) ==
  /\ members' = [members EXCEPT ![o] =
                   [b \in DOMAIN @ \cup {a} |-> IF b = a THEN [key |-> k, val |-> v] ELSE @[b]]]
  /\ hashed' = IF Cardinality(DOMAIN members[o] \cup {a}) > DictThreshold
                 THEN hashed \cup {o} ELSE hashed
  /\ todo' = IF a \in DOMAIN members[o]
               THEN Calls(<<members[o][a].val>>) ELSE <<>>

\* The key of the record that kmap_set overwrites.
Overwritten(o, a) == IF a \in DOMAIN members[o] THEN {members[o][a].key} ELSE {}

\* Mutation: what is stored is not retained.
CountedNot(c, v) == c

\* JSONObject_Retain.
Counted(c, v) == IF v = Scalar THEN c ELSE [c EXCEPT ![v] = @ + 1]

\* JSONObject_set(jm, o, a, v): a key is made, the value is retained.  It is
\* JSONString_new and JSONObject_setObject.
SetMember(o, a, v) ==
  /\ Idle /\ kind[o] = "object" /\ Known(o)
  /\ v = Scalar \/ (Sharable(v) /\ o \notin Below(v) /\ count[v] < MaxShared)
  /\ Unused # {}
  /\ kind' = [kind EXCEPT ![Fresh] = "string"]
  /\ count' = Counted(count, v)
  /\ Store(o, a, Fresh, v)
  /\ held' = [n \in Nodes |-> IF n = v /\ count[v] = 0 THEN held[n] - 1 ELSE held[n]]
  /\ spent' = spent \cup Overwritten(o, a)
  /\ UNCHANGED <<elems, parse>>

\* Mutation: the value is released and stays in the map.
RemoveMemberKept(o, a) ==
  /\ Idle /\ Known(o) /\ o \in hashed
  /\ a \in DOMAIN members[o]
  /\ todo' = Calls(<<members[o][a].val>>)
  /\ spent' = spent \cup {members[o][a].key}
  /\ UNCHANGED <<kind, elems, members, hashed, count, held, parse>>

\* JSONObject_remove, of a hashmap: the value is released, the key is not.
RemoveMember(o, a) ==
  /\ Idle /\ Known(o) /\ o \in hashed
  /\ a \in DOMAIN members[o]
  /\ members' = [members EXCEPT ![o] = Restrict(members[o], DOMAIN members[o] \ {a})]
  /\ todo' = Calls(<<members[o][a].val>>)
  /\ spent' = spent \cup {members[o][a].key}
  /\ UNCHANGED <<kind, elems, hashed, count, held, parse>>

\* JSON_free, called by the program.
Free(v) == /\ Idle /\ held[v] > 0
           /\ held' = [held EXCEPT ![v] = @ - 1]
           /\ todo' = <<<<"free", v>>>>
           /\ UNCHANGED <<nodes, count, parse, spent>>
-----------------------------------------------------------------------------
\* JSON_parse begins.  It does not touch the values there are; bound: it comes
\* first, the program makes others afterwards.
ParseBegin == /\ Idle /\ Unused = Nodes
              /\ pc' = "parse"
              /\ UNCHANGED <<nodes, count, held, stack, building, left, todo, spent>>

Parsing == pc = "parse" /\ building = 0 /\ todo = <<>>

\* parseString, for a key or a value, which kstack_push retains.
ParseString == /\ Parsing /\ Unused # {} /\ Len(stack) < MaxStack
               /\ Make("string", 1)
               /\ stack' = Append(stack, Fresh)
               /\ UNCHANGED <<elems, members, hashed, held, building, left, pc, todo, spent>>

\* parseNumber, parseBoolean and parseNull in a container: kstack_push does not
\* count a scalar.
ParseScalar == /\ Parsing /\ Len(stack) < MaxStack
               /\ stack' = Append(stack, Scalar)
               /\ UNCHANGED <<nodes, count, held, building, left, pc, todo, spent>>

\* The end of parseArray: its elements are moved off the stack.  Bound: scalars
\* are the values of members only.
ParseArray(n) ==
  /\ Parsing /\ Unused # {} /\ n <= Len(stack)
  /\ \A i \in Len(stack) - n + 1 .. Len(stack) : stack[i] # Scalar
  /\ Make("array", 0)
  /\ elems' = [elems EXCEPT ![Fresh] = SubSeq(stack, Len(stack) - n + 1, Len(stack))]
  /\ stack' = SubSeq(stack, 1, Len(stack) - n)
  /\ building' = Fresh
  /\ left' = 0
  /\ UNCHANGED <<members, hashed, held, pc, todo, spent>>

IsString(v) == v # Scalar /\ kind[v] = "string"

\* The end of parseObject: JSONObject_new(jm, n), ...
ParseObject(n) ==
  /\ Parsing /\ Unused # {} /\ 2 * n <= Len(stack)
  /\ \A f \in 1 .. n : IsString(stack[Len(stack) - 2 * f + 1])
  /\ Make("object", 0)
  /\ hashed' = IF n > DictThreshold THEN hashed \cup {Fresh} ELSE hashed
  /\ building' = Fresh
  /\ left' = n
  /\ UNCHANGED <<elems, members, held, stack, pc, todo, spent>>

\* Mutation: key and value are popped in the wrong order.
ParseMemberSwapped(a) ==
  /\ building # 0 /\ left > 0 /\ todo = <<>>
  /\ LET k == Last(stack)
         v == stack[Len(stack) - 1]
     IN  /\ count' = Counted(count, v)
         /\ Store(building, a, k, v)
         /\ spent' = spent \cup ({v} \ {Scalar}) \cup Overwritten(building, a)
  /\ stack' = SubSeq(stack, 1, Len(stack) - 2)
  /\ left' = left - 1
  /\ UNCHANGED <<kind, elems, held, building, pc>>

\* ... then one member after the other, the last one first; a is the text of the
\* key.  The reference of the stack to the value stays counted.
ParseMember(a) ==
  /\ building # 0 /\ left > 0 /\ todo = <<>>
  /\ LET v == Last(stack)
         k == stack[Len(stack) - 1]
     IN  /\ count' = Counted(count, v)
         /\ Store(building, a, k, v)
         /\ spent' = spent \cup ({v} \ {Scalar}) \cup Overwritten(building, a)
  /\ stack' = SubSeq(stack, 1, Len(stack) - 2)
  /\ left' = left - 1
  /\ UNCHANGED <<kind, elems, held, building, pc>>

\* A container inside another is pushed, and retained by kstack_push.  One at the
\* top is the document, which is the program's; or there is more in the text, and
\* parse throws while nothing but its variable json refers to the container.
ParseContainerEnd ==
  /\ building # 0 /\ left = 0 /\ todo = <<>>
  /\ \/ /\ count' = [count EXCEPT ![building] = 1]
        /\ stack' = Append(stack, building)
        /\ UNCHANGED <<pc, held, spent>>
     \/ /\ stack = <<>>
        /\ pc' = "program"
        /\ Hand(building)
        /\ UNCHANGED <<count, stack, spent>>
     \/ /\ stack = <<>>
        /\ pc' = "program"
        /\ spent' = spent \cup {building}
        /\ UNCHANGED <<count, held, stack>>
  /\ building' = 0
  /\ UNCHANGED <<nodes, left, todo>>

\* A text that is a string: the value is made, and an exception thrown.
ParseTopString == /\ Parsing /\ stack = <<>>
                  /\ Make("string", 0)
                  /\ pc' = "program"
                  /\ spent' = spent \cup {Fresh}
                  /\ UNCHANGED <<elems, members, hashed, held, stack, building, left, todo>>

\* An exception before that: the stack is disposed of, the values on it are not.
ParseError == /\ Parsing
              /\ spent' = spent \cup (ToSet(stack) \ {Scalar})
              /\ stack' = <<>>
              /\ pc' = "program"
              /\ UNCHANGED <<nodes, count, held, building, left, todo>>
-----------------------------------------------------------------------------
\* What JSON_free(v) calls JSON_free for, when it was the last: the elements;
\* the keys; the values of a dictmap too.
Released(v) ==
  LET names == SetToSeq(DOMAIN members[v])
      keys  == [n \in DOMAIN names |-> KeysHeld[v][names[n]]]
      vals  == [n \in DOMAIN names |-> ValsHeld[v][names[n]]]
  IN  Calls(IF kind[v] = "array" THEN elems[v]
            ELSE IF v \in hashed THEN keys ELSE keys \o vals)

\* What v holds is read for the last time.
TakeApart(v) == /\ elems' = [elems EXCEPT ![v] = <<>>]
                /\ members' = [members EXCEPT ![v] = NoMembers]
                /\ hashed' = hashed \ {v}

\* JSON_dispose, and the memory of v is given back.
Dispose(v) == /\ kind' = [kind EXCEPT ![v] = "disposed"]
              /\ count' = [count EXCEPT ![v] = MaxCount]
              /\ spent' = spent \ {v}

Called(v) == todo # <<>> /\ Head(todo) = <<"free", v>>

\* Mutation: a count of 0 is one reference more.
LastReferenceBelow(v) == count[v] - 1 < 0

\* JSON_CanFree, after JSON_Release.
LastReference(v) == count[v] - 1 <= 0

\* JSONNOP_free.
FreeScalar == /\ todo # <<>> /\ Head(todo) = <<"free", Scalar>>
              /\ todo' = Tail(todo)
              /\ UNCHANGED <<nodes, count, held, parse, spent>>

\* _JSON_free of a value that others refer to: its count goes down.
FreeShared(v) == /\ Called(v) /\ ~LastReference(v)
                 /\ count' = [count EXCEPT ![v] = @ - 1]
                 /\ todo' = Tail(todo)
                 /\ UNCHANGED <<nodes, held, parse, spent>>

\* The last reference to a value that holds no others.
FreeLeaf(v) == /\ Called(v) /\ LastReference(v) /\ Released(v) = <<>>
               /\ TakeApart(v)
               /\ Dispose(v)
               /\ todo' = Tail(todo)
               /\ UNCHANGED <<held, parse>>

\* The last reference to a container: what it holds is freed first.
FreeContainer(v) ==
  /\ Called(v) /\ LastReference(v) /\ Released(v) # <<>>
  /\ count' = [count EXCEPT ![v] = @ - 1]
  /\ todo' = Released(v) \o <<<<"finish", v>>>> \o Tail(todo)
  /\ spent' = IF v \in hashed THEN spent \cup (MemberVals(v) \ {Scalar}) ELSE spent
  /\ TakeApart(v)
  /\ UNCHANGED <<kind, held, parse>>

\* The end of JSONObject_free and JSONArray_free.
FreeReturn(v) == /\ todo # <<>> /\ Head(todo) = <<"finish", v>>
                 /\ Dispose(v)
                 /\ todo' = Tail(todo)
                 /\ UNCHANGED <<elems, members, hashed, held, parse>>

\* The bound of the model is reached and nothing is left to free.
Done == /\ Idle /\ Unused = {}
        /\ UNCHANGED vars

Program == \/ NewString \/ NewArray
           \/ \E size \in {0, DictThreshold + 1} : NewObject(size)
           \/ \E v \in Nodes : Retain(v) \/ Free(v)
           \/ \E a, v \in Nodes : ArrayAppend(a, v)
           \/ \E a, v \in Nodes : \E i \in DOMAIN elems[a] : ArraySet(a, i, v)
           \/ \E o \in Nodes, v \in Nodes \cup {Scalar}, a \in Names : SetMember(o, a, v)
           \/ \E o \in Nodes, a \in Names : RemoveMember(o, a)

Parser == \/ ParseBegin \/ ParseString \/ ParseScalar
          \/ \E n \in 0 .. MaxStack : ParseArray(n) \/ ParseObject(n)
          \/ \E a \in Names : ParseMember(a)
          \/ ParseContainerEnd \/ ParseTopString \/ ParseError

Freeing == \/ FreeScalar
           \/ \E v \in Nodes :
                FreeShared(v) \/ FreeLeaf(v) \/ FreeContainer(v) \/ FreeReturn(v)

Next == Program \/ Parser \/ Freeing \/ Done

Spec == Init /\ [][Next]_vars
-----------------------------------------------------------------------------
\* How often x occurs in a sequence, or among what a function yields.
Occurrences(x, f) == Cardinality({n \in DOMAIN f : f[n] = x})

\* The same for a function's functions: the elements, the keys or the values of
\* all containers.
References(x, f) ==
  Cardinality({r \in UNION {{p} \X DOMAIN f[p] : p \in DOMAIN f} : f[r[1]][r[2]] = x})

\* The references to v that are owned: by a container, by the parser, by the
\* program, or by a JSON_free still to be run.
Owners(v) ==
  References(v, elems) + References(v, KeysHeld) + References(v, ValsHeld)
    + Occurrences(v, stack) + (IF building = v THEN 1 ELSE 0)
    + held[v] + Occurrences(<<"free", v>>, todo)

\* The references a count stands for: 0 is that of the value's maker.
Counts(v) == Max({count[v], 1})
-----------------------------------------------------------------------------
Values == Nodes \cup {Scalar}

TypeOK ==
  /\ kind \in [Nodes -> {"unused", "string", "array", "object", "disposed"}]
  /\ elems \in [Nodes -> Seq(Values)]
  /\ members \in [Nodes -> UNION {[A -> [key : Nodes, val : Values]] : A \in SUBSET Names}]
  /\ \A n \in Nodes :
       /\ elems[n] # <<>> => kind[n] = "array"
       /\ DOMAIN members[n] # {} => kind[n] = "object"
       /\ \A a \in DOMAIN members[n] : IsString(members[n][a].key)
  /\ hashed \subseteq {o \in Nodes : kind[o] = "object"}
  /\ count \in [Nodes -> -1 .. MaxCount]
  /\ held \in [Nodes -> Nat]
  /\ stack \in Seq(Values)
  /\ building \in Values /\ left \in 0 .. MaxStack
  /\ pc \in {"program", "parse"}
  /\ todo \in Seq({"free", "finish"} \X Values)
  /\ spent \subseteq Nodes

\* What can be reached is there: no container in use, no place of the parser's
\* stack, no reference of the program and no JSON_free still to be run refers to
\* a value that JSON_free has disposed of.
NoDangling ==
  /\ \A n \in Live : Children(n) \subseteq Live
  /\ ToSet(stack) \ {Scalar} \subseteq Live
  /\ \A v \in Nodes : held[v] > 0 => v \in Live
  /\ \A t \in DOMAIN todo : todo[t] # <<"free", Scalar>> => todo[t][2] \in Live

\* A value has no more owners than its count stands for, while documents are
\* parsed, shared and taken apart.
CountsCover == \A v \in Live \ Dying : Owners(v) <= Counts(v)

\* References are lost at six places only: members the parser sets, the keys of
\* members that are overwritten or removed, the values of a freed hashmap, the
\* stack an exception abandons, the container that is complete when parse throws
\* for what is behind it, and a text that is a string.  All other counts are
\* exact, so that freeing what one was given frees everything.
OnlySpentLeaks == \A v \in Live \ Dying : v \notin spent => Owners(v) = Counts(v)
=============================================================================
