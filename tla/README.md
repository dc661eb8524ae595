# Verification of kjson

TLA+ specifications of kjson, a JSON parser and document library in C
(`src/kjson`), with TLC configurations that check them on small instances and
TLAPS proofs that hold for every instance.

## The system

kjson parses a text into a document of values, lets a program look values up,
change objects and arrays, iterate over them, and writes a document out again.
It is a sequential library: nothing runs concurrently and nothing is persisted.
Its hard parts are data structures that change shape while in use (the map of an
object turns from a *dictmap* into a *hashmap* and is rebuilt as it grows; an
array turns from inline storage into a list), manual memory management
(reference counts, a memory pool), and a recursive-descent parser that shares
one value stack between all calls and leaves through `longjmp`.

| component | code | state | operations | hard behaviour | what makes it correct |
|---|---|---|---|---|---|
| map of an object | `kmap.c`, `kmap.h` | records, hash list or mask, `used_size` | get, set, remove, next, init, dispose | conversion, growth that may drop records, holes left by removals, null keys | it is a dictionary; members stay where lookups find them; insertions end |
| object operations | `kjson.c:233-269`, `791-805` | reference counts | new, set, get, remove, length, free | a value is retained before the old one is released | no member is disposed of or leaked |
| array operations | `kjson.c:208-231`, `kjson.h:421-513`, `karray.h` | a union of inline elements and a list | new, append, get, set, iterate, free | the arms overlap; growth | it is the list of what was put in |
| memory pool | `kmemory_pool.h` | blocks per size class, fill level | Init, Alloc, Free, Delete | boundaries of blocks | no byte is given out twice; every block is freed once |
| parser | `kjson.c:271-789`, `kstream.h`, `kstack.h`, `kexception.h` | position, calls in progress, value stack | parse | the end of the text in any call, exceptions, the shared stack | it accepts JSON, builds what is written, and stops |
| document | `kjson.c:52-206`, `kjson.h:174-204` | a count per node | Retain, Release, free | releases and references that do not match | nothing is used after it was freed |
| numbers | `kjson.c:621-681`, `kpow10.c` | the variables of `parseNumber` | parse | overflow, signs, where a number ends | a number is read as it is written |
| strings, serialiser | `kjson.c:366-517`, `807-990`, `kstring_builder.h` | a buffer | parse, write | escapes, invalid UTF-8, room in the buffer, buffers on error paths | reading and writing keep the meaning; buffers are neither overrun nor lost |
| boxing | `knumbox.h`, `kjson.h:153-172` | none | encode, decode | bit patterns that mean "no value" | decoding inverts encoding |
| hashing | `khash.h` | none | hash | | |

The parser calls the map to build objects (`_JSONObject_set`), pushes values on
the stack and moves them into arrays; the map calls back into `kjson.c` to
compare and release keys and values; every node comes from the memory pool.

## The modules

| module | what it is |
|---|---|
| `KMap` | the map of one object with the calls of `kjson.c` that reach it |
| `Dictionary` | what the map promises: names to values |
| `KMap_proofs` | theorems about `KMap`: its table and its lookups; its members and their counts; what it is without removals |
| `JSONArray` | one array, with `karray.h` |
| `ValueList` | what the array promises: a list |
| `JSONArray_proofs` | theorems about `JSONArray` |
| `MemoryPool`, `MemoryPool_proofs` | the memory pool, theorems about it |
| `Parser`, `Parser_proofs` | the control flow of the parser over a text chosen as it is read, theorems about it |
| `JSONGrammar` | what a JSON text is, as an automaton over symbols with a stack of open containers: the reference for `Parser` |
| `AcceptedTexts` | the texts that `Parser` accepts, against `JSONGrammar` |
| `JSONWritten` | how a value is written as a text: the reference for what `Parser` builds and `Serialiser` writes |
| `Serialiser` | how `JSON_toString` writes arrays and objects, over the values of `Parser` |
| `Document`, `Document_proofs` | the references between nested values: who counts them, who gives them back; theorems about them |
| `NumBox` | a value in a word of 64 bits |
| `Number`, `Number_proofs` | `parseNumber`; theorems about it and about `NumBox`, which it extends |
| `Strings`, `Strings_proofs` | one string: parsed or made, written, freed; theorems about it |
| `Recursion` | induction, and what a recursive function is, in a form the provers can use; `Parser_proofs`, `Number_proofs` and `Strings_proofs` cite it |
| `MCKMap`, `MCJSONArray`, `MCMemoryPool`, `MCParser`, `MCDocument`, `MCNumber`, `MCStrings` | instances for TLC; `MCParser` also holds the properties that compare `Parser` and `Serialiser` with `JSONWritten` |

### KMap

`api`, `records`, `hash_list`, `used_size` and `record_size_mask` are the fields
of `dictmap_t` and `hashmap_t`. `count` and `disposed` are the reference counts
of keys and values and the objects `JSON_dispose` was called on. An insertion is
the one operation with loops, so it is taken apart: `pc` says whether it is about
to store the record `rec` (`hashmap_set`, `dictmap_set`) or is moving record `i`
of the old table `head` (`hashmap_record_resize`). `SetCall` is
`_JSONObject_set` up to the call of `kmap_set`; `DictSetNew`, `DictUpdate`,
`DictConvert` are the ways `dictmap_set` goes on, `HashSet` and `HashGrow` those
of `hashmap_set`; `Rehash` is a turn of the loop. `Remove`, `Get`, `Length`,
`Free` are one step each. `Owned` are the references of the map: `Held` by the live
records, `Pending` in the part of the old table that is still to be moved, and the
record in hand during an insertion. Where the code reads through a null key, or through
the unchecked result of `calloc`, the model goes to `pc = "fault"` and stops:
`DictSetFault`, `LookupFault`, `FreeFault`, `HashGrowFault`.

Keys are `JSONString` objects with a text (`Name`), a hash code per text and
their first byte, which the code compares even for empty texts. The hash
function is a parameter. Hash codes are compared as the code compares them,
code 0 included.

### JSONArray

`word` holds the two words that are `raw.ary` in one arm of the union, and of
which the first is `array.list` in the other. `heap` holds the cells of the
lists; an array allocates at most three, named after the call that allocates
them. Appending is `AppendInline`, `AppendThird` (the change of the arm) or
`AppendToList`; `AddCapacity` and `AddCells` are `ARRAY_add`. `New` is the state
`JSONArray_new` leaves, `Parsed` that at the end of `parseArray`. Memory that
was not written is `Garbage`.

### MemoryPool

A block is filled from its start. `given` is the history of what `Alloc`
returned, `freed` counts the calls of `free` on each block. `malloc` returns a
fresh block and does not fail. Large requests are modelled because the pool handles
them; kjson itself asks for structures only, which are small.

### Parser

A symbol is a punctuation character, white space, a digit, or a whole string or
word; strings that are not closed have symbols of their own, because the two
loops over a string treat the end of the text differently. `frames` are the
calls of `parseArray` and `parseObject`, each with its `stack_top`; `pc` is the
place where the next character is read or inspected, `then` the place to go to
behind `skip_space`. The range `[s, e)` that `JSON_parse_` is given may hold NULs
(`InnerNUL`), as in `test_kjson.c:80` and `:121` and `test_whitespace.c:36`, whose
ranges include the NUL of the C string: at one, `skip_space` returns 0 as it does at
the end of the text, and what lies behind it is not looked at. The symbol `NUL` is the
byte at `e`, taken to be 0 where the code reads it; a text that is accepted at a
NUL of the range is accepted without that byte. `Throw` is `longjmp` and the handler of `JSON_parse2`.
Values are kept as trees; an object as the list of calls of `_JSONObject_set`
that build it, in their order. After the end of the text the code reads what
lies behind it: the model ends there, in `pc = "overrun"`.

### Serialiser

`Serialised` is `_JSON_toString` for arrays and objects, with the order in which
a dictmap yields its members. `MCParser` applies it to what `Parser` returned.

### Document

The values that are counted are numbered in the order in which they are
allocated; 0 stands for all that are not, 64-bit integers and errors included,
for which `JSON_free` does nothing. `count` is `JSONRC.count`, with `MaxCount` for
the `INT_MAX` that `JSON_dispose` writes: a further `JSON_free` would count down
from there unseen, which is why `NoDangling` also looks at calls still to be made.
`Known` is generous: the program is also allowed what only a lost container refers to.
`held` is a ghost: the calls of `JSON_free` the program owes for a value, one for
each value it made, got from `JSON_parse` or retained. `JSONArray_append` takes no
reference: the array takes over the program's. `_JSONObject_set` takes one, and a
value that nobody had counted is the object's alone afterwards.
The program is assumed to keep to that, and not to share a value that an array
holds uncounted (`Sharable`). `stack`, `building` and `left` are the parser's; its
keys and values are pushed in any order that `parseObject` could have pushed them.
`building` is the container that `parseArray` or `parseObject` has made;
`ParseContainerEnd` is what becomes of it: it is pushed for the container it is in, is
returned to the program, or is lost because `parse` throws for what is behind it.
`Owners` are all references there are to a value: those of elements, of keys and of
values of members (`References` counts them), of the parser's stack and the container
it is building, of the program, and of the calls of `JSON_free` still to be made.
`todo` is the C stack of `JSON_free`; every value that is released becomes a call on
it, those that are not counted too, for which `FreeScalar`, the `JSONNOP_free` of the
code, does nothing. `FreeContainer` is `JSONObject_free` and
`JSONArray_free` up to the loops over what they hold, `FreeReturn` what follows
those. An object's map is a function from names, with the one fact of its
representation that matters to releasing it (`hashed`).

### NumBox and Number

A word is the 17 bits of the tag and the 47 below them. `Number` has one action per
step of `parseNumber` that reads a character or branches; `c` is the character the C
code has in its variable of that name, always the last one read. `Wrap` is two's
complement; in C signed overflow is undefined, and wrapping is what the build does.
`DoubleOf` keeps the operands of the last multiplication or division, which is done
in floating point.

### Strings

Characters are bytes. `sb` is the string builder in use, first the parser's, then
the writer's; `heap` says which buffers are allocated: the builder's, which becomes
that of a long UString, a long String's own, and the output. The writer's string is
the only element of an array, or the key of an object whose only value is `null`.
`Meaning` is the reference: what a JSON string means in UTF-16 code units, written
from RFC 4627 and RFC 3629.

Definitions whose comment begins with *Mutation* are faulty variants of the
definition below them. No specification uses them; each makes one property fail
and so shows what the property is about.

## The runs

| run | bounds | what it checks |
|---|---|---|
| `kmap_build` | 4 keys, two of one text; 2 values; Delta 2, dictmaps of 2; tables up to 64; counts up to 3 | without removals the map is a dictionary (`Implements`), has no two members of a name, owns exactly the references counted, iterates over what lookups return, and every insertion ends |
| `kmap_remove` | 4 keys of which three collide in tables of 4 and 16, which is the limit of calloc | what also holds with removals, dropped records, faults: members within reach of a probe, exact `used_size`, no member disposed of, records dropped only from maps of more than Delta members, insertions are found by the next lookup |
| `kmap_dict_remove` | the same, from a dictmap | violated: iteration after a removal (see below) |
| `json_array` | arrays of up to 8 elements of 2 values, made by every way of construction | the array is a list; arms of the union; ownership of lists |
| `json_get_array` | appended arrays | violated: `JSON_getArray` (see below) |
| `memory_pool` | 5 blocks of 16 bytes, 3 classes, requests of 1, 3, 5, 8 and 9 bytes | no overlap, containment, blocks freed once |
| `parser` | every text of up to 9 symbols, NULs within the range included | JSON is accepted; what else is accepted; values and texts correspond; stack discipline; the parser stops; what is written is JSON again |
| `parser_lenient` | texts of up to 4 symbols | violated: a list that nothing closes (see below) |
| `document` | 4 values, 2 names, dictmaps of 1, 4 places on the stack, 2 values in hand, counts raised to 2 | nothing in use refers to what was disposed of; no value has more owners than its count stands for; the six places where references are lost |
| `number` | texts of up to 6 characters, digits 0, 1, 2, 8; int up to 11, int64 up to 127, 2 powers of ten | integers and doubles are those that are written, within the widths; where a number ends |
| `number_sign` | the same | violated: negative exponents (see below) |
| `strings` | strings of up to 3 characters and escapes, inline up to 4 bytes, as value and key | meaning is kept; no write beyond a buffer; buffers are released; the writer ends on well-formed strings |

Why the bounds are enough. `Delta` and `DictThreshold` are 2 instead of 16 and
3: two records fill a dictmap or a probe run, so that three colliding keys force
a conversion, a growth, a growth of the new table in the middle of an insertion
and, in `kmap_remove`, a dropped record. Counts reach their limit of 3. Eight
elements let the lists of 3, 4 and 8 cells grow. The pool's blocks are given up
with every possible rest. Nine symbols are the least for an object of two
members with different values, and for any nesting of two containers with white
space around each symbol that the code treats specially. Four values are
the least for a key and a value in an object in an array, and for a member that is
overwritten by a shared value; dictmaps of one member make a map of two a hashmap.
With the integers of `number`, texts of two digits overflow int, of three int64,
and exponents of 2 leave the table, so that each of these cases leaves room for
the other parts of a number. Three characters of up to four bytes, or escapes,
make strings shorter than, as long as and longer than the inline text, and outputs
that fill a buffer as it was doubled; code points lie on both sides of each
boundary of `writeUnicode`; the raw characters are one of each length, a stray byte
and one that lacks its continuation.

Fairness. `kmap_build` uses weak fairness of the loops of an insertion, `parser`
of the parser's steps, `strings` of the writer's: all are straight-line code of one
thread which nothing interrupts.
No other run needs fairness. Every specification has a stuttering `Done` for the states in
which the program cannot go on, so deadlock is checked; only in `MemoryPool`,
whose `Free` does nothing and is always possible, that check says nothing.

### Disagreements with the code

- `kmap_dict_remove`. `dictmap_api_remove` clears the hash and key of the record
  but not the dictmap's `hash_list`, and lowers `used_size`, by which iteration
  counts slots. Iteration then yields a record with a null key, and a lookup of
  the name reads through it (`kmap.c:280-303`). `test/test_kjson.c:133` asserts
  that what iteration yields is what `JSON_get` returns.
- `json_get_array`. `JSON_getArray` returns `entry.array.list` also for arrays
  that keep their elements inline (`kjson.h:244`), against the API in `README.md:32`.
- `parser_lenient`. `parseArray` and `parseObject` take the end of the text for a
  closing bracket, so that `[` is accepted (`kjson.c:597`), against their own
  message "Missing comma or end of JSON Array". `LenientOnlyAtTheEnd`
  characterises what is accepted beyond JSON. A text is taken up to its end or to
  its first NUL, behind which anything may follow (`kjson.c:747-749`). What is taken
  is JSON, or has a comma and white space before a brace, or is cut off by the end
  of the text, not by a NUL, with one container open; where scalars are documents, it
  may also be blank, or end in a string with an escape that is not closed.
- `number_sign`. `parseNumber` compares with `-` the character behind the sign
  (`kjson.c:651-652`): every negative exponent is read as a positive one, against
  `exp += (sign) ? -exp2 : exp2` and `test/test11.json:1`, a text of such numbers.

What passing properties leave out, because the code does otherwise:

- `OnlySpentLeaks` names where references are lost. A member's value that was
  parsed keeps the reference `kstack_push` took in addition to that of the object
  (`kjson.c:573-581`); the keys of members that are overwritten or removed are not
  released (`kmap.c:62-66`, `157-167`); freeing a hashmap releases its keys only
  (`kmap.c:125-137`); after an exception the values on the stack are not released
  (`kstream.h:80-84`); nor is the document, with everything below it, when "Rest of
  token are not parsed" is thrown, which is then neither on the stack nor returned
  (`kjson.c:747-749`); nor is a top-level string that RFC 4627 forbids
  (`kjson.c:764-770`).
- `BuffersReleased` excepts a UString of exactly 16 bytes, whose buffer is neither
  copied (the length with its NUL is compared, `kjson.c:80`) nor freed (the length
  without it is, `kjson.c:133`); an invalid hexadecimal digit (`kjson.c:430`); and
  a string that is not closed (`kjson.c:500`).
- `MeaningKept` excepts strings that `JSON_toString` has no form for. Keys and
  strings without escapes are written as they are, so that the key of `{"\"":1}` is
  written `"""`, and a program's string with a quote in it likewise; control
  characters without a letter are written raw; and a character beyond 0xffff in a
  string that has an escape becomes `\u` and five digits.
- `WriterEnds` is about well-formed strings. A byte that begins no UTF-8 sequence
  has length 0 (`kjson.c:874`), and the loop writes `\u0000` for it for ever; where
  a sequence is not continued `toUTF8` returns null and the loop reads there.
- `TakesLongestNumber` takes `-`, `-.5` and `1.` for numbers, as the code does.
- `DoublesExact` is about exponents the table has: `kjson_pow10` asserts the rest,
  and below -308 the result is -INFINITY, negated for a negative number.

Seen while modelling and covered by no property: names with hash code 0 are lost
(`kmap.c:57`); a list made by `JSONArray_new(jm, n)` with n > 2 is lost at the first
append; a name that is inserted behind a hole in a probe run gets a second record
(`kmap.c:164`), of which only the lookup right after the insertion is checked
(`SetReadsBack`); the double 0.0 is the word of `JSON_NOP`, so that `JSON_isValid` denies it and
`parseObject` asserts it away (`kjson.c:578`; theorem `OnlyZeroIsNOP`).

## The proofs

| theorem | says | for every |
|---|---|---|
| `KMap_proofs!Typing` | `TypeOK` always holds; the table has mask + 1 slots | keys, hash function, sizes, Delta |
| `KMap_proofs!MembersWithinProbe` | `WithinProbe` always holds | the same |
| `KMap_proofs!InsertionsFound` | `SetReadsBack`: the lookup after an insertion finds what was inserted | the same, after any removals and dropped records |
| `KMap_proofs!SmallMapsKept` | `SmallMapsKeepMembers`: a rebuild drops no record of a map of up to Delta | the same |
| `KMap_proofs!NeverDangling` | `NoneDangling`: no member is disposed of while the map refers to it | the same |
| `KMap_proofs!NothingLeaked` | `NoneLeaked`: counts are exactly the map's references | the same; no hash code is 0, no record is dropped |
| `KMap_proofs!UsedSizeCounts` | `UsedSizeExact`: `used_size` is the number of members | the same; no hash code is 0 |
| `KMap_proofs!NamesUnique`, `IterationAgrees` | `UniqueNames`, `IterationAgreesWithGet` | the same; no hash code is 0, nothing is removed |
| `KMap_proofs!ImplementsDictionary` | `KMap` implements `Dictionary` | the same; and no record is dropped |
| `Document_proofs!Typing` | `TypeOK` always holds | numbers of values, names, depths, counts |
| `Document_proofs!NeverDangling` | `NoDangling`: nothing refers to what was disposed of | the same |
| `Document_proofs!CountsAlwaysCover` | `CountsCover`: no more owners than are counted | the same |
| `Document_proofs!LeaksAreSpent` | `OnlySpentLeaks`: counts are exact but for the six places where references are lost | the same |
| `Parser_proofs!Typing` | `TypeOK` always holds: the text is read within its bounds | texts of any length, any nesting |
| `Parser_proofs!StackKept` | `StackDiscipline`: each call finds on the shared stack what it pushed | the same |
| `Parser_proofs!JSONAccepted` | `JSONIsAccepted`: what is rejected, or read past its end, is no JSON text nor a beginning of one; a NUL behind the text is no reason to reject it | texts of any length and depth, both values of `UseRFC4627` |
| `Parser_proofs!LenientAtTheEnd` | `LenientOnlyAtTheEnd`: what is accepted is JSON up to its end or first NUL, but for the exceptions it names | the same |
| `MemoryPool_proofs!Typing`, `NoOverlap`, `BlocksFreedOnce` | `TypeOK`, `Disjoint`, `FreedOnce` | alignments, block size, requests |
| `MemoryPool_proofs!WithinBlocks` | `Contained`: what is given out is aligned and inside one block | the same |
| `JSONArray_proofs!Typing`, `ArmsMatch`, `NoListLost` | `TypeOK`, `ArmMatchesSize`, `ListsOwned` | elements, lengths |
| `JSONArray_proofs!ImplementsList` | `JSONArray` implements `ValueList` | the same |
| `Number_proofs!IntegersUnboxed`, `PointersUnboxed`, `BooleansUnboxed` | unboxing gives back what was boxed, and its type | widths of int and payload |
| `Number_proofs!OnlyZeroIsNOP` | `JSON_NOP` is the double 0.0 and no value of another type | the same |
| `Number_proofs!Typing` | `TypeOK` always holds: every number stays within its width | widths, digits, lengths |
| `Number_proofs!IntegersReadExactly` | `IntegersExact`: an integer that `int64_t` has room for is read, boxed and unboxed to itself | the same |
| `Number_proofs!DoublesReadExactly` | `DoublesExact`: a double is computed from the mantissa and the power of ten that are written | the same; exponents in the table and without a minus |
| `Number_proofs!LongestNumberTaken` | `TakesLongestNumber`: the longest number is taken, and one character more is read | the same |
| `Strings_proofs!Typing` | `TypeOK` always holds: buffers hold bytes, `next` stays within the string | characters, escapes, code points, lengths, inline size |
| `Strings_proofs!RoomIsMade` | `WithinCapacity`: no unchecked addition goes beyond a buffer | the same |
| `Strings_proofs!BuffersAreReleased` | `BuffersReleased`: no buffer is lost, but in the three cases it names | the same |

### Assumptions

Those on the constants are named in the modules, and TLC evaluates them in every run:

- `SizesAssumption`: initial sizes round up to a table that can be allocated and
  that is not smaller; at least one table of 2 Delta can be; a hashmap is made with
  at least Delta / 4 slots, as 4 (`DICTMAP_THRESHOLD` + 1) = Delta in the code, so
  that the first growth, by four, makes it wide enough for a whole probe.
- `KeysAssumption`: null is no key, keys are no values, hash codes are natural numbers.
- `BoundsAssumption`: the bounds of `Document` are natural numbers; `MaxCount`, which
  is `INT_MAX`, is at least 2 and no less than what the program raises a count to:
  counts do not overflow.
- `PoolAssumption`: a request's class exists and fits a block, and the unit of
  alignment is not 0. `ArrayAssumption`: a list of n cells grows to more than n.
  `ElementsAssumption`: elements, lists and unwritten memory can be told apart.
  `BoxAssumption`: an int fits the payload. `NumberAssumption`: an `int64_t` holds more
  than an int, and the table of powers of ten has no more entries than an int has
  positive values (308 in `kpow10.c`), so that an exponent of the table is no
  wrapped one. `StringsAssumption`: characters are bytes, and what follows `\u` has
  four digits. `ParserAssumption`: `UseRFC4627` is a Boolean.

Integers have their width where the code depends on it, in `Number`. Capacities in
`Strings` have none: `RoomIsMade` is about buffers of less than 2^29 bytes, for which
doubling does not overflow.

Four hypotheses are those of single theorems, because the code does not keep the
property without them:

- `NoZeroHash`. The hash code 0 marks a free slot (`kmap.c:57`): a member with that
  code is overwritten by the next one that is stored there, its references are not
  given back, and `used_size` counts it still.
- `[]~RehashDrops`. `hashmap_record_resize` ignores that `hashmap_set_no_resize` found
  no room (`kmap.c:70-90`): the record and its references are gone.
  `SmallMapsKept` says that this takes more than Delta members.
- `Removable = {}`. `hashmap_api_remove` leaves a hole at which the search for a free
  slot stops, so that a name behind the hole gets a second record; and
  `dictmap_api_remove` leaves its `hash_list` alone. `kmap_dict_remove` is the violation.
- `SameBytes`. `JSONString_equal` compares the first bytes of empty texts too
  (`kjson.c:104`), which nobody wrote: keys of one text must agree in that byte.

Each is met by an instance that is checked: the first and the last by all `kmap` runs,
all of them by `kmap_build`.

### The arguments

*KMap, the table.* A probe never leaves the table because its size is mask + 1, which
`TypeOK` says of `hashmap_record_reset`; a record is stored only in a slot of `Room`,
which lies within Delta of its home by definition, and removals and updates keep the
hash and slot of every record that stays live. Rebuilding starts with an empty table,
in which nothing is out of reach. `SetReadsBack` needs besides that live slots hold
keys with their own hash codes, and that the copies in `hash_list` agree where a
record is (`SlotsOK`); then the slot an insertion chose, the first that is free or has
the key, is the first that a lookup stops at. `HeadOK` says that there is an old table
only while its records move.

*KMap, small maps.* `WideEnough`: a table that is being filled has at least Delta
slots. A probe that finds no room in it has inspected Delta different slots, since
adding 0 .. Delta - 1 to a hash code is injective modulo the number of slots, and all
of them are live; so the map had Delta members and the one that is dropped.

*KMap, counts.* The invariant `Covered` says of each value that it is disposed of only
if nothing is owned, and that its count is no less than what is owned. Every step is
classified, for each value, as one of `Keep`, `Gain`, `Release` (both sides change
together) or `Lose` (a reference disappears and the count stays); a move takes a record
from `Pending` to `Held` and is a `Keep`. Each of the four preserves `Covered`, and
only `Lose` breaks equality, which needs a zero hash code or a dropped record.

*KMap, the dictionary.* `NoGaps`: the slots a probe passes on the way to a member are all
live; `DictInOrder`: a dictmap is filled from its start. With them the slot an insertion
chooses is the only one that its name can have (`RightSlot`), which keeps `UniqueNames`,
and lookups stop at members only, which is iteration. For the refinement the abstract
map is what the live records, the rest of the old table and the record in hand mean
together; a move does not change that, so the loops of an insertion are stutters.

*Document.* The inductive invariant is a ledger: `Covered` bounds the owners of a node
by what its count stands for while it is secure (there, and not being taken apart),
by 0 otherwise, with equality for nodes that lost no reference. `CountsCover` alone
is not inductive: it says nothing of what is disposed of, and a `JSON_free` that is
pending must own its reference for `NoDangling` to survive it. `Endings` says that
what is taken apart has given up what it held and is disposed of once, `Building` that
the values on the parser's stack have the one reference `kstack_push` counted. The
steps move references between containers, stack, program and pending calls; the
lemmas on `Occurrences` and `References` say how each of these changes when a sequence,
or what one node holds, is replaced.

*Parser.* `StackDiscipline` says of each call of `parseArray` and `parseObject` that its
`stack_top` lies within the stack and below that of the calls it made, and of
`parseObject` that keys and values alternate: an even number of them above
`stack_top`, one more between a key and its value (`OnStack` with a parity). It needs
`Places`: which places in the code have which kind of call as their innermost, that
`first` finds no element pushed yet, and that the outermost call begins at 0, which is
why nothing is left on the stack when a document is returned.

*Parser, the grammar.* `JSONIsAccepted` and `LenientOnlyAtTheEnd` follow from a
simulation. `Now` is where the grammar's automaton is after the characters that were
read, and `InStep` says for each place of the parser what it must be: what it expects
(`Expected`), that the containers it has open are the calls in progress (`Calls`), and
whether it is inside a number. Where the parser is
lenient they part, and the invariant says where that may be: `Excused`, the grammar is
dead and the parser reads on, behind a comma and white space in front of a brace or
with a scalar for a document that must be a container; `CutShort`, the text has ended in a
container or string that is still open. At a NUL, of the range or at its end, what
counts is where the automaton was in front of it (`Before`): `Finishing`, for a text
that is about to be accepted, speaks of that. `TextRead` relates `pos`, `AtEnd` and what was
looked at, and `Decided` says of a text that was accepted or rejected what `InStep` said
when it was. Each action has a lemma that moves automaton and parser together;
they rest on three facts about the automaton: reading one symbol more is one step, the
dead state stays dead, and a beginning of a JSON text is not dead.

*Strings.* `IInv` says besides that a capacity is positive and covers what is in the
buffer, in the writer's loop with one byte to spare for the closing quote (`Roomy`),
and which buffers are allocated at each place (`Allocated`): the parser's builder from
the first escape on, and of a finished string the one that its kind and length call
for (`Own`). That a turn of the loop has room is a bound on the bytes it adds, six
and four of the twice eight reserved, and that `Doubled` reaches what it is asked for.

*Number.* What is computed wraps around and so stays within its width whatever the
digits (`Typing`). The invariant `Reading` says for the rest that there are places at
which the text is cut into sign, integer, fraction and exponent (`Shape`), and that
`val`, `exp`, `exp2` and `type` are what the parts cut there stand for, wrapped
(`Values`): wrapping early makes no difference to sums and products. The properties
speak of *the* parts of a text, so `CutsAgree` is needed: a text can be cut in one way
only. That nothing longer is a number is `LongestTaken`: the character that was looked at
last belongs to no part that could go on (`Stops`, `Missing`). An integer that fits its
width is not changed by wrapping, and `IntegersUnboxed` takes it through its box.

*Induction.* A recursive function is a `CHOOSE`, of which nothing is known until it is
shown that there is one; and the library's induction takes a predicate as a parameter,
which the provers cannot instantiate. `Recursion` has both in a first-order form:
induction over a set (`InductionTo`, `Induction`), and that a function defined by steps
from 0 exists and is the only one (`RecursionDefines`, `RecursionUnique`). With it the
folds of the grammar, the value of digits, and the repeated additions and doublings of
the string builder are proved about.

*MemoryPool.* The inductive invariant says besides that pages share no block, that what
was given from the current block of a page lies below its fill level, and that fill
levels are aligned; a new region starts at the fill level or in a fresh block, and a
class is a multiple of the unit. *JSONArray*: `TypeOK` and `ArmMatchesSize` need each
other, since what `Cell` reads is an element only if the arm is the one the size
selects; the refinement then follows from where each operation leaves the cells.
*NumBox*: the flag of a type is between 1 and 15, so that its tag lies above that of
every double, and different for each type.

### Only model-checked

- Liveness: `SetTerminates`, `ParserStops`, `WriterEnds`.
- `ParsesToItsText` and `WritesJSON`: they apply `Written` and `Serialised`, recursive
  operators over trees, which the prover does not take.
- `MeaningKept`: the meaning of a text before and after is a recursion over both
  texts at different places; the provers would need its unfolding at each character.

## Not modelled

The hash function, of which `KMap` is independent; floating point: which double a
mantissa and a power of ten give, and `%g`; `libtoa`, a submodule that is not part of
the tree, of which `Strings` assumes that it writes four hexadecimal digits where
they suffice; the position of an object's iterator while members are set; failing
`malloc`, but for the `calloc` of the map; tools, tests and benchmarks; the SSE2
variants in `kjson.c`, which are disabled by `#if 0`.

## What is left

The position of an object's iterator while members are set is not modelled. Of the
safety properties, `MeaningKept` is the one that could still be proved, with an
invariant that says at each place of the parser and of the writer which code units
have been read or written.
