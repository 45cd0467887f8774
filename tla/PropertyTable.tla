--------------------------- MODULE PropertyTable ---------------------------
(***************************************************************************)
(* The properties of an object and the elements of an array: the map behind *)
(* it (HMap and HObject, src/src/heap.rs 838-886 and 979-1073) and the two  *)
(* runtime functions that search it and grow it, rt_lookup_property and     *)
(* rt_grow_object (src/src/runtime.rs 3-118), which call each other.        *)
(*                                                                          *)
(* Slots, masks and hashes count words where the code counts bytes.  The    *)
(* words after a map belong to whatever was allocated next: what is read    *)
(* there is either nil or foreign.                                          *)
(***************************************************************************)
EXTENDS Integers, Sequences

CONSTANTS
  Nil, Foreign,     \* an empty slot; a word that is not the map's
  Names,            \* keys of objects
  Indices,          \* keys of arrays
  Values,           \* what is stored
  Sizes,            \* sizes of new maps
  DenseMax,         \* DENSE_LENGTH_MAX
  BitAnd(_, _),        \* the bitwise conjunction of two numbers
  Hash(_),          \* compute_hash, in words
  MaxSize,          \* bound: slots of a map, beyond which allocation fails
  MaxForeign,       \* bound: foreign words read
  MaxCalls          \* bound: calls of the runtime

ASSUME BoundsAssumption ==
  /\ Sizes \subseteq 1..MaxSize
  /\ {DenseMax, MaxSize, MaxForeign, MaxCalls} \subseteq Nat
  /\ Indices \subseteq -1..MaxSize

\* A hash is below 2^32; no mask reaches beyond 4 * MaxSize.
ASSUME HashAssumption == \A i \in 0..(4 * MaxSize) : Hash(i) \in 0..(4 * MaxSize)

ASSUME AndAssumption ==
  \A x \in 0..(4 * MaxSize), m \in 0..MaxSize : BitAnd(x, m) \in 0..m /\ BitAnd(x, m) <= x

VARIABLES
  isArray,  \* the tag of the object
  map,      \* its map: [size, slots]
  length,   \* of an array
  proto,    \* FALSE once the proto slot holds IC_DISABLED_VALUE
  stack,    \* the activations of the two functions, the running one last
  phase,    \* "idle", "running", "returned", "exhausted"
  result,   \* the slot the call returned
  call,     \* history: the call's key and insert flag
  written,  \* history: the value last stored under each index
  inserted, \* history: the indices insertions were called with
  foreign,  \* history: foreign words read
  calls,    \* history: calls made
  apart     \* history: whether no size of the map ever put two indices in one slot

vars == <<isArray, map, length, proto, stack, phase, result, call, written, inserted, foreign, calls, apart>>

\* The indices the runtime's own calls can use.
Numbers == -1..(4 * MaxSize)

ASSUME NilAssumption == Nil \notin Values \cup Names \cup Numbers \cup {Foreign}

NoSlot == -1

NewEmptyLonger(size) ==
  [size |-> size, slots |-> [i \in 0..(2 * size) |-> Nil]]

\* HMap::new_empty: size keys, then size values, all nil.
NewEmpty(size) == [size |-> size, slots |-> [i \in 0..(2 * size - 1) |-> Nil]]

\* Indices below the size have a slot each: true of powers of two.
KeepsApart(size) == \A i \in 0..(size - 1) : BitAnd(i, size - 1) = i

\* HArray::is_dense.
Dense(m) == isArray /\ m.size <= DenseMax

\* rt_to_number of a key, as an integer: what is no number counts as zero, and a
\* foreign word is taken to be no number.
Number(key) == IF key \in Numbers THEN key ELSE 0

Init ==
  /\ isArray \in BOOLEAN
  /\ \E size \in Sizes : map = NewEmpty(size)
  /\ length = 0
  /\ proto = TRUE
  /\ stack = <<>>
  /\ phase = "idle"
  /\ result = NoSlot
  /\ call = [key |-> Nil, insert |-> FALSE]
  /\ written = [i \in {j \in Indices : j >= 0} \cup {0} |-> Nil]
  /\ inserted = {}
  /\ foreign = 0
  /\ calls = 0
  /\ apart = KeepsApart(map.size)

\* The activation of rt_lookup_property; `at` is the slot its search has come to.
Lookup(key, insert) == [fn |-> "lookup", key |-> key, insert |-> insert, at |-> NoSlot]

(***************************************************************************)
(* The caller: generated code that looks a key up and, when it inserts,     *)
(* stores a value through the slot it gets.                                 *)
(***************************************************************************)

Call(key, insert) ==
  /\ phase = "idle" /\ calls < MaxCalls
  /\ phase' = "running"
  /\ stack' = <<Lookup(key, insert)>>
  /\ call' = [key |-> key, insert |-> insert]
  /\ inserted' = IF insert THEN inserted \cup {Number(key)} ELSE inserted
  /\ calls' = calls + 1
  /\ UNCHANGED <<isArray, map, length, proto, result, written, foreign, apart>>

Store(v) ==
  /\ phase = "returned" /\ call.insert /\ result # NoSlot
  /\ map' = [map EXCEPT !.slots[result] = v]
  /\ written' = IF Dense(map) THEN [written EXCEPT ![Number(call.key)] = v] ELSE written
  /\ phase' = "idle"
  /\ UNCHANGED <<isArray, length, proto, stack, result, call, inserted, foreign, calls, apart>>

\* A load, or nothing: no value is stored through the offset that stands for nil.
Load ==
  /\ phase = "returned" /\ (~call.insert \/ result = NoSlot)
  /\ phase' = "idle"
  /\ UNCHANGED <<isArray, map, length, proto, stack, result, call, written, inserted, foreign, calls, apart>>

(***************************************************************************)
(* rt_lookup_property.                                                      *)
(***************************************************************************)

Top == stack[Len(stack)]
Below == SubSeq(stack, 1, Len(stack) - 1)
Running(fn) == phase = "running" /\ Top.fn = fn

\* Where the search of a hash map for a key starts: only array indices are hashed.
Start(key) == IF isArray THEN BitAnd(Hash(Number(key)), map.size - 1) ELSE 0

\* The slot after the i-th, under the mask.
Following(i) == BitAnd(i + 1, map.size - 1)

MatchesEmpty(key, i) == map.slots[i] = key \/ map.slots[i] = Nil

\* rt_strict_cmp decides alone: an empty slot matches no key but nil.
Matches(key, i) == map.slots[i] = key

\* A return to rt_grow_object stores the value it is moving; one to the caller is
\* the end of the call.
Return(slot, m) ==
  /\ stack' = IF Below = <<>> THEN <<>>
              ELSE [Below EXCEPT ![Len(Below)].i = @ + 1]
  /\ map' = IF Below = <<>> \/ slot = NoSlot THEN m
            ELSE [m EXCEPT !.slots[slot] = Below[Len(Below)].value]
  /\ result' = IF Below = <<>> THEN slot ELSE result
  /\ phase' = IF Below = <<>> THEN "returned" ELSE phase

GrowSize(min) ==
  IF min > 2 * map.size THEN min * min ELSE 2 * map.size

LimitShort(dense) == IF dense THEN map.size - 1 ELSE 2 * map.size

\* The slots moved: original_size, twice the size, doubled again if dense.
Limit(dense) == IF dense THEN 4 * map.size ELSE 2 * map.size

\* The entry of rt_grow_object: the new map replaces the old one at once.
GrowObject(min) ==
  LET size == GrowSize(min)
      dense == isArray /\ size <= DenseMax
  IN IF size > MaxSize
     THEN phase' = "exhausted" /\ UNCHANGED <<map, stack, apart>>
     ELSE /\ map' = NewEmpty(size)
          /\ apart' = (apart /\ KeepsApart(size))
          /\ stack' = Append([stack EXCEPT ![Len(stack)].key = IF isArray THEN Number(@) ELSE @,
                                            ![Len(stack)].at = NoSlot],
                        [fn |-> "grow", old |-> map, dense |-> dense, i |-> 0,
                         limit |-> Limit(dense),
                         value |-> Nil])
          /\ UNCHANGED phase

SetLengthShort(n) == length' = IF Top.insert /\ length < n THEN n + 1 ELSE length

\* HArray::set_length when an insertion reaches past the end.
SetLength(n) == length' = IF Top.insert /\ length <= n THEN n + 1 ELSE length

Entering == Running("lookup") /\ Top.at = NoSlot

LookupNegative ==
  /\ Entering /\ isArray /\ Number(Top.key) < 0
  /\ Return(NoSlot, map)
  /\ UNCHANGED <<isArray, length, proto, call, written, inserted, foreign, calls, apart>>

LookupDense ==
  LET n == Number(Top.key) IN
  /\ Entering /\ Dense(map) /\ n >= 0
  /\ SetLength(n)
  /\ IF n <= map.size - 1
     THEN Return(BitAnd(n, map.size - 1), map) /\ UNCHANGED apart
     ELSE IF Top.insert
     THEN GrowObject(n) /\ UNCHANGED result
     ELSE Return(NoSlot, map) /\ UNCHANGED apart
  /\ UNCHANGED <<isArray, proto, call, written, inserted, foreign, calls>>

\* A hash map is searched from the slot of the key's hash.
LookupHash ==
  /\ Entering /\ ~Dense(map) /\ (isArray => Number(Top.key) >= 0)
  /\ IF isArray THEN SetLength(Number(Top.key)) ELSE UNCHANGED length
  /\ stack' = [stack EXCEPT ![Len(stack)].at = Start(Top.key)]
  /\ UNCHANGED <<isArray, map, proto, phase, result, call, written, inserted, foreign, calls, apart>>

\* The values follow the keys.
ValueSlot(i) == map.size + i

\* The end of a search: an empty slot disables the inline cache of the prototype.
Answer(i) ==
  /\ Return(ValueSlot(i), map)
  /\ proto' = (proto /\ map.slots[Top.at] # Nil)
  /\ UNCHANGED apart

\* One turn of the search, which ends at a match or where it began.
Probe ==
  /\ Running("lookup") /\ Top.at # NoSlot
  /\ IF Matches(Top.key, Top.at) THEN Answer(Top.at)
     ELSE IF Following(Top.at) # Start(Top.key)
     THEN /\ stack' = [stack EXCEPT ![Len(stack)].at = Following(@)]
          /\ UNCHANGED <<map, proto, phase, result, apart>>
     ELSE IF Top.insert THEN GrowObject(0) /\ UNCHANGED <<result, proto>>
     ELSE Answer(Start(Top.key))
  /\ UNCHANGED <<isArray, length, call, written, inserted, foreign, calls>>

(***************************************************************************)
(* The loop of rt_grow_object.                                              *)
(***************************************************************************)

\* The words a read of slot i of the old map may give.
Words(old, i) ==
  IF i < 2 * old.size THEN {old.slots[i]}
  ELSE IF foreign < MaxForeign THEN {Nil, Foreign} ELSE {Nil}

Move(key, value) ==
  stack' = Append([stack EXCEPT ![Len(stack)].value = value],
                  Lookup(key, TRUE))

Skip == stack' = [stack EXCEPT ![Len(stack)].i = @ + 1]

\* A word read behind the end.
Count(w, i) == foreign' = IF i >= 2 * Top.old.size /\ w = Foreign THEN foreign + 1 ELSE foreign

\* A dense array: slot i holds element i.
GrowDense ==
  /\ Running("grow") /\ Top.dense /\ Top.i < Top.limit
  /\ \E w \in Words(Top.old, Top.i) :
       /\ IF w = Nil THEN Skip ELSE Move(Top.i, w)
       /\ Count(w, Top.i)
  /\ UNCHANGED <<isArray, map, length, proto, phase, result, call, written, inserted, calls, apart>>

\* A hash map: slot i holds a key, its value as many slots later as are moved.
GrowHash ==
  /\ Running("grow") /\ ~Top.dense /\ Top.i < Top.limit
  /\ \E w \in Words(Top.old, Top.i + Top.limit) :
       LET key == Top.old.slots[Top.i] IN
       IF key = Nil THEN w = Nil /\ Skip /\ UNCHANGED foreign
                    ELSE Move(key, w) /\ Count(w, Top.i + Top.limit)
  /\ UNCHANGED <<isArray, map, length, proto, phase, result, call, written, inserted, calls, apart>>

\* rt_lookup_property starts over when the map has grown.
GrowReturns ==
  /\ Running("grow") /\ Top.i = Top.limit
  /\ stack' = Below
  /\ UNCHANGED <<isArray, map, length, proto, phase, result, call, written, inserted, foreign, calls, apart>>

Next ==
  \/ \E key \in (IF isArray THEN Indices ELSE Names) \cup {Nil}, insert \in BOOLEAN :
       Call(key, insert)
  \/ \E v \in Values : Store(v)
  \/ Load
  \/ LookupNegative
  \/ LookupDense
  \/ LookupHash
  \/ Probe
  \/ GrowDense
  \/ GrowHash
  \/ GrowReturns

Spec == Init /\ [][Next]_vars

(***************************************************************************)
(* Properties.                                                              *)
(***************************************************************************)

Contents == Values \cup Names \cup {Nil, Foreign}

TypeOK ==
  /\ isArray \in BOOLEAN
  /\ map.size \in 1..MaxSize
  /\ map.slots \in [0..(2 * map.size - 1) -> Contents]
  /\ length \in Nat
  /\ proto \in BOOLEAN
  /\ phase \in {"idle", "running", "returned", "exhausted"}
  /\ phase = "idle" => stack = <<>>
  /\ \A k \in DOMAIN stack :
       stack[k].fn = IF k % 2 = 1 THEN "lookup" ELSE "grow"
  /\ foreign \in 0..MaxForeign

Elements == {i \in DOMAIN written : written[i] # Nil}

\* An array whose sizes were all powers of two keeps every element through any number
\* of nested growths, even when foreign words are moved along with them
\* (runtime.rs 97-116): a lookup finds what was stored last under its index.
ElementsKept ==
  phase = "idle" /\ Dense(map) /\ apart =>
    \A i \in Elements : i < map.size /\ map.slots[i] = written[i]

\* Growth invents no elements but foreign words, and those only at indices the array
\* had no room for (the loop of runtime.rs 100-107 runs to twice the old map's end).
\* Every element counts in the length, which is one more than an index some insertion
\* was called with until growth comes upon such a word.
OnlyForeignElements ==
  phase = "idle" /\ Dense(map) =>
    /\ \A i \in 0..(map.size - 1) :
         apart /\ i \notin Elements /\ map.slots[i] # Nil =>
           map.slots[i] = Foreign /\ \E s \in Sizes : i >= 2 * s
    /\ \A i \in Elements : i < length
    /\ foreign = 0 /\ length > 0 => length - 1 \in inserted

\* A hash map never takes a key: an empty slot does not end the search
\* (runtime.rs 54), so that an insertion returns only for nil and otherwise grows the
\* map until memory is exhausted, and every other search, having found nothing,
\* answers with the value slot it started from, whichever key it was for.
HashNeverFills ==
  ~Dense(map) =>
    /\ \A i \in 0..(map.size - 1) : map.slots[i] = Nil
    /\ phase = "returned" /\ result # NoSlot =>
         /\ call.insert => call.key = Nil
         /\ result = map.size + Start(call.key)
=============================================================================
