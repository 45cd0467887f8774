------------------------------ MODULE Objects ------------------------------
(***************************************************************************)
(* The objects of src/src/heap.rs word by word: what each constructor       *)
(* allocates and writes, where the accessors look, how many words copy_to   *)
(* moves, and how a string made of two others is flattened when its         *)
(* characters are asked for.                                                *)
(*                                                                          *)
(* A space is its words in the order they are handed out, one page that     *)
(* does not fill up: pages are Space's.  The program is followed through    *)
(* one collection.  Its copies are made in the temporary space and in the   *)
(* one they are promoted to; then the space collected takes the temporary   *)
(* space's page over and hands it out again from its first word on, while   *)
(* the copies lie there.  From then on `heap` is what was handed out and    *)
(* written since, and `before` the heap as the swap found it: what survives *)
(* in it the program leaves alone.                                          *)
(*                                                                          *)
(* One character stands for the eight bytes of a word.  A small heap to     *)
(* start from spares the steps that build it.                               *)
(***************************************************************************)
EXTENDS Integers, Sequences, FiniteSets

CONSTANTS
  MinOldGen,    \* MIN_OLD_SPACE_GEN
  MaxSlots,     \* bound on the slots of a context
  MaxObjects,   \* bound on the objects, the first ones included
  MaxWrites     \* bound on the words the program has written to

ASSUME BoundsAssumption ==
  MinOldGen \in Nat \ {0} /\ {MaxSlots, MaxObjects, MaxWrites} \subseteq Nat

VARIABLES
  heap,    \* the words of each space, how many are handed out, and the objects
  gcType,  \* the generation being collected
  before,  \* history: the space last collected, and the heap as its swap found it
  copied,  \* history: of the last copy, its tag, the words it owns and was given
  asked    \* history: of the string last flattened, whether a half of it was misplaced,
           \* and whether its text came out

vars == <<heap, gcType, before, copied, asked>>

Spaces == {"new", "old", "tmp"}

(***************************************************************************)
(* Words and addresses.                                                     *)
(***************************************************************************)

Header(tag, repr, gen) == [k |-> "header", tag |-> tag, repr |-> repr, gen |-> gen]
Num(n)    == [k |-> "number", n |-> n]
Char(c)   == [k |-> "char", c |-> c]
Ref(a)    == [k |-> "reference", at |-> a]
Nil       == [k |-> "nil"]
Untouched == [k |-> "untouched"]   \* not written by its constructor

At(s, i) == [space |-> s, i |-> i]
Offset(a, n) == [a EXCEPT !.i = @ + n]

\* Memory is unbounded here, and untouched until something writes to it.
Read(h, a) ==
  IF a.i \in DOMAIN h.mem[a.space] THEN h.mem[a.space][a.i] ELSE Untouched

ReadAll(h, a, n) == [i \in 1..n |-> Read(h, Offset(a, i - 1))]

Padded(ws, n) == [i \in 1..n |-> IF i \in DOMAIN ws THEN ws[i] ELSE Untouched]

\* Words by their positions, and under them what was there before.
Over(words, below) ==
  [i \in DOMAIN words \cup DOMAIN below |-> IF i \in DOMAIN words THEN words[i] ELSE below[i]]

Put(h, s, words) == [h EXCEPT !.mem[s] = Over(words, h.mem[s])]

WriteAll(h, a, ws) ==
  Put(h, a.space, [i \in a.i..(a.i + Len(ws) - 1) |-> ws[i - a.i + 1]])

(***************************************************************************)
(* Layout.                                                                  *)
(***************************************************************************)

Tag(h, a)  == Read(h, a).tag
Repr(h, a) == Read(h, a).repr
Gen(h, a)  == Read(h, a).gen

\* The word that holds the slots of a context, the length of a string, the size of
\* a map or of external data.
CountAt(tag) == CASE tag = "Context" -> 2 [] tag = "String" -> 2 [] OTHER -> 1

Count(h, a) == Read(h, Offset(a, CountAt(Tag(h, a)))).n

\* The words an object owns: up to the last one that an accessor of it reaches.
Owned(tag, repr, count) ==
  CASE tag \in {"Boolean", "Number"} -> 2
    [] tag = "Context" -> 3 + count
    [] tag = "String" -> IF repr = "Normal" THEN 3 + count ELSE 5
    [] tag = "Object" -> 4
    [] tag \in {"Array", "Function"} -> 5
    [] tag \in {"Map", "ExternData"} -> 2 + (IF tag = "Map" THEN 2 * count ELSE count)

\* Plausible bugs of copy_to: a string's length forgotten, or every string's characters
\* counted.
SizeShort(tag, repr, count) ==
  IF tag = "String" /\ repr = "Normal" THEN 2 + count ELSE Owned(tag, repr, count)

SizeOfText(tag, repr, count) ==
  IF tag = "String" THEN 3 + count ELSE Owned(tag, repr, count)

\* copy_to counts each slot of a context twice and its two other words not at all,
\* and in a map it doubles the word of the size too.
Size(tag, repr, count) ==
  CASE tag = "Context" -> 1 + 2 * count
    [] tag = "Map" -> 1 + 2 * (1 + count)
    [] tag \in {"Function", "Array"} -> 1 + 4
    [] tag \in {"Number", "Boolean"} -> 1 + 1
    [] tag = "String" -> 1 + 2 + (IF repr = "Normal" THEN count ELSE 2)
    [] tag = "Object" -> 1 + 3
    [] tag = "ExternData" -> 1 + 1 + count

Counted(tag) == tag \in {"Context", "String", "Map", "ExternData"}

OwnedAt(h, a) ==
  Owned(Tag(h, a), Repr(h, a), IF Counted(Tag(h, a)) THEN Count(h, a) ELSE 0)

(***************************************************************************)
(* Allocation.  An object of the history is its address, what was last      *)
(* written to each of its words, the text of a string, and whether it is a  *)
(* copy that was given fewer words than it owns.                            *)
(***************************************************************************)

\* n words at the top of space s.
Allocate(h, s, n) == [h EXCEPT !.top[s] = @ + n]
Top(h, s) == At(s, h.top[s] + 1)

\* allocate_tagged of n words, and the stores of a constructor.
New(h, s, tag, repr, ws, n, text) ==
  LET a == Top(h, s)
      all == <<Header(tag, repr, IF s = "old" THEN MinOldGen ELSE 0)>> \o ws
      after == WriteAll(Allocate(h, s, n), a, all)
  IN [after EXCEPT !.objects = Append(@,
        [at |-> a, words |-> Padded(all, OwnedAt(after, a)), text |-> text, short |-> FALSE])]

Repeat(w, n) == [i \in 1..n |-> w]

\* One word more than the accessors reach is allocated.
NewString(h, s, length, chars, text) ==
  New(h, s, "String", "Normal", <<Num(0), Num(length)>> \o chars, 4 + length, text)

Chars(text) == [i \in DOMAIN text |-> Char(text[i])]

NewMap(h, size) ==
  New(h, "new", "Map", "Normal", <<Num(size)>> \o Repeat(Nil, 2 * size), 2 + 2 * size, <<>>)

\* HObject::init allocates the map after the object; its prototype is the map too.
\* An array has its length in one word more.
WithMap(h, tag, length, size) ==
  LET n == 4 + Len(length)
      map == Ref(Offset(Top(h, "new"), n))
  IN NewMap(New(h, "new", tag, "Normal", <<Num(size - 1), map, map>> \o length, n, <<>>), size)

NewData(h, size) == New(h, "new", "ExternData", "Normal", <<Num(size)>>, 2 + size, <<>>)

NewBoxed(h, s, tag) == New(h, s, tag, "Normal", <<Num(1)>>, 2, <<>>)

\* Contexts, functions, arrays and strings of two are built by generated code: here
\* they get the words their accessors reach.
NewContext(h, s, slots) ==
  New(h, s, "Context", "Normal", <<Nil, Num(slots)>> \o Repeat(Nil, slots), 3 + slots, <<>>)

NewFunction(h) == New(h, "new", "Function", "Normal", <<Nil, Num(0), Nil, Num(0)>>, 5, <<>>)

NewCons(h, s, l, r) ==
  LET left == h.objects[l]
      right == h.objects[r]
  IN New(h, s, "String", "Cons",
         <<Num(0), Num(Count(h, left.at) + Count(h, right.at)), Ref(left.at), Ref(right.at)>>,
         5, left.text \o right.text)

(***************************************************************************)
(* Flattening.                                                              *)
(***************************************************************************)

Left(h, a)  == Read(h, Offset(a, 3)).at
RightIsNil(h, a) == Read(h, Offset(a, 4)) = Nil
Right(h, a) == Read(h, Offset(a, 4)).at

\* The addresses of strings.
Texts(h) ==
  {h.objects[o].at : o \in {p \in DOMAIN h.objects : h.objects[p].words[1].tag = "String"}}

\* What is written first and what is written then, and where that ends.
Then(first, second) == [chars |-> Over(second.chars, first.chars), end |-> second.end]

Moved(h, a, buffer) ==
  [chars |-> [i \in buffer..(buffer + Count(h, a) - 1) |-> Read(h, Offset(a, 3 + i - buffer))],
   end   |-> buffer + Count(h, a)]

\* A plausible bug: the right half written first.
FlattenInOrder(h) ==
  LET flat[a \in Texts(h)] == [buffer \in Nat |->
        IF Repr(h, a) = "Normal" THEN Moved(h, a, buffer)
        ELSE IF RightIsNil(h, a) THEN flat[Left(h, a)][buffer]
        ELSE LET right == flat[Right(h, a)][buffer]
             IN Then(right, flat[Left(h, a)][right.end])]
  IN flat

\* The characters of a, by the position in the new space they are written to from
\* `buffer` on, and where they end: flatten_cons calls itself for the shorter half and
\* goes on with the longer one.  The buffer is apart from all it reads.
Flatten(h) ==
  LET flat[a \in Texts(h)] == [buffer \in Nat |->
        IF Repr(h, a) = "Normal" THEN Moved(h, a, buffer)
        ELSE IF RightIsNil(h, a) THEN flat[Left(h, a)][buffer]
        ELSE IF Count(h, Left(h, a)) > Count(h, Right(h, a))
        THEN Then(flat[Right(h, a)][buffer + Count(h, Left(h, a))], flat[Left(h, a)][buffer])
        ELSE LET left == flat[Left(h, a)][buffer]
             IN Then(left, flat[Right(h, a)][left.end])]
  IN flat

\* A write of w into the n-th word of object o.
Store(h, o, n, w) ==
  LET after == WriteAll(h, Offset(h.objects[o].at, n), <<w>>)
  IN [after EXCEPT !.objects[o].words[n + 1] = w]

\* HString::value of a string of two: its characters in a new string, which becomes
\* its left half.
Value(h, o) ==
  LET a == h.objects[o].at
      result == Top(h, "new")
      fresh == NewString(h, "new", Count(h, a), <<>>, h.objects[o].text)
      flat == Put(fresh, "new", Flatten(fresh)[a][result.i + 3].chars)
      known == [flat EXCEPT !.objects[Len(flat.objects)].words =
                  ReadAll(flat, result, 3 + Count(h, a))]
  IN Store(Store(known, o, 4, Nil), o, 3, Ref(result))

(***************************************************************************)
(* Copies.                                                                  *)
(***************************************************************************)

\* copy_to in a collection of type t, which gives it the space for old objects and the
\* one for others: the copy is one generation older, and so is the original.
Copy(h, o, t) ==
  LET a == h.objects[o].at
      tag == Tag(h, a)
      repr == Repr(h, a)
      gen == IF Gen(h, a) < MinOldGen THEN Gen(h, a) + 1 ELSE Gen(h, a)
      aged == Store(h, o, 0, Header(tag, repr, gen))
      s == IF gen >= MinOldGen THEN IF t = "NewSpace" THEN "old" ELSE "tmp"
           ELSE IF t = "NewSpace" THEN "tmp" ELSE "new"
      n == Size(tag, repr, IF Counted(tag) THEN Count(h, a) ELSE 0)
      moved == WriteAll(Allocate(aged, s, n), Top(h, s), ReadAll(aged, a, n))
  IN [moved EXCEPT !.objects = Append(@,
        [aged.objects[o] EXCEPT !.at = Top(h, s), !.short = n < OwnedAt(h, a)])]

(***************************************************************************)
(* Steps.                                                                   *)
(***************************************************************************)

Empty == [mem |-> [s \in Spaces |-> <<>>], top |-> [s \in Spaces |-> 0], objects |-> <<>>]

Objects == DOMAIN heap.objects
TagOf(o) == heap.objects[o].words[1].tag
Strings == {o \in Objects : TagOf(o) = "String"}

Overlap(o, p) ==
  /\ o.at.space = p.at.space
  /\ o.at.i < p.at.i + Len(p.words)
  /\ p.at.i < o.at.i + Len(o.words)

\* o shares its words with no other object.
Alone(o) ==
  /\ ~heap.objects[o].short
  /\ \A p \in Objects \ {o} : ~Overlap(heap.objects[o], heap.objects[p])

\* A string whose text came out wrong is followed no further.
Grows(n) ==
  asked.right /\ Len(before.heap.objects) + Len(heap.objects) + n <= MaxObjects

\* The program runs between collections only.
Program(n) == gcType = "None" /\ Grows(n)

Build(h) == heap' = h /\ UNCHANGED <<gcType, before, copied, asked>>

BuildFixed ==
  /\ Program(1)
  /\ \/ \E s \in Spaces, tag \in {"Boolean", "Number"} : Build(NewBoxed(heap, s, tag))
     \/ Build(NewFunction(heap))

BuildSized ==
  /\ Program(1)
  /\ \/ \E n \in 0..MaxSlots : Build(NewContext(heap, "new", n))
     \/ \E n \in 1..2 : Build(NewMap(heap, n)) \/ Build(NewData(heap, n))

BuildObject ==
  /\ Program(2)
  /\ Build(WithMap(heap, "Object", <<>>, 1)) \/ Build(WithMap(heap, "Array", <<Num(0)>>, 1))

BuildString ==
  /\ Program(1)
  /\ \E s \in Spaces :
       \/ \E text \in {<<>>, <<"x">>} : Build(NewString(heap, s, Len(text), Chars(text), text))
       \/ \E l, r \in Strings : Alone(l) /\ Alone(r) /\ Build(NewCons(heap, s, l, r))

\* The words of an object that the program may write: no header and no count.
Fields(words) ==
  LET tag == words[1].tag
  IN {n \in 1..(Len(words) - 1) :
        CASE tag = "Context" -> n # 2
          [] tag \in {"Map", "ExternData"} -> n # 1
          [] tag \in {"Object", "Array"} -> n > 2
          [] OTHER -> tag = "Function"}

Written ==
  {w \in Objects \X (1..9) :
     LET words == heap.objects[w[1]].words IN w[2] \in DOMAIN words /\ words[w[2]] = Num(7)}

Write ==
  /\ Program(0) /\ Cardinality(Written) < MaxWrites
  /\ \E o \in Objects :
       \E n \in Fields(heap.objects[o].words) : Build(Store(heap, o, n, Num(7)))

\* The text of each string, of one or of two.
TextAt(h) ==
  LET text[a \in Texts(h)] ==
        IF Repr(h, a) = "Normal"
        THEN [i \in 1..Count(h, a) |-> Read(h, Offset(a, 2 + i))]
        ELSE text[Left(h, a)] \o (IF RightIsNil(h, a) THEN <<>> ELSE text[Right(h, a)])
  IN text

\* By how much the end that flatten_cons returns for a string falls short: where the
\* left half is the longer one, it is the end of that half.
EndsShort(h) ==
  LET short[a \in Texts(h)] ==
        IF Repr(h, a) = "Normal" THEN 0
        ELSE IF RightIsNil(h, a) THEN short[Left(h, a)]
        ELSE short[Left(h, a)]
               + (IF Count(h, Left(h, a)) > Count(h, Right(h, a)) THEN Count(h, Right(h, a))
                  ELSE short[Right(h, a)])
  IN short

\* The right half of some pair in a string is written where the left one is said to
\* end, and that is not where it ends.
Misplaced(h) ==
  LET short == EndsShort(h)
      misplaced[a \in Texts(h)] ==
        /\ Repr(h, a) # "Normal"
        /\ \/ misplaced[Left(h, a)]
           \/ /\ ~RightIsNil(h, a)
              /\ \/ misplaced[Right(h, a)]
                 \/ /\ Count(h, Left(h, a)) <= Count(h, Right(h, a))
                    /\ short[Left(h, a)] > 0
  IN misplaced

\* A string of two that was asked before answers with its left half.
AskValue ==
  /\ Program(1)
  /\ \A o \in Strings : Alone(o)
  /\ \E o \in Strings :
       LET a == heap.objects[o].at IN
       /\ Repr(heap, a) = "Cons" /\ ~RightIsNil(heap, a)
       /\ heap' = Value(heap, o)
       /\ asked' = [misplaced |-> Misplaced(heap)[a],
                    right |-> TextAt(heap')[a] = Chars(heap.objects[o].text)]
  /\ UNCHANGED <<gcType, before, copied>>

Swapped == before.space # "none"

\* A collection begins; the program is followed through the first one.
CollectGarbage ==
  /\ Program(0) /\ ~Swapped
  /\ gcType' \in {"NewSpace", "OldSpace"}
  /\ UNCHANGED <<heap, before, copied, asked>>

IsInCurrentSpace(o) ==
  gcType = IF heap.objects[o].words[1].gen >= MinOldGen THEN "OldSpace" ELSE "NewSpace"

\* What the roots reach is the Collector's: here it may be any object.  One that shares
\* words with another, or lacks some, is copied no further: it may have the size of
\* anything.
CopyTo ==
  /\ gcType # "None" /\ Grows(1)
  /\ \E o \in Objects :
       /\ Alone(o) /\ IsInCurrentSpace(o)
       /\ heap' = Copy(heap, o, gcType)
       /\ copied' = [tag |-> TagOf(o), owned |-> Len(heap.objects[o].words),
                     read |-> heap'.top.new + heap'.top.old + heap'.top.tmp
                                - (heap.top.new + heap.top.old + heap.top.tmp)]
  /\ UNCHANGED <<gcType, before, asked>>

Collected == IF gcType = "NewSpace" THEN "new" ELSE "old"

\* The spaces of heap h that a swap gives nothing to start from.
Restart(h, spaces) ==
  [mem     |-> [s \in Spaces |-> IF s \in spaces THEN <<>> ELSE h.mem[s]],
   top     |-> [s \in Spaces |-> IF s \in spaces THEN 0 ELSE h.top[s]],
   objects |-> <<>>]

\* A plausible bug: the pages of the temporary space dropped with those cleared.
SwapDropsPages ==
  /\ gcType # "None"
  /\ heap' = Restart(heap, {Collected, "tmp"})
  /\ before' = [space |-> Collected, heap |-> [heap EXCEPT !.mem["tmp"] = <<>>]]
  /\ gcType' = "None"
  /\ UNCHANGED <<copied, asked>>

\* Space::swap at the end of the collection: the space collected has the page of the
\* temporary space, of which none is handed out.
Swap ==
  /\ gcType # "None"
  /\ heap' = Restart(heap, {Collected, "tmp"})
  /\ before' = [space |-> Collected, heap |-> heap]
  /\ gcType' = "None"
  /\ UNCHANGED <<copied, asked>>

\* Two strings, a string of them, and one of that and one of them.
Init ==
  LET one == NewString(Empty, "new", 1, Chars(<<"a">>), <<"a">>)
      two == NewString(one, "new", 2, Chars(<<"b", "c">>), <<"b", "c">>)
      both == NewCons(two, "new", 2, 1)
  IN /\ heap \in {two, NewCons(both, "new", 1, 3), NewCons(both, "new", 3, 2), NewCons(both, "new", 3, 3)}
     /\ gcType = "None" /\ before = [space |-> "none", heap |-> Empty]
     /\ copied = [tag |-> "none", owned |-> 0, read |-> 0]
     /\ asked = [misplaced |-> FALSE, right |-> TRUE]

Next ==
  \/ BuildFixed \/ BuildSized \/ BuildObject \/ BuildString \/ Write \/ AskValue
  \/ CollectGarbage \/ CopyTo \/ Swap

Spec == Init /\ [][Next]_vars

(***************************************************************************)
(* Properties.                                                              *)
(***************************************************************************)

ShortContext(o) == o.short /\ o.words[1].tag = "Context" /\ Len(o.words) < 5

\* Object o of heap h is one that is not claimed to read as written: a copy of a
\* context with fewer than two slots is given fewer words than its accessors reach
\* (heap.rs 522), and other objects come to lie in those.
Exempt(h, o) ==
  \/ ShortContext(h.objects[o])
  \/ \E p \in DOMAIN h.objects \ {o} :
       ShortContext(h.objects[p]) /\ Overlap(h.objects[o], h.objects[p])

\* Every object reads as what was last written to it, whatever was allocated, flattened
\* and written since, and then copied in a collection; so does, after the swap at its
\* end, every object made since.
ReadsAsWritten ==
  \A o \in Objects :
    LET object == heap.objects[o] IN
    \/ Exempt(heap, o)
    \/ \A i \in DOMAIN object.words :
         object.words[i] \in {Untouched, Read(heap, Offset(object.at, i - 1))}

\* What is read, after the swap, of what the heap held at address a before it.
ReadSince(a) ==
  LET now == Read(heap, IF a.space = "tmp" THEN At(before.space, a.i) ELSE a)
  IN IF now = Untouched THEN Read(before.heap, a) ELSE now

\* What survives a collection reads as it did when it was swapped, promoted objects for
\* good, but copies in the space collected only until their words are handed out again:
\* the next object made there lies where the first of them does (heap.rs 272).
SurvivorsOverrun ==
  Swapped =>
    /\ \A o \in DOMAIN before.heap.objects :
         LET object == before.heap.objects[o] IN
         object.at.space # before.space /\ ~Exempt(before.heap, o) =>
           \A i \in DOMAIN object.words :
             LET a == Offset(object.at, i - 1) IN
             \/ object.words[i] \in {Untouched, ReadSince(a)}
             \/ a.space = "tmp" /\ a.i <= heap.top[before.space]
    /\ before.heap.top["tmp"] > 0 /\ heap.top[before.space] > 0 =>
         \E o \in DOMAIN before.heap.objects, p \in Objects :
           /\ before.heap.objects[o].at = At("tmp", 1)
           /\ heap.objects[p].at = At(before.space, 1)

\* A copy reads what its object owns: but for a map, where it reads one word of
\* what comes next (heap.rs 547), and a context of more than two slots, where it reads
\* as many as there are slots but two.
CopyStaysInside ==
  copied.read > copied.owned <=>
    \/ copied.tag = "Map" /\ copied.read = copied.owned + 1
    \/ copied.tag = "Context" /\ copied.owned > 5 /\ copied.read = 2 * copied.owned - 5

\* The text of every string is what it was made of, in whatever order strings that
\* share their halves are asked for their characters, and in their copies: until one is
\* asked for that has, as a half no longer than the other, one whose own left half is
\* longer than its right one (heap.rs 776-782).  Its text never comes out.
TextKept ==
  /\ asked.right <=> ~asked.misplaced
  /\ asked.right /\ (\A o \in Strings : Alone(o)) =>
       \A o \in Strings :
         TextAt(heap)[heap.objects[o].at] = Chars(heap.objects[o].text)
=============================================================================
