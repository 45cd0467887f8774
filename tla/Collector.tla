------------------------------ MODULE Collector ------------------------------
(***************************************************************************)
(* The copying collector (struct GC in src/src/gc.rs) over the object graph *)
(* of the two generations.                                                  *)
(*                                                                         *)
(* A cell is one heap object; a copy is a new cell.  A word that can hold a *)
(* pointer is a slot: a word of the scanned stack, the two words of a       *)
(* handle (the local the embedder registered and the value the heap keeps), *)
(* the value of a weak reference, a field of an object.  A field holds a    *)
(* cell or Nil, which stands for everything process_grey skips: nil, null   *)
(* and unboxed numbers.                                                     *)
(*                                                                         *)
(* A space hands memory out again that is in use: its pages are restarted   *)
(* at their first word whenever one is searched for room or the space is    *)
(* swapped (heap.rs 226-234 and 272; Space.tla has the details).  So every  *)
(* allocation, a copy's too, may overwrite any cells of the space it is     *)
(* made in; these are lost.                                                 *)
(*                                                                         *)
(* Memory that is unmapped, overwritten or no object, once it is read as an *)
(* object or written through a slot in it, makes the collector `wild`,      *)
(* after which nothing is claimed.                                          *)
(***************************************************************************)
EXTENDS Integers, Sequences, FiniteSets

CONSTANTS
  MinOldGen,      \* the generation from which an object is old
  Objects,        \* how many objects there are before the first collection
  MaxCells,       \* bound: objects and copies together
  Tags,           \* the object kinds in use
  StackSize,      \* the number of words between the stack's top and its end
  Handles,        \* the registered handles, 1..n
  WeakRefs,       \* the registered weak references, 1..n
  MaxCollections, \* bound: how often collect_garbage is entered
  MaxLost         \* bound: cells overwritten

AllTags == {"Context", "Object", "Array", "String"}

ASSUME GenAssumption == MinOldGen \in Nat \ {0}
ASSUME ObjectsAssumption == Objects \in Nat /\ MaxCells \in Nat /\ Objects <= MaxCells
ASSUME TagsAssumption == Tags \subseteq AllTags
ASSUME RootsAssumption == StackSize \in Nat /\ Handles \subseteq Nat /\ WeakRefs \subseteq Nat
ASSUME CollectionsAssumption == MaxCollections \in Nat /\ MaxLost \in Nat

Cells == 1..MaxCells
Nil   == 0    \* not a pointer into the heap
Null  == -1   \* the null word that ends the stack scan
Junk  == -2   \* an odd word, taken for an address, at which there is no object
HNil  == -3   \* the nil object: process_grey skips it, but by its parity it is boxed

Address == Cells \cup {Nil, Null, Junk, HNil}

StackSlot(i)    == <<"stack", i, 0>>
Reference(h)    == <<"reference", h, 0>>   \* *handle.reference
ValuePtr(h)     == <<"value", h, 0>>       \* handle.value
WeakValue(w)    == <<"weak", w, 0>>
Field(c, i)     == <<"field", c, i>>

Fields == {1, 2}
Slots ==
  {StackSlot(i) : i \in 1..StackSize}
    \cup {Reference(h) : h \in Handles} \cup {ValuePtr(h) : h \in Handles}
    \cup {WeakValue(w) : w \in WeakRefs}
    \cup {Field(c, i) : c \in Cells, i \in Fields}

VARIABLES
  tag, gen, soft,    \* the header of each cell: tag, generation, soft mark
  forward,           \* the forwarding address of a marked cell, Nil if unmarked
  loc,               \* where a cell lies; "gone" once its page is unmapped
  lost,              \* the cells that a later allocation has overwritten
  mem,               \* what each slot holds
  kind, handles,     \* the type of each handle; the handles still registered
  weakRefs,          \* the weak references still registered
  needsGC,           \* heap.needs_gc
  phase, gcType,     \* where collect_garbage is, and gc_type
  grey, weak, black, \* the three queues
  frame,             \* the stack word colour_frames looks at
  todo,              \* what the current loop over a map has left
  origin,            \* history: the object each cell is or was copied from
  fresh,             \* history: the copies the current collection made
  start,             \* history: what each slot held before any collection
  seen,              \* history: the slots this collection took off the grey queue
  rounds             \* history: how often collect_garbage was entered

headers == <<tag, gen, soft, forward, loc, lost>>
roots   == <<kind, handles, weakRefs>>
queues  == <<grey, weak, black>>
copies  == <<origin, fresh>>
history == <<copies, start, seen, rounds>>
vars == <<headers, mem, roots, needsGC, phase, gcType, queues, frame, todo, history>>

Phases == {"idle", "begin", "handles", "scan", "grey", "black", "weak", "refs",
           "swap", "panic", "wild"}
GCType == {"None", "NewSpace", "OldSpace"}

(***************************************************************************)
(* Objects.                                                                 *)
(***************************************************************************)

\* Mutants, here and below: what a plausible slip in the code would do.
StrongProto(t) ==
  IF t \in {"Context", "Object"} THEN {1, 2} ELSE IF t = "Array" THEN {1} ELSE {}

\* The fields visit_value pushes grey: parent and slots of a context, parent and root
\* of a function (a map and a cons string push several fields the same way), the map
\* of an object or an array.
Strong(t) == IF t = "Context" THEN {1, 2} ELSE IF t \in {"Object", "Array"} THEN {1} ELSE {}

\* The field it pushes on the weak queue: the proto of an object.
Weak(t) == IF t = "Object" THEN {2} ELSE {}

\* An object is found at the address.
Readable(c) == c \in Cells \ lost /\ loc[c] \in {"new", "old", "tmp"}

CurrentBeyond(c) ==
  \/ gcType = "OldSpace" /\ gen[c] > MinOldGen
  \/ gcType = "NewSpace" /\ gen[c] < MinOldGen

\* is_in_current_space goes by the generation in the header, not by the address.
Current(c) ==
  \/ gcType = "OldSpace" /\ gen[c] >= MinOldGen
  \/ gcType = "NewSpace" /\ gen[c] < MinOldGen

\* The memory with fields f, stack k, handle locals r and values v, weak references w.
Contents(f, k, r, v, w) ==
  [s \in Slots |->
     IF s[1] = "field"          THEN (IF s[2] \in 1..Objects THEN f[s[2]][s[3]] ELSE Nil)
     ELSE IF s[1] = "stack"     THEN k[s[2]]
     ELSE IF s[1] = "reference" THEN r[s[2]]
     ELSE IF s[1] = "value"     THEN v[s[2]]
     ELSE w[s[2]]]

\* What the embedder may have built: any graph, in which an object is old exactly
\* if it lies in the old space, and any roots into it.
Init ==
  /\ \E t \in [1..Objects -> Tags], g \in [1..Objects -> 0..MinOldGen] :
       /\ tag = [c \in Cells |-> IF c \in 1..Objects THEN t[c] ELSE "String"]
       /\ gen = [c \in Cells |-> IF c \in 1..Objects THEN g[c] ELSE 0]
       /\ loc = [c \in Cells |-> IF c \notin 1..Objects THEN "free"
                                 ELSE IF g[c] = MinOldGen THEN "old" ELSE "new"]
  /\ \E f \in [1..Objects -> [Fields -> 0..Objects]],
        k \in [1..StackSize -> Junk..Objects],
        r \in [Handles -> 0..Objects], v \in [Handles -> (0..Objects) \cup {HNil}],
        w \in [WeakRefs -> 1..Objects] :
       /\ \A c \in 1..Objects, i \in Fields :
            f[c][i] # Nil => i \in Strong(tag[c]) \cup Weak(tag[c])
       /\ mem = Contents(f, k, r, v, w)
  /\ soft = [c \in Cells |-> FALSE]
  /\ forward = [c \in Cells |-> Nil]
  /\ lost = {}
  /\ kind \in [Handles -> {"Weak", "Persistent"}]
  /\ handles = Handles
  /\ weakRefs = WeakRefs
  /\ needsGC = "None"
  /\ phase = "idle" /\ gcType = "None"
  /\ grey = <<>> /\ weak = <<>> /\ black = <<>>
  /\ frame = 1 /\ todo = {} /\ seen = {} /\ rounds = 0
  /\ origin = [c \in Cells |-> c] /\ fresh = {}
  /\ start = mem

(***************************************************************************)
(* The mutator, between collections.                                        *)
(***************************************************************************)

\* The program runs; with the bound on collections reached it runs for nothing.
Program == phase = "idle" /\ rounds < MaxCollections

\* What may be lost to an allocation in space sp.
Overwrite(sp) ==
  \E D \in SUBSET {c \in Cells : loc[c] = sp} :
    Cardinality(lost \cup D) <= MaxLost /\ lost' = lost \cup D

\* The program makes an object; its own objects are not followed, only what they
\* overwrite.
Allocate(sp) ==
  /\ Program
  /\ Overwrite(sp)
  /\ UNCHANGED <<tag, gen, soft, forward, loc, mem, roots, needsGC, phase, gcType, queues,
                 frame, todo, history>>

\* The program lets go of a stack word: nil, or a null that cuts the scan short.
DropRoot(i, x) ==
  /\ Program
  /\ mem[StackSlot(i)] # x
  /\ mem' = [mem EXCEPT ![StackSlot(i)] = x]
  /\ UNCHANGED <<headers, roots, needsGC, phase, gcType, queues, frame, todo, history>>

\* The embedder asks for a collection of one generation, as main does.
SetNeedsGC(t) ==
  /\ Program
  /\ needsGC = "None"
  /\ needsGC' = t
  /\ UNCHANGED <<headers, mem, roots, phase, gcType, queues, frame, todo, history>>

(***************************************************************************)
(* collect_garbage, first part: the roots.                                  *)
(***************************************************************************)

\* The entry, from the embedder or from the recursive call at its end.
CollectGarbage ==
  /\ phase \in {"idle", "begin"}
  /\ rounds < MaxCollections
  /\ needsGC' = IF needsGC = "None" THEN "NewSpace" ELSE needsGC
  /\ gcType' = needsGC'
  /\ todo' = {h \in handles : kind[h] = "Persistent"}
  /\ phase' = "handles"
  /\ frame' = 1
  /\ seen' = {}
  /\ rounds' = rounds + 1
  /\ UNCHANGED <<headers, mem, roots, queues, copies, start>>

Item(v, s) == [value |-> v, slot |-> s]

\* colour_persistent_handles, one turn of its loop, in the map's arbitrary order.
\* Both words get the value the heap kept, whatever the local holds by now.
ColourHandle(h) ==
  /\ phase = "handles"
  /\ h \in todo
  /\ grey' = grey \o <<Item(mem[ValuePtr(h)], Reference(h)),
                       Item(mem[ValuePtr(h)], ValuePtr(h))>>
  /\ todo' = todo \ {h}
  /\ UNCHANGED <<headers, mem, roots, needsGC, phase, gcType, weak, black, frame, history>>

HandlesColoured ==
  /\ phase = "handles"
  /\ todo = {}
  /\ phase' = "scan"
  /\ UNCHANGED <<headers, mem, roots, needsGC, gcType, queues, frame, todo, history>>

\* contains_pointer of the two spaces; the temporary space is not asked.
InHeap(v) == v \in Cells /\ loc[v] \in {"new", "old"}

EndOfStack == frame <= StackSize => mem[StackSlot(frame)] = Null

\* An odd word that is no pointer to an object: where its pages were unmapped others
\* may have been mapped.
Stray(v) == v = Junk \/ (v \in Cells /\ loc[v] = "gone")

\* It lies in a page by chance, and is read as an object.
ScanStray ==
  /\ phase = "scan"
  /\ ~EndOfStack /\ Stray(mem[StackSlot(frame)])
  /\ phase' = "wild"
  /\ UNCHANGED <<headers, mem, roots, needsGC, gcType, queues, frame, todo, history>>

\* colour_frames, one word of the stack; frame links are followed silently.  A
\* pointer into the heap empties the grey queue, the handles' entries included.
ScanWord ==
  /\ phase = "scan"
  /\ ~EndOfStack
  /\ LET v == mem[StackSlot(frame)] IN
     IF InHeap(v)
     THEN /\ grey' = Append(grey, Item(v, StackSlot(frame)))
          /\ phase' = "grey"
          /\ frame' = frame
     ELSE /\ frame' = frame + 1
          /\ UNCHANGED <<grey, phase>>
  /\ UNCHANGED <<headers, mem, roots, needsGC, gcType, weak, black, todo, history>>

StackScanned ==
  /\ phase = "scan"
  /\ EndOfStack
  /\ phase' = "black"
  /\ UNCHANGED <<headers, mem, roots, needsGC, gcType, queues, frame, todo, history>>

(***************************************************************************)
(* process_grey, one item of the queue.                                     *)
(***************************************************************************)

\* What visit_value pushes for field i of x, a copy of v or v itself.
Pushed(x, v, i) ==
  IF mem[Field(v, i)] = Nil THEN <<>> ELSE <<Item(mem[Field(v, i)], Field(x, i))>>

Visit(x, v, is) ==
  (IF 1 \in is THEN Pushed(x, v, 1) ELSE <<>>)
    \o (IF 2 \in is THEN Pushed(x, v, 2) ELSE <<>>)

VisitValue(x, v) ==
  /\ grey' = Tail(grey) \o Visit(x, v, Strong(tag[v]))
  /\ weak' = weak \o Visit(x, v, Weak(tag[v]))

\* An item comes off the queue while stack word `frame` is being processed.
Take(v) ==
  /\ phase = "grey"
  /\ grey # <<>>
  /\ v = Head(grey).value
  /\ seen' = seen \cup {Head(grey).slot}
  /\ UNCHANGED <<roots, needsGC, gcType, frame, todo, start, rounds>>

SkipUnboxed(v) ==
  /\ Take(v)
  /\ grey' = Tail(grey)
  /\ UNCHANGED <<headers, mem, phase, weak, black, copies>>

\* A header is read where there is no object any more.
ReadUnmapped(v) ==
  /\ Take(v)
  /\ ~Readable(v)
  /\ phase' = "wild"
  /\ UNCHANGED <<headers, mem, queues, copies>>

MarkSoftAgain(v) ==
  /\ Take(v)
  /\ Readable(v) /\ forward[v] = Nil /\ ~Current(v)
  /\ soft' = [soft EXCEPT ![v] = TRUE]
  /\ black' = Append(black, v)
  /\ VisitValue(v, v)
  /\ UNCHANGED <<tag, gen, forward, loc, lost, mem, phase, copies>>

\* An object outside the collected space is visited in place, once.
MarkSoft(v) ==
  /\ Take(v)
  /\ Readable(v) /\ forward[v] = Nil /\ ~Current(v) /\ ~soft[v]
  /\ soft' = [soft EXCEPT ![v] = TRUE]
  /\ black' = Append(black, v)
  /\ VisitValue(v, v)
  /\ UNCHANGED <<tag, gen, forward, loc, lost, mem, phase, copies>>

SkipMarked(v) ==
  /\ Take(v)
  /\ Readable(v) /\ forward[v] = Nil /\ ~Current(v) /\ soft[v]
  /\ grey' = Tail(grey)
  /\ UNCHANGED <<headers, mem, phase, weak, black, copies>>

OlderUncapped(g) == g + 1
OlderOff(g) == g

\* increment_generation stops at the old generation.
Older(g) == IF g < MinOldGen THEN g + 1 ELSE g

CopySpaceLate(g) ==
  IF gcType = "NewSpace" THEN (IF g > MinOldGen THEN "old" ELSE "tmp")
                         ELSE (IF g > MinOldGen THEN "tmp" ELSE "new")

\* copy_to's choice between its two arguments, which depend on the collection.
CopySpace(g) ==
  IF gcType = "NewSpace" THEN (IF g >= MinOldGen THEN "old" ELSE "tmp")
                         ELSE (IF g >= MinOldGen THEN "tmp" ELSE "new")

\* The slot is a field of one of the cells.
Within(s, cells) == s[1] = "field" /\ s[2] \in cells

NextFree(c) == loc[c] = "free" /\ \A d \in 1..(c - 1) : loc[d] # "free"

ForwardingAlways(v, address) == [forward EXCEPT ![v] = address]

\* relocate leaves a forwarding address only in an object that has one already.
Forwarding(v, address) ==
  IF forward[v] # Nil THEN [forward EXCEPT ![v] = address] ELSE forward

CopyToShort(v) ==
  /\ \E c \in Cells :
       /\ NextFree(c)
       /\ LET g == Older(gen[v]) IN
          /\ gen' = [gen EXCEPT ![v] = g, ![c] = g]
          /\ loc' = [loc EXCEPT ![c] = CopySpace(g)]
          /\ Overwrite(CopySpace(g))
       /\ tag' = [tag EXCEPT ![c] = tag[v]]
       /\ mem' = [mem EXCEPT ![Field(c, 1)] = mem[Field(v, 1)],
                             ![Head(grey).slot] = c]
       /\ forward' = Forwarding(v, c)
       /\ origin' = [origin EXCEPT ![c] = origin[v]] /\ fresh' = fresh \cup {c}
       /\ VisitValue(c, v)
  /\ phase' = IF Within(Head(grey).slot, lost') THEN "wild" ELSE "grey"
  /\ UNCHANGED <<soft, black>>

\* copy_to, relocate and the visit of the copy.  The object's own generation is
\* incremented too.  The copy may overwrite the object whose slot is to lead to it.
CopyTo(v) ==
  /\ \E c \in Cells :
       /\ NextFree(c)
       /\ LET g == Older(gen[v]) IN
          /\ gen' = [gen EXCEPT ![v] = g, ![c] = g]
          /\ loc' = [loc EXCEPT ![c] = CopySpace(g)]
          /\ Overwrite(CopySpace(g))
       /\ tag' = [tag EXCEPT ![c] = tag[v]]
       /\ mem' = [mem EXCEPT ![Field(c, 1)] = mem[Field(v, 1)],
                             ![Field(c, 2)] = mem[Field(v, 2)],
                             ![Head(grey).slot] = c]
       /\ forward' = Forwarding(v, c)
       /\ origin' = [origin EXCEPT ![c] = origin[v]] /\ fresh' = fresh \cup {c}
       /\ VisitValue(c, v)
  /\ phase' = IF Within(Head(grey).slot, lost') THEN "wild" ELSE "grey"
  /\ UNCHANGED <<soft, black>>

\* assert!(!is_soft_gc_marked())
AssertFails == phase' = "panic" /\ UNCHANGED <<headers, mem, queues, copies>>

\* The object was copied before: the slot follows.
Follow(v) ==
  /\ mem' = [mem EXCEPT ![Head(grey).slot] = forward[v]]
  /\ forward' = Forwarding(v, forward[v])
  /\ grey' = Tail(grey)
  /\ phase' = IF Within(Head(grey).slot, lost) THEN "wild" ELSE "grey"
  /\ UNCHANGED <<tag, gen, soft, loc, lost, weak, black, copies>>

Evacuate(v) ==
  /\ Take(v)
  /\ Readable(v)
  /\ \/ forward[v] # Nil /\ Follow(v)
     \/ forward[v] = Nil /\ Current(v) /\ soft[v] /\ AssertFails
     \/ forward[v] = Nil /\ Current(v) /\ ~soft[v] /\ CopyTo(v)

ProcessGrey ==
  \/ \E v \in {Nil, HNil} : SkipUnboxed(v)
  \/ \E v \in Address \ {Nil, HNil} :
       ReadUnmapped(v) \/ MarkSoft(v) \/ SkipMarked(v) \/ Evacuate(v)

GreyEmptyStuck ==
  /\ phase = "grey"
  /\ grey = <<>>
  /\ phase' = "scan"
  /\ frame' = frame
  /\ UNCHANGED <<headers, mem, roots, needsGC, gcType, queues, todo, history>>

GreyEmpty ==
  /\ phase = "grey"
  /\ grey = <<>>
  /\ phase' = "scan"
  /\ frame' = frame + 1
  /\ UNCHANGED <<headers, mem, roots, needsGC, gcType, queues, todo, history>>

(***************************************************************************)
(* collect_garbage, second part: marks, weak handles, weak references, swap. *)
(***************************************************************************)

DrainBlack ==
  /\ phase = "black"
  /\ IF black = <<>>
     THEN phase' = "weak" /\ UNCHANGED <<soft, black>>
     ELSE /\ black' = Tail(black)
          /\ soft' = [soft EXCEPT ![Head(black)] = FALSE]
          /\ phase' = IF Head(black) \in lost THEN "wild"
                      ELSE IF soft[Head(black)] THEN "black" ELSE "panic"
  /\ UNCHANGED <<tag, gen, forward, loc, lost, mem, roots, needsGC, gcType, grey, weak,
                 frame, todo, history>>

\* Weak handles of boxed values, and what relocate_weak_handles keeps of them.
WeakBoxed == {h \in handles : kind[h] = "Weak" /\ mem[ValuePtr(h)] # Nil}
Kept == {h \in WeakBoxed : forward[mem[ValuePtr(h)]] # Nil}

RelocateWeakHandles ==
  /\ phase = "weak"
  /\ IF \A h \in WeakBoxed : Readable(mem[ValuePtr(h)])
     THEN /\ handles' = (handles \ WeakBoxed) \cup Kept
          /\ mem' = [s \in Slots |->
                       IF \E h \in Kept : s \in {Reference(h), ValuePtr(h)}
                       THEN forward[mem[ValuePtr(s[2])]] ELSE mem[s]]
          /\ todo' = weakRefs
          /\ phase' = "refs"
     ELSE phase' = "wild" /\ UNCHANGED <<handles, mem, todo>>
  /\ UNCHANGED <<headers, kind, weakRefs, needsGC, gcType, queues, frame, history>>

FirstWordItself(v) == v

\* The word after the header, where a forwarding address would be: the parent of a
\* context or a function, otherwise a hash, a mask, a size or a number.
FirstWord(v) == IF tag[v] = "Context" THEN mem[Field(v, 1)] ELSE Junk

\* What the callback of a weak reference may do, being any function of the embedder:
\* ask for a collection of either generation or take the request back, make objects
\* and let go of a stack word.
Callback ==
  /\ needsGC' \in GCType
  /\ Overwrite("new") \/ Overwrite("old")
  /\ \/ mem' = mem
     \/ \E i \in 1..StackSize, x \in {Nil, Null} : mem' = [mem EXCEPT ![StackSlot(i)] = x]

\* handle_weak_refs, one turn of its loop.
HandleWeakRef(w) ==
  LET v == mem[WeakValue(w)] IN
  /\ phase = "refs"
  /\ w \in todo
  /\ todo' = todo \ {w}
  /\ \/ /\ ~Readable(v)
        /\ phase' = "wild"
        /\ UNCHANGED <<weakRefs, mem, needsGC, lost>>
     \/ /\ Readable(v) /\ forward[v] = Nil /\ Current(v)
        /\ weakRefs' = weakRefs \ {w}
        /\ Callback
        /\ UNCHANGED phase
     \/ /\ Readable(v) /\ forward[v] = Nil /\ ~Current(v)
        /\ mem' = [mem EXCEPT ![WeakValue(w)] = FirstWord(v)]
        /\ UNCHANGED <<phase, weakRefs, needsGC, lost>>
     \/ /\ Readable(v) /\ forward[v] # Nil
        /\ UNCHANGED <<phase, weakRefs, mem, needsGC, lost>>
  /\ UNCHANGED <<tag, gen, soft, forward, loc, kind, handles, gcType, queues, frame, history>>

WeakRefsHandled ==
  /\ phase = "refs"
  /\ todo = {}
  /\ phase' = "swap"
  /\ UNCHANGED <<headers, mem, roots, needsGC, gcType, queues, frame, todo, history>>

AfterSwapNew(l) ==
  IF l = "new" THEN "gone" ELSE IF l = "tmp" THEN "new" ELSE l

\* swap unmaps the collected space and makes the temporary one take its place.
AfterSwap(l) ==
  LET collected == IF gcType = "NewSpace" THEN "new" ELSE "old" IN
  IF l = collected THEN "gone" ELSE IF l = "tmp" THEN collected ELSE l

SwapAndReturn ==
  /\ phase = "swap"
  /\ loc' = [c \in Cells |-> AfterSwap(loc[c])]
  /\ fresh' = {}
  /\ needsGC' = "None" /\ phase' = "idle"
  /\ UNCHANGED <<tag, gen, soft, forward, lost, mem, roots, gcType, queues, frame, todo,
                 origin, start, seen, rounds>>

Swap ==
  /\ phase = "swap"
  /\ loc' = [c \in Cells |-> AfterSwap(loc[c])]
  /\ fresh' = {}
  /\ IF gcType # "NewSpace" \/ needsGC = "NewSpace"
     THEN needsGC' = "None" /\ phase' = "idle"
     ELSE needsGC' = needsGC /\ phase' = "begin"
  /\ UNCHANGED <<tag, gen, soft, forward, lost, mem, roots, gcType, queues, frame, todo,
                 origin, start, seen, rounds>>

(***************************************************************************)
(* The specification.                                                       *)
(***************************************************************************)

Collection ==
  \/ \E h \in Handles : ColourHandle(h)
  \/ HandlesColoured
  \/ ScanWord
  \/ ScanStray
  \/ StackScanned
  \/ ProcessGrey
  \/ GreyEmpty
  \/ DrainBlack
  \/ RelocateWeakHandles
  \/ \E w \in WeakRefs : HandleWeakRef(w)
  \/ WeakRefsHandled
  \/ Swap

Next ==
  \/ \E i \in 1..StackSize, x \in {Nil, Null} : DropRoot(i, x)
  \/ \E t \in {"NewSpace", "OldSpace"} : SetNeedsGC(t)
  \/ \E sp \in {"new", "old"} : Allocate(sp)
  \/ CollectGarbage
  \/ Collection

Spec == Init /\ [][Next]_vars
----------------------------------------------------------------------------
(***************************************************************************)
(* Properties.                                                              *)
(***************************************************************************)

Items == [value : Address, slot : Slots]

TypeOK ==
  /\ tag \in [Cells -> AllTags]
  /\ gen \in [Cells -> 0..MinOldGen]
  /\ soft \in [Cells -> BOOLEAN]
  /\ forward \in [Cells -> Cells \cup {Nil}]
  /\ loc \in [Cells -> {"free", "new", "old", "tmp", "gone"}]
  /\ lost \subseteq Cells
  /\ mem \in [Slots -> Address]
  /\ kind \in [Handles -> {"Weak", "Persistent"}]
  /\ handles \subseteq Handles
  /\ weakRefs \subseteq WeakRefs
  /\ needsGC \in GCType
  /\ phase \in Phases
  /\ gcType \in GCType
  /\ grey \in Seq(Items)
  /\ weak \in Seq(Items)
  /\ black \in Seq(Cells)
  /\ frame \in 1..(StackSize + 1)
  /\ todo \subseteq Handles \cup WeakRefs
  /\ origin \in [Cells -> Cells]
  /\ fresh \subseteq Cells
  /\ start \in [Slots -> Address]
  /\ seen \subseteq Slots
  /\ rounds \in 0..MaxCollections

\* Neither assertion of the collector fires: no object of the collected space is
\* ever soft marked when it is copied (gc.rs 220), and every object on the black
\* queue still is when the queue is drained (gc.rs 82), unless it was overwritten.
\* Over several collections, with references left on the grey queue and generations
\* that grow meanwhile.
NoPanic == phase # "panic"

\* Between collections the generation in an object's header says where it lies, as
\* is_in_current_space (gc.rs 243-248) takes for granted of every address it is given.
GenerationMatchesSpace ==
  phase = "idle" =>
    \A c \in Cells : /\ loc[c] = "new" => gen[c] < MinOldGen
                     /\ loc[c] = "old" => gen[c] >= MinOldGen
                     /\ loc[c] # "tmp"

Original(v) == IF v \in Cells THEN origin[v] ELSE v

Unreadable(v) == v \in Cells /\ ~Readable(v)

\* A collection's own copies of the object had aged it to the old generation.
Promoted(v) == gcType = "NewSpace" /\ gen[v] >= MinOldGen

\* No reference ever comes to designate another object: the fields of every object
\* that can still be read name the objects they named before any collection, or
\* copies of them, and so do the stack and the handles (gc.rs 199-241, heap.rs
\* 509-570).  Only the local behind a handle may come to hold what the handle was
\* registered with instead of its own value (gc.rs 192).  A reference that leads to no
\* object any more does so for one of three reasons: the object was overwritten
\* (heap.rs 226-234 and 272), the last collection did not deal with the reference
\* (every prototype, gc.rs 304, and what no root reaches), or it was promoted.
GraphPreserved ==
  /\ \A c \in Cells, i \in Fields :
       Readable(c) => Original(mem[Field(c, i)]) = start[Field(origin[c], i)]
  /\ \A i \in 1..StackSize :
       mem[StackSlot(i)] \in Cells =>
         Original(mem[StackSlot(i)]) = start[StackSlot(i)]
  /\ \A h \in Handles :
       /\ Original(mem[ValuePtr(h)]) = start[ValuePtr(h)]
       /\ Original(mem[Reference(h)]) \in {start[Reference(h)], start[ValuePtr(h)]}
  /\ phase = "idle" =>
       \A s \in Slots : s[1] # "reference" /\ Unreadable(mem[s]) =>
         mem[s] \in lost \/ s \notin seen \/ Promoted(mem[s])

\* Of the references a collection dealt with, it leaves leading into unmapped pages
\* only those to an object that its own copies had aged to the old generation (gc.rs
\* 215: the object no longer counts as current, is visited in place and unmapped by
\* swap).  Left out are the locals of handles, which are redirected by what the handle
\* designates: once a collection has given the two different copies, the local is not
\* followed.  Prototypes are never dealt with: see PrototypesDangle.
DanglingOnlyPromoted ==
  phase = "idle" =>
    \A s \in seen :
      s[1] # "reference" /\ mem[s] \in Cells /\ loc[mem[s]] = "gone" => Promoted(mem[s])

\* The weak queue, on which an object's prototype is put (gc.rs 304), is never drained:
\* the prototype of every object and of each of its copies stays the address it was
\* before any collection, and once its space has been collected there is no object there.
PrototypesDangle ==
  phase = "idle" =>
    \A c \in Cells :
      LET p == mem[Field(c, 2)] IN
      Readable(c) /\ tag[c] = "Object" =>
        /\ p = start[Field(origin[c], 2)]
        /\ p \in Cells /\ rounds > 0 =>
             loc[p] # (IF gcType = "NewSpace" THEN "new" ELSE "old")

\* A weak reference that outlives a collection no longer designates its object: it
\* holds the object's first word (gc.rs 139), which is an address only in a context.
WeakRefsLoseTheirObject ==
  phase = "idle" /\ rounds > 0 =>
    \A w \in weakRefs :
      \/ mem[WeakValue(w)] = Junk
      \/ tag[start[WeakValue(w)]] = "Context"

\* Objects refer to each other as they did before the first collection.
Edge(o, p) == \E i \in Strong(tag[o]) : start[Field(o, i)] = p

\* Each object of K is old and refers to one of K.
OldCycle(K) ==
  K # {} /\ \A o \in K : gen[o] >= MinOldGen /\ \E p \in K : Edge(o, p)

\* o reaches a cycle of old objects: no set that holds, with o, all that its members
\* refer to can avoid it.
ReachesOldCycle(o) ==
  o \in 1..Objects /\
  \E K \in SUBSET (1..Objects) : OldCycle(K) /\
    \A S \in SUBSET (1..Objects) :
      o \in S /\ (\A x \in S, y \in 1..Objects : Edge(x, y) => y \in S) => S \cap K # {}

\* A first collection of the old space that reads nothing but objects gets past its
\* roots only if none of them leads to a cycle of old objects: an original is never
\* marked (gc.rs 18), its generation does not change, and every turn round the cycle
\* copies it once more.
OldCycleNeverCollected ==
  rounds = 1 /\ gcType = "OldSpace" /\ phase \notin {"handles", "scan", "grey", "wild"} =>
    \A i \in 1..StackSize : StackSlot(i) \in seen => ~ReachesOldCycle(start[StackSlot(i)])

\* Every reference the collector redirects gets a copy of its own, made in that
\* step: two references to one object never share its copy (gc.rs 18-20).
RedirectedToFreshCopy ==
  [][phase = "grey" =>
       \A s \in Slots :
         mem'[s] # mem[s] /\ ~(s[1] = "field" /\ loc[s[2]] = "free") =>
           loc[mem'[s]] = "free"]_vars

============================================================================
