--------------------------- MODULE CollectorProofs ---------------------------
(***************************************************************************)
(* What TLAPS proves about Collector, for any number of objects, roots and *)
(* collections.  First its type invariant, that neither assertion of the   *)
(* collector fires, and that between collections generations and spaces    *)
(* agree.                                                                  *)
(*                                                                         *)
(* The inductive invariants are Inv and CopyInv.  MarkInv ties the soft    *)
(* marks to the black queue; GenInv says which generations lie in which    *)
(* space while a collection is half done.                                  *)
(*                                                                         *)
(* Then the graph the mutator sees: no reference comes to designate        *)
(* another object, and the collector implements HeapGraph.  An item on a   *)
(* queue designates, up to copies, what its slot did before any collection *)
(* (ItemInv).  A copy is made of an item's value and written to its slot,  *)
(* so that the slot keeps designating that object; the copy's own fields   *)
(* are those of the object it was made of.                                 *)
(*                                                                         *)
(* On top of it, what a collection does to weak references (WeakInv),      *)
(* which references it leaves dangling (SeenInv), that prototypes stay     *)
(* where they are (ProtoInv), and why a first collection of the old space  *)
(* never gets past a cycle of old objects (CycleInv): its copies form a    *)
(* forest in which every copy was made after the one that refers to it,    *)
(* and a cycle would have no last one.                                     *)
(***************************************************************************)
EXTENDS Collector, CollectorRefinement, WellFoundedInduction, TLAPS

\* The stack word whose items are processed exists.
FrameInv == phase = "grey" => frame <= StackSize

Marking == phase \in {"handles", "scan", "grey"}

\* Exactly the objects on the black queue are soft marked, each is queued once, and
\* while objects are being marked none of them is in the collected space.
MarkInv ==
  /\ \A c \in Cells : soft[c] <=> \E k \in DOMAIN black : black[k] = c
  /\ \A j, k \in DOMAIN black : black[j] = black[k] => j = k
  /\ \A c \in Cells : soft[c] => loc[c] # "free"
  /\ Marking => \A c \in Cells : soft[c] => ~Current(c)
  /\ phase \notin {"handles", "scan", "grey", "black", "wild"} => black = <<>>

Inv == TypeOK /\ FrameInv /\ MarkInv /\ NoPanic

----------------------------------------------------------------------------
(***************************************************************************)
(* Slots and queues.                                                       *)
(***************************************************************************)

\* Every slot the actions write is a slot.
LEMMA SlotMembers ==
  /\ \A c \in Cells, i \in Fields : Field(c, i) \in Slots
  /\ \A i \in 1..StackSize : StackSlot(i) \in Slots
  /\ \A h \in Handles : Reference(h) \in Slots /\ ValuePtr(h) \in Slots
  /\ \A w \in WeakRefs : WeakValue(w) \in Slots
  BY DEF Slots

\* What a visit pushes are items.
LEMMA VisitItems ==
  ASSUME mem \in [Slots -> Address], NEW x \in Cells, NEW v \in Cells, NEW is
  PROVE  Visit(x, v, is) \in Seq(Items)
<1>1. ASSUME NEW i \in Fields PROVE Pushed(x, v, i) \in Seq(Items)
  <2>1. Field(v, i) \in Slots /\ Field(x, i) \in Slots
    BY SlotMembers
  <2>2. mem[Field(v, i)] \in Address
    BY <2>1
  <2>3. Item(mem[Field(v, i)], Field(x, i)) \in Items
    BY <2>1, <2>2 DEF Items, Item
  <2> QED BY <2>3 DEF Pushed
<1>2. 1 \in Fields /\ 2 \in Fields
  BY DEF Fields
<1> QED BY <1>1, <1>2 DEF Visit

\* The item taken off the queue.
LEMMA TakeItem ==
  ASSUME TypeOK, NEW v, Take(v)
  PROVE  /\ v \in Address
         /\ Head(grey) \in Items
         /\ Head(grey).slot \in Slots
         /\ Tail(grey) \in Seq(Items)
         /\ seen' \subseteq Slots
<1>1. grey \in Seq(Items) /\ grey # <<>> /\ v = Head(grey).value
  BY DEF TypeOK, Take
<1>2. Head(grey) \in Items /\ Tail(grey) \in Seq(Items)
  BY <1>1
<1>3. seen' = seen \cup {Head(grey).slot} /\ seen \subseteq Slots
  BY DEF TypeOK, Take
<1> QED BY <1>1, <1>2, <1>3 DEF Items

----------------------------------------------------------------------------
(***************************************************************************)
(* The initial states.                                                     *)
(***************************************************************************)

LEMMA InitTypeOK == Init => TypeOK
<1> SUFFICES ASSUME Init PROVE TypeOK
  OBVIOUS
<1> USE GenAssumption, ObjectsAssumption, TagsAssumption, RootsAssumption,
        CollectionsAssumption
<1>1. 1..Objects \subseteq Cells
  BY DEF Cells
<1>2. mem \in [Slots -> Address]
  <2>1. PICK f \in [1..Objects -> [Fields -> 0..Objects]],
             k \in [1..StackSize -> Junk..Objects],
             r \in [Handles -> 0..Objects], v \in [Handles -> (0..Objects) \cup {HNil}],
             w \in [WeakRefs -> 1..Objects] :
          mem = Contents(f, k, r, v, w)
    BY DEF Init
  <2>2. (0..Objects) \cup {HNil} \subseteq Address /\ Junk..Objects \subseteq Address
    BY DEF Address, Cells, Nil, Null, Junk, HNil
  <2>3. ASSUME NEW c \in Cells, NEW i \in Fields
        PROVE  mem[Field(c, i)] \in Address
    <3>1. mem[Field(c, i)] = IF c \in 1..Objects THEN f[c][i] ELSE Nil
      BY <2>1, SlotMembers DEF Contents, Field
    <3>2. c \in 1..Objects => f[c][i] \in 0..Objects
      OBVIOUS
    <3> QED BY <3>1, <3>2, <2>2 DEF Address
  <2>4. ASSUME NEW i \in 1..StackSize PROVE mem[StackSlot(i)] \in Address
    <3>1. mem[StackSlot(i)] = k[i]
      BY <2>1, SlotMembers DEF Contents, StackSlot
    <3> QED BY <3>1, <2>2
  <2>5. ASSUME NEW h \in Handles
        PROVE  mem[Reference(h)] \in Address /\ mem[ValuePtr(h)] \in Address
    <3>1. mem[Reference(h)] = r[h] /\ mem[ValuePtr(h)] = v[h]
      BY <2>1, SlotMembers DEF Contents, Reference, ValuePtr
    <3> QED BY <3>1, <2>2
  <2>6. ASSUME NEW x \in WeakRefs PROVE mem[WeakValue(x)] \in Address
    <3>1. mem[WeakValue(x)] = w[x]
      BY <2>1, SlotMembers DEF Contents, WeakValue
    <3>2. w[x] \in Address
      BY DEF Address, Cells
    <3> QED BY <3>1, <3>2
  <2>7. \A s \in Slots : mem[s] \in Address
    BY <2>3, <2>4, <2>5, <2>6 DEF Slots
  <2>8. mem = [s \in Slots |-> mem[s]]
    BY <2>1 DEF Contents
  <2> QED BY <2>7, <2>8
<1>3. tag \in [Cells -> AllTags] /\ gen \in [Cells -> 0..MinOldGen]
      /\ loc \in [Cells -> {"free", "new", "old", "tmp", "gone"}]
  <2>1. PICK t \in [1..Objects -> Tags], g \in [1..Objects -> 0..MinOldGen] :
          /\ tag = [c \in Cells |-> IF c \in 1..Objects THEN t[c] ELSE "String"]
          /\ gen = [c \in Cells |-> IF c \in 1..Objects THEN g[c] ELSE 0]
          /\ loc = [c \in Cells |-> IF c \notin 1..Objects THEN "free"
                                    ELSE IF g[c] = MinOldGen THEN "old" ELSE "new"]
    BY Zenon DEF Init
  <2>2. ASSUME NEW c \in Cells
        PROVE  /\ tag[c] \in AllTags
               /\ gen[c] \in 0..MinOldGen
               /\ loc[c] \in {"free", "new", "old"}
    <3>1. CASE c \in 1..Objects
      <4>1. t[c] \in Tags /\ g[c] \in 0..MinOldGen
        BY <3>1
      <4> QED BY <2>1, <3>1, <4>1
    <3>2. CASE c \notin 1..Objects
      BY <2>1, <3>2 DEF AllTags
    <3> QED BY <3>1, <3>2
  <2> QED BY <2>1, <2>2
<1>4. start \in [Slots -> Address]
  BY <1>2 DEF Init
<1> QED BY <1>2, <1>3, <1>4 DEF Init, TypeOK, GCType, Phases

LEMMA InitInv == Init => Inv
<1> SUFFICES ASSUME Init PROVE Inv
  OBVIOUS
<1>1. TypeOK
  BY InitTypeOK
<1>2. FrameInv /\ NoPanic
  BY DEF Init, FrameInv, NoPanic
<1>3. MarkInv
  BY DEF Init, MarkInv, Marking
<1> QED BY <1>1, <1>2, <1>3 DEF Inv

----------------------------------------------------------------------------
(***************************************************************************)
(* The steps: types.                                                       *)
(***************************************************************************)

LEMMA SetupType ==
  ASSUME Inv
  PROVE  /\ \A i \in 1..StackSize, x \in {Nil, Null} : DropRoot(i, x) => TypeOK'
         /\ \A t \in {"NewSpace", "OldSpace"} : SetNeedsGC(t) => TypeOK'
         /\ \A sp \in {"new", "old"} : Allocate(sp) => TypeOK'
         /\ CollectGarbage => TypeOK'
<1> USE DEF Inv, TypeOK, GCType, Phases, copies, history
<1>1. ASSUME NEW i \in 1..StackSize, NEW x \in {Nil, Null}, DropRoot(i, x)
      PROVE  TypeOK'
  <2>1. x \in Address
    BY DEF Address
  <2>2. mem' \in [Slots -> Address]
    BY <1>1, <2>1 DEF DropRoot, Program
  <2> QED BY <1>1, <2>2 DEF DropRoot, Program, headers, roots, queues
<1>2. ASSUME NEW t \in {"NewSpace", "OldSpace"}, SetNeedsGC(t)
      PROVE  TypeOK'
  BY <1>2 DEF SetNeedsGC, Program, headers, roots, queues
<1>4. ASSUME NEW sp \in {"new", "old"}, Allocate(sp)
      PROVE  TypeOK'
  BY <1>4 DEF Allocate, Overwrite, roots, queues
<1>3. ASSUME CollectGarbage PROVE TypeOK'
  <2>1. rounds' \in 0..MaxCollections /\ frame' \in 1..(StackSize + 1)
    BY <1>3, CollectionsAssumption, RootsAssumption DEF CollectGarbage
  <2>2. needsGC' \in GCType /\ gcType' \in GCType
    BY <1>3 DEF CollectGarbage
  <2> QED BY <1>3, <2>1, <2>2 DEF CollectGarbage, headers, roots, queues
<1> QED BY <1>1, <1>2, <1>3, <1>4

LEMMA RootsType ==
  ASSUME Inv
  PROVE  /\ \A h \in Handles : ColourHandle(h) => TypeOK'
         /\ HandlesColoured => TypeOK'
         /\ ScanWord => TypeOK'
         /\ ScanStray => TypeOK'
         /\ StackScanned => TypeOK'
<1> USE DEF Inv, TypeOK, GCType, Phases, copies, history
<1>1. ASSUME NEW h \in Handles, ColourHandle(h) PROVE TypeOK'
  <2>0. Reference(h) \in Slots /\ ValuePtr(h) \in Slots /\ mem[ValuePtr(h)] \in Address
    BY SlotMembers
  <2>1. /\ Item(mem[ValuePtr(h)], Reference(h)) \in Items
        /\ Item(mem[ValuePtr(h)], ValuePtr(h)) \in Items
    BY <2>0 DEF Item, Items
  <2>2. grey' \in Seq(Items)
    BY <1>1, <2>1 DEF ColourHandle
  <2> QED BY <1>1, <2>2 DEF ColourHandle, headers, roots
<1>2. ASSUME HandlesColoured PROVE TypeOK'
  BY <1>2 DEF HandlesColoured, headers, roots, queues
<1>3. ASSUME ScanWord PROVE TypeOK'
  <2>1. frame \in 1..StackSize
    BY <1>3, RootsAssumption DEF ScanWord, EndOfStack
  <2>2. Item(mem[StackSlot(frame)], StackSlot(frame)) \in Items
    BY <2>1, SlotMembers DEF Item, Items
  <2>3. grey' = Append(grey, Item(mem[StackSlot(frame)], StackSlot(frame))) \/ grey' = grey
    <3>1. CASE InHeap(mem[StackSlot(frame)])
      BY <1>3, <3>1 DEF ScanWord
    <3>2. CASE ~InHeap(mem[StackSlot(frame)])
      BY <1>3, <3>2 DEF ScanWord
    <3> QED BY <3>1, <3>2
  <2>5. ASSUME NEW x \in Items PROVE Append(grey, x) \in Seq(Items)
    OBVIOUS
  <2>6. grey' \in Seq(Items)
    BY <2>2, <2>3, <2>5
  <2>4. frame' \in 1..(StackSize + 1) /\ phase' \in Phases
    BY <1>3, <2>1, RootsAssumption DEF ScanWord
  <2> QED BY <1>3, <2>4, <2>6 DEF ScanWord, headers, roots
<1>4. ASSUME StackScanned PROVE TypeOK'
  BY <1>4 DEF StackScanned, headers, roots, queues
<1>5. ASSUME ScanStray PROVE TypeOK'
  BY <1>5 DEF ScanStray, headers, roots, queues
<1> QED BY <1>1, <1>2, <1>3, <1>4, <1>5

LEMMA GreyType ==
  ASSUME Inv, ProcessGrey \/ GreyEmpty
  PROVE  TypeOK'
<1> USE DEF Inv, TypeOK, GCType, Phases, copies, history
<1>1. ASSUME NEW v \in {Nil, HNil}, SkipUnboxed(v) PROVE TypeOK'
  <2>1. Take(v) /\ grey' = Tail(grey)
    BY <1>1 DEF SkipUnboxed
  <2>2. grey' \in Seq(Items) /\ seen' \subseteq Slots
    BY <2>1, TakeItem
  <2> QED BY <1>1, <2>2 DEF SkipUnboxed, Take, headers, roots
<1>2. ASSUME NEW v \in Address \ {Nil, HNil}, ReadUnmapped(v) PROVE TypeOK'
  <2>1. seen' \subseteq Slots
    BY <1>2, TakeItem DEF ReadUnmapped
  <2> QED BY <1>2, <2>1 DEF ReadUnmapped, Take, headers, roots, queues
<1>3. ASSUME NEW v \in Address \ {Nil, HNil}, MarkSoft(v) PROVE TypeOK'
  <2>1. v \in Cells /\ Take(v)
    BY <1>3 DEF MarkSoft, Readable
  <2>2. seen' \subseteq Slots /\ Tail(grey) \in Seq(Items)
    BY <2>1, TakeItem
  <2>3. Visit(v, v, Strong(tag[v])) \in Seq(Items) /\ Visit(v, v, Weak(tag[v])) \in Seq(Items)
    BY <2>1, VisitItems
  <2>4. grey' \in Seq(Items) /\ weak' \in Seq(Items)
    BY <1>3, <2>2, <2>3 DEF MarkSoft, VisitValue
  <2>5. soft' \in [Cells -> BOOLEAN] /\ black' \in Seq(Cells)
    BY <1>3, <2>1 DEF MarkSoft
  <2> QED BY <1>3, <2>2, <2>4, <2>5 DEF MarkSoft, Take, roots
<1>4. ASSUME NEW v \in Address \ {Nil, HNil}, SkipMarked(v) PROVE TypeOK'
  <2>1. Take(v) /\ grey' = Tail(grey)
    BY <1>4 DEF SkipMarked
  <2>2. grey' \in Seq(Items) /\ seen' \subseteq Slots
    BY <2>1, TakeItem
  <2> QED BY <1>4, <2>2 DEF SkipMarked, Take, headers, roots
<1>5. ASSUME NEW v \in Address \ {Nil, HNil}, Evacuate(v) PROVE TypeOK'
  <2>1. v \in Cells /\ Take(v)
    BY <1>5 DEF Evacuate, Readable
  <2>2. seen' \subseteq Slots /\ Tail(grey) \in Seq(Items) /\ Head(grey).slot \in Slots
    BY <2>1, TakeItem
  <2>3. CASE Follow(v)
    <3>1. mem' \in [Slots -> Address]
      BY <2>1, <2>2, <2>3 DEF Follow, Address
    <3>2. forward' \in [Cells -> Cells \cup {Nil}]
      BY <2>1, <2>3 DEF Follow, Forwarding
    <3>3. grey' \in Seq(Items)
      BY <2>2, <2>3 DEF Follow
    <3> QED BY <2>1, <2>2, <2>3, <3>1, <3>2, <3>3 DEF Follow, Take, roots
  <2>4. CASE AssertFails
    BY <2>1, <2>2, <2>4 DEF AssertFails, Take, headers, roots, queues
  <2>5. CASE CopyTo(v) /\ forward[v] = Nil
    <3> DEFINE g == Older(gen[v])
    <3>1. PICK c \in Cells :
            /\ NextFree(c)
            /\ gen' = [gen EXCEPT ![v] = g, ![c] = g]
            /\ loc' = [loc EXCEPT ![c] = CopySpace(g)]
            /\ Overwrite(CopySpace(g))
            /\ tag' = [tag EXCEPT ![c] = tag[v]]
            /\ mem' = [mem EXCEPT ![Field(c, 1)] = mem[Field(v, 1)],
                                  ![Field(c, 2)] = mem[Field(v, 2)],
                                  ![Head(grey).slot] = c]
            /\ forward' = Forwarding(v, c)
            /\ origin' = [origin EXCEPT ![c] = origin[v]] /\ fresh' = fresh \cup {c}
            /\ VisitValue(c, v)
      BY <2>5 DEF CopyTo
    <3>2. g \in 0..MinOldGen
      BY <2>1, GenAssumption DEF Older
    <3>3. CopySpace(g) \in {"new", "old", "tmp"}
      BY DEF CopySpace
    <3>4. gen' \in [Cells -> 0..MinOldGen]
          /\ loc' \in [Cells -> {"free", "new", "old", "tmp", "gone"}]
      BY <2>1, <3>1, <3>2, <3>3
    <3>10. lost' \subseteq Cells /\ phase' \in Phases
      BY <2>5, <3>1 DEF Overwrite, CopyTo
    <3>5. tag' \in [Cells -> AllTags] /\ origin' \in [Cells -> Cells] /\ fresh' \subseteq Cells
      BY <2>1, <3>1
    <3>6. /\ Field(c, 1) \in Slots /\ Field(c, 2) \in Slots
          /\ Field(v, 1) \in Slots /\ Field(v, 2) \in Slots
      BY <2>1, SlotMembers DEF Fields
    <3>7. mem' \in [Slots -> Address]
      <4>1. mem[Field(v, 1)] \in Address /\ mem[Field(v, 2)] \in Address /\ c \in Address
        BY <3>6 DEF Address
      <4> QED BY <2>2, <3>1, <4>1
    <3>8. forward' \in [Cells -> Cells \cup {Nil}]
      BY <2>1, <3>1 DEF Forwarding
    <3>9. grey' \in Seq(Items) /\ weak' \in Seq(Items)
      <4>1. Visit(c, v, Strong(tag[v])) \in Seq(Items) /\ Visit(c, v, Weak(tag[v])) \in Seq(Items)
        BY <2>1, VisitItems
      <4> QED BY <2>2, <3>1, <4>1 DEF VisitValue
    <3> HIDE DEF g
    <3> QED BY <2>1, <2>2, <2>5, <3>4, <3>5, <3>7, <3>8, <3>9, <3>10 DEF CopyTo, Take, roots
  <2> QED BY <1>5, <2>3, <2>4, <2>5 DEF Evacuate
<1>6. CASE GreyEmpty
  <2>1. frame' \in 1..(StackSize + 1)
    BY <1>6, RootsAssumption DEF GreyEmpty, FrameInv
  <2> QED BY <1>6, <2>1 DEF GreyEmpty, headers, roots, queues
<1> QED BY <1>1, <1>2, <1>3, <1>4, <1>5, <1>6 DEF ProcessGrey

LEMMA EndType ==
  ASSUME Inv
  PROVE  /\ DrainBlack => TypeOK'
         /\ RelocateWeakHandles => TypeOK'
         /\ \A w \in WeakRefs : HandleWeakRef(w) => TypeOK'
         /\ WeakRefsHandled => TypeOK'
         /\ Swap => TypeOK'
<1> USE DEF Inv, TypeOK, GCType, Phases, copies, history
<1>1. ASSUME DrainBlack PROVE TypeOK'
  <2>1. CASE black = <<>>
    BY <1>1, <2>1 DEF DrainBlack, roots
  <2>2. CASE black # <<>>
    <3>1. Tail(black) \in Seq(Cells) /\ Head(black) \in Cells
      BY <2>2
    <3>2. soft' \in [Cells -> BOOLEAN] /\ black' \in Seq(Cells) /\ phase' \in Phases
      BY <1>1, <2>2, <3>1 DEF DrainBlack
    <3> QED BY <1>1, <3>2 DEF DrainBlack, roots
  <2> QED BY <2>1, <2>2
<1>2. ASSUME RelocateWeakHandles PROVE TypeOK'
  <2>1. CASE \A h \in WeakBoxed : Readable(mem[ValuePtr(h)])
    <3>1. handles' \subseteq Handles
      BY <1>2, <2>1 DEF RelocateWeakHandles, Kept, WeakBoxed
    <3>2. ASSUME NEW s \in Slots, NEW h \in Kept, s \in {Reference(h), ValuePtr(h)}
          PROVE  forward[mem[ValuePtr(s[2])]] \in Address
      <4>1. s[2] = h /\ h \in WeakBoxed
        BY <3>2 DEF Reference, ValuePtr, Kept
      <4>2. mem[ValuePtr(h)] \in Cells
        BY <2>1, <4>1 DEF Readable
      <4> QED BY <4>1, <4>2 DEF Address
    <3>3. mem' \in [Slots -> Address]
      <4>1. mem' = [s \in Slots |->
                      IF \E h \in Kept : s \in {Reference(h), ValuePtr(h)}
                      THEN forward[mem[ValuePtr(s[2])]] ELSE mem[s]]
        BY <1>2, <2>1 DEF RelocateWeakHandles
      <4> QED BY <3>2, <4>1
    <3> QED BY <1>2, <2>1, <3>1, <3>3 DEF RelocateWeakHandles, headers, queues
  <2>2. CASE ~\A h \in WeakBoxed : Readable(mem[ValuePtr(h)])
    BY <1>2, <2>2 DEF RelocateWeakHandles, headers, queues
  <2> QED BY <2>1, <2>2
<1>3. ASSUME NEW w \in WeakRefs, HandleWeakRef(w) PROVE TypeOK'
  <2> DEFINE v == mem[WeakValue(w)]
  <2>1. WeakValue(w) \in Slots
    BY SlotMembers
  <2>2. Readable(v) => FirstWord(v) \in Address
    BY SlotMembers DEF Readable, FirstWord, Fields, Address
  <2>3. \/ mem' = mem
        \/ Readable(v) /\ mem' = [mem EXCEPT ![WeakValue(w)] = FirstWord(v)]
        \/ \E i \in 1..StackSize, x \in {Nil, Null} : mem' = [mem EXCEPT ![StackSlot(i)] = x]
    BY <1>3 DEF HandleWeakRef, Callback
  <2>4. mem' \in [Slots -> Address]
    <3>1. {Nil, Null} \subseteq Address
      BY DEF Address
    <3> QED BY <2>1, <2>2, <2>3, <3>1
  <2>5. /\ weakRefs' \subseteq WeakRefs
        /\ needsGC' \in GCType
        /\ phase' \in Phases
        /\ todo' \subseteq Handles \cup WeakRefs
    BY <1>3 DEF HandleWeakRef, Callback
  <2>6. lost' \subseteq Cells
    BY <1>3 DEF HandleWeakRef, Callback, Overwrite
  <2> QED BY <1>3, <2>4, <2>5, <2>6 DEF HandleWeakRef, queues
<1>4. ASSUME WeakRefsHandled PROVE TypeOK'
  BY <1>4 DEF WeakRefsHandled, headers, roots, queues
<1>5. ASSUME Swap PROVE TypeOK'
  <2>1. \A c \in Cells : AfterSwap(loc[c]) \in {"free", "new", "old", "tmp", "gone"}
    BY DEF AfterSwap
  <2> QED BY <1>5, <2>1 DEF Swap, roots, queues
<1> QED BY <1>1, <1>2, <1>3, <1>4, <1>5

----------------------------------------------------------------------------
(***************************************************************************)
(* The steps: soft marks.                                                  *)
(***************************************************************************)

MayHoldMarks == {"handles", "scan", "grey", "black", "wild"}

\* A step that touches neither marks nor headers, and does not begin to mark.
LEMMA QuietStep ==
  ASSUME MarkInv, UNCHANGED <<gen, soft, loc, gcType, black>>,
         Marking' => Marking,
         phase' \notin MayHoldMarks => black = <<>>
  PROVE  MarkInv'
<1>1. \A c \in Cells : Current(c)' <=> Current(c)
  BY DEF Current
<1> QED BY <1>1 DEF MarkInv, MayHoldMarks

\* Where the black queue must be empty nothing is marked.
LEMMA Unmarked ==
  ASSUME MarkInv, black = <<>>
  PROVE  \A c \in Cells : ~soft[c]
BY DEF MarkInv

LEMMA MarkSoftKeeps ==
  ASSUME Inv, NEW v, MarkSoft(v)
  PROVE  MarkInv'
<1>1. /\ v \in Cells /\ ~soft[v] /\ ~Current(v) /\ loc[v] # "free"
      /\ soft' = [soft EXCEPT ![v] = TRUE] /\ black' = Append(black, v)
      /\ phase = "grey" /\ UNCHANGED <<gen, loc, gcType, phase>>
  BY DEF MarkSoft, Readable, Take
<1>2. black \in Seq(Cells) /\ soft \in [Cells -> BOOLEAN]
  BY DEF Inv, TypeOK
<1>3. \A c \in Cells : Current(c)' <=> Current(c)
  BY <1>1 DEF Current
<1>4. /\ Len(black') = Len(black) + 1
      /\ \A k \in 1..Len(black) : black'[k] = black[k]
      /\ black'[Len(black) + 1] = v
      /\ DOMAIN black = 1..Len(black) /\ DOMAIN black' = 1..(Len(black) + 1)
      /\ Len(black) \in Nat
  BY <1>1, <1>2
<1>5. \A k \in DOMAIN black : black[k] # v
  BY <1>1 DEF Inv, MarkInv
<1>6. \A c \in Cells : soft'[c] <=> \E k \in DOMAIN black' : black'[k] = c
  <2>1. ASSUME NEW c \in Cells, c # v
        PROVE  soft'[c] <=> \E k \in DOMAIN black' : black'[k] = c
    <3>1. soft'[c] = soft[c]
      BY <1>1, <1>2, <2>1
    <3>2. soft[c] <=> \E k \in DOMAIN black : black[k] = c
      BY DEF Inv, MarkInv
    <3>3. (\E k \in DOMAIN black : black[k] = c) <=> (\E k \in DOMAIN black' : black'[k] = c)
      BY <1>4, <2>1
    <3> QED BY <3>1, <3>2, <3>3
  <2>2. soft'[v] /\ \E k \in DOMAIN black' : black'[k] = v
    BY <1>1, <1>2, <1>4
  <2> QED BY <2>1, <2>2
<1>7. \A j, k \in DOMAIN black' : black'[j] = black'[k] => j = k
  <2>1. \A j, k \in DOMAIN black : black[j] = black[k] => j = k
    BY DEF Inv, MarkInv
  <2> QED BY <1>4, <1>5, <2>1
<1>8. \A c \in Cells : soft'[c] => loc'[c] # "free" /\ ~Current(c)'
  BY <1>1, <1>2, <1>3 DEF Inv, MarkInv, Marking
<1> QED BY <1>1, <1>6, <1>7, <1>8 DEF MarkInv

\* A copy goes to a free cell, and the object it ages is not marked.
LEMMA CopyToKeeps ==
  ASSUME Inv, NEW v, Evacuate(v), CopyTo(v), ~soft[v]
  PROVE  MarkInv'
<1>1. /\ v \in Cells /\ phase = "grey" /\ phase' \in {"grey", "wild"}
      /\ UNCHANGED <<soft, black, gcType>>
  BY DEF Evacuate, Readable, Take, CopyTo
<1>2. PICK c \in Cells :
        /\ loc[c] = "free"
        /\ gen' = [gen EXCEPT ![v] = Older(gen[v]), ![c] = Older(gen[v])]
        /\ loc' = [loc EXCEPT ![c] = CopySpace(Older(gen[v]))]
  BY DEF CopyTo, NextFree
<1>3. /\ gen \in [Cells -> 0..MinOldGen]
      /\ loc \in [Cells -> {"free", "new", "old", "tmp", "gone"}]
  BY DEF Inv, TypeOK
<1>4. ~soft[c]
  BY <1>2 DEF Inv, MarkInv
<1>5. ASSUME NEW d \in Cells, soft[d]
      PROVE  gen'[d] = gen[d] /\ loc'[d] = loc[d]
  BY <1>2, <1>3, <1>4, <1>5
<1>6. ASSUME NEW d \in Cells, soft[d]
      PROVE  loc'[d] # "free" /\ ~Current(d)'
  BY <1>1, <1>5, <1>6 DEF Inv, MarkInv, Marking, Current
<1> QED BY <1>1, <1>6 DEF Inv, MarkInv

\* The head of the queue is marked, and nothing else loses its mark.
LEMMA DrainBlackKeeps ==
  ASSUME Inv, DrainBlack
  PROVE  MarkInv' /\ NoPanic'
<1>1. phase = "black" /\ UNCHANGED <<gen, loc, gcType>>
  BY DEF DrainBlack
<1>2. CASE black = <<>>
  <2>1. phase' = "weak" /\ UNCHANGED <<soft, black>>
    BY <1>2 DEF DrainBlack
  <2> QED BY <1>1, <1>2, <2>1, QuietStep DEF Inv, Marking, NoPanic
<1>3. CASE black # <<>>
  <2>1. black \in Seq(Cells) /\ soft \in [Cells -> BOOLEAN]
    BY DEF Inv, TypeOK
  <2>2. /\ Len(black) \in Nat \ {0} /\ DOMAIN black = 1..Len(black)
        /\ Head(black) = black[1] /\ Head(black) \in Cells
        /\ DOMAIN Tail(black) = 1..(Len(black) - 1)
        /\ \A k \in 1..(Len(black) - 1) : Tail(black)[k] = black[k + 1]
    BY <1>3, <2>1
  <2>3. soft[Head(black)]
    BY <2>2 DEF Inv, MarkInv
  <2>4. /\ phase' \in {"black", "wild"} /\ black' = Tail(black)
        /\ soft' = [soft EXCEPT ![Head(black)] = FALSE]
    BY <1>3, <2>3 DEF DrainBlack
  <2>5. \A j, k \in DOMAIN black : black[j] = black[k] => j = k
    BY DEF Inv, MarkInv
  <2>6. \A j, k \in DOMAIN black' : black'[j] = black'[k] => j = k
    BY <2>2, <2>4, <2>5
  <2>7. ASSUME NEW c \in Cells
        PROVE  soft'[c] <=> \E k \in DOMAIN black' : black'[k] = c
    <3>1. soft[c] <=> \E k \in 1..Len(black) : black[k] = c
      BY <2>2 DEF Inv, MarkInv
    <3>2. CASE c = Head(black)
      <4>1. ~soft'[c]
        BY <2>1, <2>4, <3>2
      <4>2. \A k \in 1..(Len(black) - 1) : black[k + 1] # c
        BY <2>2, <2>5, <3>2
      <4> QED BY <2>2, <2>4, <4>1, <4>2
    <3>3. CASE c # Head(black)
      <4>1. soft'[c] = soft[c]
        BY <2>1, <2>4, <3>3
      <4>2. ASSUME NEW k \in 1..Len(black), black[k] = c
            PROVE  k - 1 \in 1..(Len(black) - 1) /\ Tail(black)[k - 1] = c
        BY <2>2, <3>3, <4>2
      <4>3. ASSUME NEW k \in 1..(Len(black) - 1), Tail(black)[k] = c
            PROVE  k + 1 \in 1..Len(black) /\ black[k + 1] = c
        BY <2>2, <4>3
      <4> QED BY <2>2, <2>4, <3>1, <4>1, <4>2, <4>3
    <3> QED BY <3>2, <3>3
  <2>8. \A c \in Cells : soft'[c] => loc'[c] # "free"
    BY <1>1, <2>1, <2>4 DEF Inv, MarkInv
  <2> QED BY <2>4, <2>6, <2>7, <2>8 DEF MarkInv, Marking, NoPanic
<1> QED BY <1>2, <1>3

LEMMA CollectGarbageKeeps ==
  ASSUME Inv, CollectGarbage
  PROVE  MarkInv'
<1>1. black = <<>> /\ UNCHANGED <<soft, loc, black>> /\ phase' = "handles"
  BY DEF CollectGarbage, Inv, MarkInv, headers, queues
<1> QED BY <1>1, Unmarked DEF Inv, MarkInv

LEMMA SwapKeeps ==
  ASSUME Inv, Swap
  PROVE  MarkInv'
<1>1. black = <<>> /\ UNCHANGED <<soft, black>> /\ phase' \in {"idle", "begin"}
  BY DEF Swap, Inv, MarkInv, queues
<1> QED BY <1>1, Unmarked DEF Inv, MarkInv, Marking

LEMMA ProcessGreyKeeps ==
  ASSUME Inv, ProcessGrey
  PROVE  MarkInv' /\ FrameInv' /\ NoPanic'
<1>1. phase = "grey" /\ frame' = frame /\ gcType' = gcType
  BY DEF ProcessGrey, SkipUnboxed, ReadUnmapped, MarkSoft, SkipMarked, Evacuate, Take
<1>2. ASSUME NEW v, SkipUnboxed(v) PROVE MarkInv' /\ FrameInv' /\ NoPanic'
  BY <1>1, <1>2, QuietStep DEF SkipUnboxed, headers, Inv, Marking, FrameInv, NoPanic, MayHoldMarks
<1>3. ASSUME NEW v, ReadUnmapped(v) PROVE MarkInv' /\ FrameInv' /\ NoPanic'
  BY <1>1, <1>3, QuietStep
  DEF ReadUnmapped, headers, queues, Inv, Marking, FrameInv, NoPanic, MayHoldMarks
<1>4. ASSUME NEW v, MarkSoft(v) PROVE MarkInv' /\ FrameInv' /\ NoPanic'
  BY <1>1, <1>4, MarkSoftKeeps DEF MarkSoft, Inv, FrameInv, NoPanic
<1>5. ASSUME NEW v, SkipMarked(v) PROVE MarkInv' /\ FrameInv' /\ NoPanic'
  BY <1>1, <1>5, QuietStep
  DEF SkipMarked, headers, Inv, Marking, FrameInv, NoPanic, MayHoldMarks
<1>6. ASSUME NEW v, Evacuate(v) PROVE MarkInv' /\ FrameInv' /\ NoPanic'
  <2>1. CASE Follow(v)
    BY <1>1, <2>1, QuietStep DEF Follow, Inv, Marking, FrameInv, NoPanic, MayHoldMarks
  <2>2. CASE Current(v) /\ soft[v]
    <3>1. v \in Cells
      BY <1>6 DEF Evacuate, Readable
    <3> QED BY <1>1, <2>2, <3>1 DEF Inv, MarkInv, Marking
  <2>3. CASE CopyTo(v) /\ ~soft[v]
    <3>1. phase' \in {"grey", "wild"}
      BY <2>3 DEF CopyTo
    <3> QED BY <1>1, <1>6, <2>3, <3>1, CopyToKeeps DEF Inv, FrameInv, NoPanic
  <2> QED BY <1>6, <2>1, <2>2, <2>3 DEF Evacuate
<1> QED BY <1>2, <1>3, <1>4, <1>5, <1>6 DEF ProcessGrey

----------------------------------------------------------------------------
(***************************************************************************)
(* The invariant, and the theorems.                                        *)
(***************************************************************************)

LEMMA StepInv == Inv /\ [Next]_vars => Inv'
<1> SUFFICES ASSUME Inv, [Next]_vars PROVE Inv'
  OBVIOUS
<1> USE DEF FrameInv, NoPanic, Marking, MayHoldMarks
<1>1. ASSUME NEW i \in 1..StackSize, NEW x \in {Nil, Null}, DropRoot(i, x) PROVE Inv'
  <2>1. phase = "idle" /\ phase' = "idle" /\ UNCHANGED <<gen, soft, loc, gcType, black>>
    BY <1>1 DEF DropRoot, Program, headers, queues
  <2>2. black = <<>> /\ TypeOK'
    BY <1>1, <2>1, SetupType DEF Inv, MarkInv
  <2> QED BY <2>1, <2>2, QuietStep DEF Inv
<1>2. ASSUME NEW t \in {"NewSpace", "OldSpace"}, SetNeedsGC(t) PROVE Inv'
  <2>1. phase = "idle" /\ phase' = "idle" /\ UNCHANGED <<gen, soft, loc, gcType, black>>
    BY <1>2 DEF SetNeedsGC, Program, headers, queues
  <2>2. black = <<>> /\ TypeOK'
    BY <1>2, <2>1, SetupType DEF Inv, MarkInv
  <2> QED BY <2>1, <2>2, QuietStep DEF Inv
<1>6. ASSUME NEW sp \in {"new", "old"}, Allocate(sp) PROVE Inv'
  <2>1. phase = "idle" /\ phase' = "idle" /\ UNCHANGED <<gen, soft, loc, gcType, black>>
    BY <1>6 DEF Allocate, Program, queues
  <2>2. black = <<>> /\ TypeOK'
    BY <1>6, <2>1, SetupType DEF Inv, MarkInv
  <2> QED BY <2>1, <2>2, QuietStep DEF Inv
<1>3. CASE CollectGarbage
  BY <1>3, SetupType, CollectGarbageKeeps DEF CollectGarbage, Inv
<1>4. CASE Collection
  <2>1. ASSUME NEW h \in Handles, ColourHandle(h) PROVE Inv'
    BY <2>1, RootsType, QuietStep DEF ColourHandle, headers, Inv
  <2>2. CASE HandlesColoured
    BY <2>2, RootsType, QuietStep DEF HandlesColoured, headers, queues, Inv
  <2>3. CASE ScanWord
    <3>1. FrameInv' /\ NoPanic' /\ phase = "scan" /\ phase' \in {"scan", "grey"}
      BY <2>3, RootsAssumption DEF ScanWord, EndOfStack, Inv, TypeOK
    <3> QED BY <2>3, <3>1, RootsType, QuietStep DEF ScanWord, headers, Inv
  <2>4. CASE StackScanned
    BY <2>4, RootsType, QuietStep DEF StackScanned, headers, queues, Inv
  <2>12. CASE ScanStray
    BY <2>12, RootsType, QuietStep DEF ScanStray, headers, queues, Inv
  <2>5. CASE ProcessGrey
    BY <2>5, GreyType, ProcessGreyKeeps DEF Inv
  <2>6. CASE GreyEmpty
    BY <2>6, GreyType, QuietStep DEF GreyEmpty, headers, queues, Inv
  <2>7. CASE DrainBlack
    <3>1. phase' # "grey"
      BY <2>7 DEF DrainBlack
    <3> QED BY <2>7, <3>1, EndType, DrainBlackKeeps DEF Inv
  <2>8. CASE RelocateWeakHandles
    <3>1. phase = "weak" /\ phase' \in {"refs", "wild"}
      BY <2>8 DEF RelocateWeakHandles
    <3>2. black = <<>>
      BY <3>1 DEF Inv, MarkInv
    <3> QED BY <2>8, <3>1, <3>2, EndType, QuietStep DEF RelocateWeakHandles, headers, queues, Inv
  <2>9. ASSUME NEW w \in WeakRefs, HandleWeakRef(w) PROVE Inv'
    <3>1. phase = "refs" /\ phase' \in {"refs", "wild"}
      BY <2>9 DEF HandleWeakRef
    <3>2. black = <<>>
      BY <3>1 DEF Inv, MarkInv
    <3>3. UNCHANGED <<gen, soft, loc, gcType, black>>
      BY <2>9 DEF HandleWeakRef, queues
    <3> QED BY <2>9, <3>1, <3>2, <3>3, EndType, QuietStep DEF Inv
  <2>10. CASE WeakRefsHandled
    <3>1. black = <<>>
      BY <2>10 DEF WeakRefsHandled, Inv, MarkInv
    <3> QED BY <2>10, <3>1, EndType, QuietStep DEF WeakRefsHandled, headers, queues, Inv
  <2>11. CASE Swap
    <3>1. phase' \in {"idle", "begin"}
      BY <2>11 DEF Swap
    <3> QED BY <2>11, <3>1, EndType, SwapKeeps DEF Inv
  <2> QED BY <1>4, <2>1, <2>2, <2>3, <2>4, <2>5, <2>6, <2>7, <2>8, <2>9, <2>10, <2>11,
             <2>12
          DEF Collection
<1>5. CASE UNCHANGED vars
  BY <1>5 DEF vars, headers, roots, queues, copies, history, Inv, TypeOK, MarkInv, Current
<1> QED BY <1>1, <1>2, <1>3, <1>4, <1>5, <1>6 DEF Next

LEMMA InvHolds == Spec => []Inv
BY InitInv, StepInv, PTL DEF Spec

\* The collector's state keeps its types: every slot holds an address, every queue
\* items over slots that exist (gc.rs 25-343).
THEOREM TypeCorrect == Spec => []TypeOK
<1>1. Inv => TypeOK
  BY DEF Inv
<1> QED BY <1>1, InvHolds, PTL

\* Neither assertion of the collector fires (gc.rs 82, 220), whatever the graph, the
\* roots, and the number of collections.
THEOREM NeverPanics == Spec => []NoPanic
<1>1. Inv => NoPanic
  BY DEF Inv
<1> QED BY <1>1, InvHolds, PTL

----------------------------------------------------------------------------
(***************************************************************************)
(* Copies: generations and spaces agree between collections, and every     *)
(* redirected reference gets a copy of its own.                            *)
(*                                                                         *)
(* The argument: a collection never takes one of its own copies off the    *)
(* grey queue, so that nothing ages once it lies in the temporary space.   *)
(* FreshInv, QueueInv and ReachInv make that inductive, over collections   *)
(* that leave items behind.                                                *)
(***************************************************************************)

ItemsOf(q) == {q[k] : k \in DOMAIN q}

\* relocate only overwrites a forwarding address, so that there is never a first one.
NotForwarded == \A c \in Cells : forward[c] = Nil

\* The temporary space holds copies of the current collection only.
FreshInv ==
  /\ phase \in {"idle", "begin", "handles"} => fresh = {}
  /\ \A c \in Cells : loc[c] = "tmp" => c \in fresh

\* Nothing designates a cell that is not allocated.
PointInv ==
  /\ \A s \in Slots : mem[s] \in Cells => loc[mem[s]] # "free"
  /\ \A x \in ItemsOf(grey) : x.value \in Cells => loc[x.value] # "free"

\* What is left on the grey queue outside process_grey are handles.
QueueInv ==
  \A x \in ItemsOf(grey) :
    /\ x.slot[1] \in {"field", "stack"} => phase \in {"grey", "wild"}
    /\ x.slot[1] = "stack" /\ phase = "grey" => x.slot[2] = frame

\* While objects are marked, nothing that is still to be looked at is or designates
\* a copy of the current collection.
ReachInv ==
  Marking =>
    /\ \A x \in ItemsOf(grey) :
         /\ x.value \notin fresh
         /\ x.slot[1] = "field" => x.slot[2] \in fresh \/ soft[x.slot[2]]
    /\ \A c \in Cells \ fresh, i \in Fields : ~soft[c] => mem[Field(c, i)] \notin fresh
    /\ \A j \in 1..StackSize :
         (phase = "scan" /\ j >= frame) \/ (phase = "grey" /\ j > frame) =>
           mem[StackSlot(j)] \notin fresh

Active == phase \notin {"idle", "begin"}

\* The old space holds old objects at any time; the new space holds new ones, except
\* for the originals that a collection of the new space has copied often enough; the
\* temporary space holds what its collection will leave behind.
GenInv ==
  /\ Active => gcType \in {"NewSpace", "OldSpace"}
  /\ \A c \in Cells :
       /\ loc[c] = "old" => gen[c] >= MinOldGen
       /\ loc[c] = "new" => gen[c] < MinOldGen \/ (Active /\ gcType = "NewSpace")
       /\ loc[c] = "tmp" => /\ Active
                            /\ gcType = "NewSpace" => gen[c] < MinOldGen
                            /\ gcType = "OldSpace" => gen[c] >= MinOldGen

CopyInv == NotForwarded /\ FreshInv /\ PointInv /\ QueueInv /\ ReachInv /\ GenInv

----------------------------------------------------------------------------
(***************************************************************************)
(* Queues, seen as the items on them.                                      *)
(***************************************************************************)

LEMMA ItemsOfAppend ==
  ASSUME NEW S, NEW q \in Seq(S), NEW x \in S
  PROVE  \A y \in ItemsOf(Append(q, x)) : y \in ItemsOf(q) \/ y = x
BY DEF ItemsOf

LEMMA ItemsOfConcat ==
  ASSUME NEW S, NEW p \in Seq(S), NEW q \in Seq(S)
  PROVE  \A y \in ItemsOf(p \o q) : y \in ItemsOf(p) \/ y \in ItemsOf(q)
<1> SUFFICES ASSUME NEW k \in DOMAIN (p \o q)
             PROVE  (p \o q)[k] \in ItemsOf(p) \/ (p \o q)[k] \in ItemsOf(q)
  BY DEF ItemsOf
<1>1. k \in 1..(Len(p) + Len(q)) /\ Len(p) \in Nat /\ Len(q) \in Nat
      /\ DOMAIN p = 1..Len(p) /\ DOMAIN q = 1..Len(q)
  OBVIOUS
<1>2. CASE k <= Len(p)
  <2>1. (p \o q)[k] = p[k] /\ k \in DOMAIN p
    BY <1>1, <1>2
  <2> QED BY <2>1 DEF ItemsOf
<1>3. CASE k > Len(p)
  <2>1. (p \o q)[k] = q[k - Len(p)] /\ k - Len(p) \in DOMAIN q
    BY <1>1, <1>3
  <2> QED BY <2>1 DEF ItemsOf
<1> QED BY <1>1, <1>2, <1>3

LEMMA ItemsOfTail ==
  ASSUME NEW S, NEW q \in Seq(S), q # <<>>
  PROVE  /\ \A y \in ItemsOf(Tail(q)) : y \in ItemsOf(q)
         /\ Head(q) \in ItemsOf(q)
<1>1. /\ DOMAIN q = 1..Len(q) /\ Len(q) \in Nat \ {0} /\ Head(q) = q[1]
      /\ DOMAIN Tail(q) = 1..(Len(q) - 1)
      /\ \A k \in 1..(Len(q) - 1) : Tail(q)[k] = q[k + 1]
  OBVIOUS
<1>2. \A k \in 1..(Len(q) - 1) : k + 1 \in 1..Len(q)
  BY <1>1
<1> QED BY <1>1, <1>2 DEF ItemsOf

\* A visit pushes fields of the visited object, into slots of the visiting one.
LEMMA ItemsOfVisit ==
  ASSUME mem \in [Slots -> Address], NEW x \in Cells, NEW v \in Cells, NEW is
  PROVE  \A y \in ItemsOf(Visit(x, v, is)) :
           \E i \in Fields : i \in is /\ y = Item(mem[Field(v, i)], Field(x, i))
<1> DEFINE P(i) == Item(mem[Field(v, i)], Field(x, i))
<1>1. 1 \in Fields /\ 2 \in Fields
  BY DEF Fields
<1>2. ASSUME NEW i \in Fields
      PROVE  Pushed(x, v, i) \in Seq(Items) /\ \A y \in ItemsOf(Pushed(x, v, i)) : y = P(i)
  <2>1. Field(v, i) \in Slots /\ Field(x, i) \in Slots
    BY SlotMembers
  <2>2. P(i) \in Items
    BY <2>1 DEF Items, Item
  <2>3. Pushed(x, v, i) = <<>> \/ Pushed(x, v, i) = <<P(i)>>
    BY DEF Pushed
  <2> HIDE DEF P
  <2>4. /\ <<P(i)>> \in Seq(Items) /\ \A y \in ItemsOf(<<P(i)>>) : y = P(i)
        /\ <<>> \in Seq(Items) /\ \A y \in ItemsOf(<<>>) : y = P(i)
    BY <2>2 DEF ItemsOf
  <2> QED BY <2>3, <2>4
<1>3. \A y \in ItemsOf(<<>>) : FALSE
  BY DEF ItemsOf
<1> DEFINE p == IF 1 \in is THEN Pushed(x, v, 1) ELSE <<>>
           q == IF 2 \in is THEN Pushed(x, v, 2) ELSE <<>>
<1>4. /\ p \in Seq(Items) /\ \A y \in ItemsOf(p) : 1 \in is /\ y = P(1)
      /\ q \in Seq(Items) /\ \A y \in ItemsOf(q) : 2 \in is /\ y = P(2)
  BY <1>1, <1>2, <1>3
<1>5. Visit(x, v, is) = p \o q
  BY DEF Visit
<1> HIDE DEF p, q, P
<1>6. \A y \in ItemsOf(Visit(x, v, is)) : (1 \in is /\ y = P(1)) \/ (2 \in is /\ y = P(2))
  BY <1>4, <1>5, ItemsOfConcat
<1> QED BY <1>1, <1>6 DEF P

\* What a visit leaves on the grey queue.
LEMMA ItemsAfterVisit ==
  ASSUME TypeOK, NEW u, Take(u), NEW x \in Cells, NEW v \in Cells, VisitValue(x, v)
  PROVE  \A y \in ItemsOf(grey') :
           \/ y \in ItemsOf(grey)
           \/ \E i \in Fields : y = Item(mem[Field(v, i)], Field(x, i))
<1>1. mem \in [Slots -> Address] /\ grey \in Seq(Items) /\ grey # <<>>
  BY DEF TypeOK, Take
<1>2. Tail(grey) \in Seq(Items) /\ \A y \in ItemsOf(Tail(grey)) : y \in ItemsOf(grey)
  BY <1>1, ItemsOfTail
<1>3. Visit(x, v, Strong(tag[v])) \in Seq(Items)
  BY <1>1, VisitItems
<1>4. grey' = Tail(grey) \o Visit(x, v, Strong(tag[v]))
  BY DEF VisitValue
<1>5. \A y \in ItemsOf(Visit(x, v, Strong(tag[v]))) :
        \E i \in Fields : y = Item(mem[Field(v, i)], Field(x, i))
  BY <1>1, ItemsOfVisit
<1>6. \A y \in ItemsOf(grey') :
        y \in ItemsOf(Tail(grey)) \/ y \in ItemsOf(Visit(x, v, Strong(tag[v])))
  BY <1>2, <1>3, <1>4, ItemsOfConcat
<1> QED BY <1>2, <1>5, <1>6

----------------------------------------------------------------------------
(***************************************************************************)
(* Steps outside process_grey.                                             *)
(***************************************************************************)

\* Writing a slot, with nothing or with an object that is there.
LEMMA PointWrite ==
  ASSUME TypeOK, PointInv, NEW s \in Slots, NEW x,
         x \in Cells => loc[x] # "free",
         mem' = [mem EXCEPT ![s] = x], UNCHANGED <<loc, grey>>
  PROVE  PointInv'
<1>1. ASSUME NEW r \in Slots PROVE mem'[r] = mem[r] \/ mem'[r] = x
  BY DEF TypeOK
<1> QED BY <1>1 DEF PointInv

\* A step that only moves on, after the marking.
LEMMA StillUnmarked ==
  ASSUME CopyInv, UNCHANGED <<gen, forward, loc, fresh, gcType, grey>>, PointInv',
         ~Marking', Active' = Active, phase = "grey" => phase' = "wild",
         phase' \in {"idle", "begin"} => phase \in {"idle", "begin"},
         phase = "wild" => phase' = "wild"
  PROVE  CopyInv'
<1> USE DEF CopyInv
<1>1. NotForwarded' /\ GenInv'
  BY DEF NotForwarded, GenInv
<1>2. FreshInv'
  BY DEF FreshInv, Marking
<1>3. QueueInv'
  BY DEF QueueInv, Marking
<1>4. ReachInv'
  BY DEF ReachInv
<1> QED BY <1>1, <1>2, <1>3, <1>4

LEMMA EntryCopies ==
  ASSUME Inv, CopyInv, CollectGarbage
  PROVE  CopyInv'
<1> USE DEF CopyInv
<1>1. /\ UNCHANGED <<gen, soft, forward, loc, mem, grey, fresh>>
      /\ phase \in {"idle", "begin"} /\ phase' = "handles" /\ fresh = {}
      /\ gcType' \in {"NewSpace", "OldSpace"}
  BY DEF CollectGarbage, headers, queues, copies, FreshInv, Inv, TypeOK, GCType
<1>2. NotForwarded' /\ FreshInv' /\ PointInv'
  BY <1>1 DEF NotForwarded, FreshInv, PointInv
<1>3. QueueInv' /\ ReachInv'
  BY <1>1 DEF QueueInv, ReachInv
<1>4. GenInv'
  BY <1>1 DEF GenInv, Active
<1> QED BY <1>2, <1>3, <1>4

LEMMA RootsCopies ==
  ASSUME Inv, CopyInv,
         (\E h \in Handles : ColourHandle(h)) \/ HandlesColoured \/ ScanWord \/ ScanStray
  PROVE  CopyInv'
<1> USE DEF CopyInv
<1>1. ASSUME NEW h \in Handles, ColourHandle(h) PROVE CopyInv'
  <2> DEFINE v == mem[ValuePtr(h)]
             x == Item(v, Reference(h))
             y == Item(v, ValuePtr(h))
  <2>1. /\ UNCHANGED <<gen, soft, forward, loc, mem, fresh, gcType, phase>>
        /\ phase = "handles" /\ fresh = {} /\ grey' = grey \o <<x, y>>
    BY <1>1 DEF ColourHandle, headers, history, copies, FreshInv
  <2>2. /\ ValuePtr(h) \in Slots /\ Reference(h) \in Slots /\ v \in Address
        /\ v \in Cells => loc[v] # "free"
    BY SlotMembers DEF PointInv, Inv, TypeOK
  <2>3. /\ x \in Items /\ x.value = v /\ x.slot[1] = "reference"
        /\ y \in Items /\ y.value = v /\ y.slot[1] = "value"
    BY <2>2 DEF Items, Item, Reference, ValuePtr
  <2> HIDE DEF x, y, v
  <2>4. \A z \in ItemsOf(grey') : z \in ItemsOf(grey) \/ z = x \/ z = y
    <3>1. grey \in Seq(Items) /\ <<x, y>> \in Seq(Items)
      BY <2>3 DEF Inv, TypeOK
    <3>2. \A z \in ItemsOf(<<x, y>>) : z = x \/ z = y
      BY DEF ItemsOf
    <3> QED BY <2>1, <3>1, <3>2, ItemsOfConcat
  <2>5. NotForwarded' /\ FreshInv' /\ GenInv'
    BY <2>1 DEF NotForwarded, FreshInv, GenInv, Active
  <2>6. PointInv'
    BY <2>1, <2>2, <2>3, <2>4 DEF PointInv
  <2>7. QueueInv'
    BY <2>1, <2>3, <2>4 DEF QueueInv
  <2>8. ReachInv'
    BY <2>1, <2>3, <2>4 DEF ReachInv, Marking
  <2> QED BY <2>5, <2>6, <2>7, <2>8
<1>2. CASE HandlesColoured
  <2>1. /\ UNCHANGED <<gen, soft, forward, loc, mem, fresh, gcType, grey>>
        /\ phase = "handles" /\ phase' = "scan" /\ fresh = {}
    BY <1>2 DEF HandlesColoured, headers, queues, history, copies, FreshInv
  <2>2. NotForwarded' /\ FreshInv' /\ GenInv' /\ PointInv'
    BY <2>1 DEF NotForwarded, FreshInv, GenInv, Active, PointInv
  <2>3. QueueInv' /\ ReachInv'
    BY <2>1 DEF QueueInv, ReachInv, Marking
  <2> QED BY <2>2, <2>3
<1>3. CASE ScanWord
  <2>1. /\ UNCHANGED <<gen, soft, forward, loc, mem, fresh, gcType>>
        /\ phase = "scan" /\ frame \in 1..StackSize
    BY <1>3, RootsAssumption DEF ScanWord, EndOfStack, headers, history, copies, Inv, TypeOK
  <2>2. NotForwarded' /\ FreshInv' /\ GenInv'
    <3>1. phase' \in {"scan", "grey"}
      BY <1>3 DEF ScanWord
    <3> QED BY <2>1, <3>1 DEF NotForwarded, FreshInv, GenInv, Active
  <2>3. CASE InHeap(mem[StackSlot(frame)])
    <3> DEFINE v == mem[StackSlot(frame)]
               x == Item(v, StackSlot(frame))
    <3>1. phase' = "grey" /\ frame' = frame /\ grey' = Append(grey, x)
      BY <1>3, <2>3 DEF ScanWord
    <3>2. StackSlot(frame) \in Slots /\ v \in Address /\ v \notin fresh
          /\ (v \in Cells => loc[v] # "free")
      BY <2>1, SlotMembers DEF Inv, TypeOK, PointInv, ReachInv, Marking
    <3>3. x \in Items /\ x.value = v /\ x.slot[1] = "stack" /\ x.slot[2] = frame
      BY <3>2 DEF Items, Item, StackSlot
    <3> HIDE DEF x
    <3>4. \A z \in ItemsOf(grey') : z \in ItemsOf(grey) \/ z = x
      BY <3>1, <3>3, ItemsOfAppend DEF Inv, TypeOK
    <3>5. PointInv'
      BY <2>1, <3>2, <3>3, <3>4 DEF PointInv
    <3>6. QueueInv'
      BY <2>1, <3>1, <3>3, <3>4 DEF QueueInv
    <3>7. ReachInv'
      <4>1. \A z \in ItemsOf(grey') :
              /\ z.value \notin fresh
              /\ z.slot[1] # "field" \/ z.slot[2] \in fresh \/ soft[z.slot[2]]
        BY <2>1, <3>2, <3>3, <3>4 DEF ReachInv, Marking
      <4>2. \A j \in 1..StackSize : j > frame => mem[StackSlot(j)] \notin fresh
        BY <2>1 DEF ReachInv, Marking
      <4>3. \A c \in Cells \ fresh, i \in Fields : ~soft[c] => mem[Field(c, i)] \notin fresh
        BY <2>1 DEF ReachInv, Marking
      <4> QED BY <2>1, <3>1, <4>1, <4>2, <4>3 DEF ReachInv
    <3> QED BY <2>2, <3>5, <3>6, <3>7
  <2>4. CASE ~InHeap(mem[StackSlot(frame)])
    <3>1. phase' = phase /\ frame' = frame + 1 /\ grey' = grey
      BY <1>3, <2>4 DEF ScanWord
    <3>2. PointInv' /\ QueueInv'
      BY <2>1, <3>1 DEF PointInv, QueueInv
    <3>3. ReachInv'
      BY <2>1, <3>1 DEF ReachInv, Marking
    <3> QED BY <2>2, <3>2, <3>3
  <2> QED BY <2>3, <2>4
<1>4. CASE ScanStray
  <2>1. /\ UNCHANGED <<gen, forward, loc, mem, fresh, gcType, grey>>
        /\ phase = "scan" /\ phase' = "wild"
    BY <1>4 DEF ScanStray, headers, queues, history, copies
  <2> QED BY <2>1, StillUnmarked DEF PointInv, Marking, Active
<1> QED BY <1>1, <1>2, <1>3, <1>4

LEMMA EndCopies ==
  ASSUME Inv, CopyInv,
         GreyEmpty \/ StackScanned \/ DrainBlack \/ RelocateWeakHandles
           \/ (\E w \in WeakRefs : HandleWeakRef(w)) \/ WeakRefsHandled \/ Swap
  PROVE  CopyInv'
<1> USE DEF CopyInv
<1>1. CASE GreyEmpty
  <2>1. /\ UNCHANGED <<gen, soft, forward, loc, mem, fresh, gcType, grey>>
        /\ phase = "grey" /\ phase' = "scan" /\ frame' = frame + 1 /\ grey = <<>>
    BY <1>1 DEF GreyEmpty, headers, queues, history, copies
  <2>2. NotForwarded' /\ FreshInv' /\ GenInv' /\ PointInv'
    BY <2>1 DEF NotForwarded, FreshInv, GenInv, Active, PointInv
  <2>3. \A x \in ItemsOf(grey) : FALSE
    BY <2>1 DEF ItemsOf
  <2>4. QueueInv'
    BY <2>1, <2>3 DEF QueueInv
  <2>5. frame \in Nat
    BY DEF Inv, TypeOK
  <2>6. ReachInv'
    BY <2>1, <2>3, <2>5 DEF ReachInv, Marking
  <2> QED BY <2>2, <2>4, <2>6
<1>2. CASE StackScanned
  <2>1. UNCHANGED <<gen, forward, loc, mem, fresh, gcType, grey>> /\ phase = "scan" /\ phase' = "black"
    BY <1>2 DEF StackScanned, headers, queues, history, copies
  <2> QED BY <2>1, StillUnmarked DEF PointInv, Marking, Active
<1>3. CASE DrainBlack
  <2>1. /\ UNCHANGED <<gen, forward, loc, mem, fresh, gcType, grey>>
        /\ phase = "black" /\ phase' \in {"black", "weak", "panic", "wild"}
    BY <1>3 DEF DrainBlack, history, copies
  <2> QED BY <2>1, StillUnmarked DEF PointInv, Marking, Active
<1>4. CASE RelocateWeakHandles
  <2>1. /\ UNCHANGED <<gen, forward, loc, fresh, gcType, grey>>
        /\ phase = "weak" /\ phase' \in {"refs", "wild"}
    BY <1>4 DEF RelocateWeakHandles, headers, queues, history, copies
  <2>2. mem' = mem
    <3>1. CASE \A h \in WeakBoxed : Readable(mem[ValuePtr(h)])
      <4>1. Kept = {}
        BY <3>1 DEF Kept, Readable, NotForwarded
      <4>2. mem' = [s \in Slots |-> mem[s]]
        BY <1>4, <3>1, <4>1 DEF RelocateWeakHandles
      <4> QED BY <4>2 DEF Inv, TypeOK
    <3>2. CASE ~\A h \in WeakBoxed : Readable(mem[ValuePtr(h)])
      BY <1>4, <3>2 DEF RelocateWeakHandles
    <3> QED BY <3>1, <3>2
  <2> QED BY <2>1, <2>2, StillUnmarked DEF PointInv, Marking, Active
<1>5. ASSUME NEW w \in WeakRefs, HandleWeakRef(w) PROVE CopyInv'
  <2> DEFINE v == mem[WeakValue(w)]
  <2>1. /\ UNCHANGED <<gen, forward, loc, fresh, gcType, grey>>
        /\ phase = "refs" /\ phase' \in {"refs", "wild"}
    BY <1>5 DEF HandleWeakRef, queues, history, copies
  <2>2. \/ mem' = mem
        \/ Readable(v) /\ mem' = [mem EXCEPT ![WeakValue(w)] = FirstWord(v)]
        \/ \E i \in 1..StackSize, x \in {Nil, Null} : mem' = [mem EXCEPT ![StackSlot(i)] = x]
    BY <1>5 DEF HandleWeakRef, Callback
  <2>3. PointInv'
    <3>1. CASE mem' = mem
      BY <2>1, <3>1 DEF PointInv
    <3>2. CASE Readable(v) /\ mem' = [mem EXCEPT ![WeakValue(w)] = FirstWord(v)]
      <4>1. WeakValue(w) \in Slots /\ Field(v, 1) \in Slots
        BY <3>2, SlotMembers DEF Readable, Fields
      <4>2. FirstWord(v) \in Cells => loc[FirstWord(v)] # "free"
        BY <4>1 DEF FirstWord, PointInv, Junk, Cells
      <4>3. UNCHANGED <<loc, grey>> /\ TypeOK
        BY <2>1 DEF Inv
      <4> QED BY <3>2, <4>1, <4>2, <4>3, PointWrite
    <3>3. ASSUME NEW i \in 1..StackSize, NEW x \in {Nil, Null},
                 mem' = [mem EXCEPT ![StackSlot(i)] = x]
          PROVE  PointInv'
      <4>1. x \notin Cells /\ StackSlot(i) \in Slots
        BY SlotMembers DEF Nil, Null, Cells
      <4>2. UNCHANGED <<loc, grey>> /\ TypeOK
        BY <2>1 DEF Inv
      <4> QED BY <3>3, <4>1, <4>2, PointWrite
    <3> QED BY <2>2, <3>1, <3>2, <3>3
  <2> QED BY <2>1, <2>3, StillUnmarked DEF Marking, Active
<1>6. CASE WeakRefsHandled
  <2>1. UNCHANGED <<gen, forward, loc, mem, fresh, gcType, grey>> /\ phase = "refs" /\ phase' = "swap"
    BY <1>6 DEF WeakRefsHandled, headers, queues, history, copies
  <2> QED BY <2>1, StillUnmarked DEF PointInv, Marking, Active
<1>7. CASE Swap
  <2>1. /\ UNCHANGED <<gen, forward, mem, gcType, grey>>
        /\ phase = "swap" /\ phase' \in {"idle", "begin"} /\ fresh' = {}
        /\ loc' = [c \in Cells |-> AfterSwap(loc[c])]
    BY <1>7 DEF Swap, queues
  <2>8. loc \in [Cells -> {"free", "new", "old", "tmp", "gone"}] /\ mem \in [Slots -> Address]
    BY DEF Inv, TypeOK
  <2>2. gcType \in {"NewSpace", "OldSpace"}
    BY <2>1 DEF GenInv, Active
  <2>3. ASSUME NEW c \in Cells
        PROVE  /\ loc'[c] # "tmp"
               /\ loc'[c] = "free" => loc[c] = "free"
               /\ loc'[c] = "old" => loc[c] = "old" \/ (loc[c] = "tmp" /\ gcType = "OldSpace")
               /\ loc'[c] = "new" => \/ loc[c] = "new" /\ gcType = "OldSpace"
                                     \/ loc[c] = "tmp" /\ gcType = "NewSpace"
    <3>1. loc'[c] = AfterSwap(loc[c])
      BY <2>1
    <3>2. CASE gcType = "NewSpace"
      BY <3>1, <3>2 DEF AfterSwap
    <3>3. CASE gcType = "OldSpace"
      BY <3>1, <3>3 DEF AfterSwap
    <3> QED BY <2>2, <3>2, <3>3
  <2>4. NotForwarded' /\ FreshInv'
    BY <2>1, <2>3 DEF NotForwarded, FreshInv
  <2>5. PointInv'
    BY <2>1, <2>3 DEF PointInv
  <2>6. QueueInv' /\ ReachInv'
    BY <2>1 DEF QueueInv, ReachInv, Marking
  <2>7. GenInv'
    BY <2>1, <2>2, <2>3 DEF GenInv, Active
  <2> QED BY <2>4, <2>5, <2>6, <2>7
<1> QED BY <1>1, <1>2, <1>3, <1>4, <1>5, <1>6, <1>7

----------------------------------------------------------------------------
(***************************************************************************)
(* process_grey.                                                           *)
(***************************************************************************)

\* An item taken off the queue is no copy of this collection, and is allocated.
LEMMA TakenCopies ==
  ASSUME Inv, CopyInv, NEW v, Take(v)
  PROVE  /\ phase = "grey" /\ Head(grey) \in ItemsOf(grey) /\ v = Head(grey).value
         /\ v \notin fresh
         /\ UNCHANGED <<gcType, frame>>
         /\ \A y \in ItemsOf(Tail(grey)) : y \in ItemsOf(grey)
<1>1. grey \in Seq(Items) /\ grey # <<>> /\ phase = "grey" /\ v = Head(grey).value
  BY DEF Inv, TypeOK, Take
<1>2. Head(grey) \in ItemsOf(grey) /\ \A y \in ItemsOf(Tail(grey)) : y \in ItemsOf(grey)
  BY <1>1, ItemsOfTail
<1> QED BY <1>1, <1>2 DEF Take, CopyInv, ReachInv, Marking

\* Taking an item without looking further.
LEMMA SkipCopies ==
  ASSUME Inv, CopyInv, NEW v, Take(v), grey' = Tail(grey),
         UNCHANGED <<gen, soft, forward, loc, mem, fresh, phase>>
  PROVE  CopyInv'
<1> USE TakenCopies DEF CopyInv
<1>1. NotForwarded' /\ FreshInv' /\ GenInv' /\ PointInv'
  BY DEF NotForwarded, FreshInv, GenInv, Active, PointInv
<1>2. QueueInv'
  BY DEF QueueInv
<1>3. ReachInv'
  BY DEF ReachInv, Marking
<1> QED BY <1>1, <1>2, <1>3

LEMMA MarkSoftCopies ==
  ASSUME Inv, CopyInv, NEW v, MarkSoft(v)
  PROVE  CopyInv'
<1> USE DEF CopyInv
<1>1. /\ v \in Cells /\ ~soft[v] /\ Take(v) /\ VisitValue(v, v)
      /\ soft' = [soft EXCEPT ![v] = TRUE]
      /\ UNCHANGED <<gen, forward, loc, mem, phase, fresh>>
  BY DEF MarkSoft, Readable, copies
<1>2. phase = "grey" /\ v \notin fresh /\ UNCHANGED <<gcType, frame>>
  BY <1>1, TakenCopies
<1>3. \A y \in ItemsOf(grey') :
        y \in ItemsOf(grey) \/ \E i \in Fields : y = Item(mem[Field(v, i)], Field(v, i))
  BY <1>1, ItemsAfterVisit DEF Inv
<1>4. soft \in [Cells -> BOOLEAN] /\ mem \in [Slots -> Address]
  BY DEF Inv, TypeOK
<1>5. \A c \in Cells : soft[c] => soft'[c]
  BY <1>1, <1>4
<1>6. ASSUME NEW i \in Fields
      PROVE  /\ Field(v, i) \in Slots
             /\ mem[Field(v, i)] \notin fresh
             /\ mem[Field(v, i)] \in Cells => loc[mem[Field(v, i)]] # "free"
  BY <1>1, <1>2, SlotMembers DEF ReachInv, Marking, PointInv
<1>7. NotForwarded' /\ FreshInv' /\ GenInv'
  BY <1>1, <1>2 DEF NotForwarded, FreshInv, GenInv, Active
<1>8. PointInv'
  BY <1>1, <1>3, <1>6 DEF PointInv, Item
<1>9. QueueInv'
  <2>1. ASSUME NEW y \in ItemsOf(grey'), y \notin ItemsOf(grey) PROVE y.slot[1] = "field"
    <3>1. PICK i \in Fields : y = Item(mem[Field(v, i)], Field(v, i))
      BY <1>3, <2>1
    <3>2. y.slot = Field(v, i)
      BY <3>1 DEF Item
    <3> QED BY <3>2 DEF Field
  <2> QED BY <1>1, <1>2, <2>1 DEF QueueInv
<1>10. ReachInv'
  <2>1. ASSUME NEW y \in ItemsOf(grey')
        PROVE  y.value \notin fresh /\ (y.slot[1] = "field" => y.slot[2] \in fresh \/ soft'[y.slot[2]])
    <3>1. CASE y \in ItemsOf(grey)
      <4>1. y.value \notin fresh /\ (y.slot[1] = "field" => y.slot[2] \in fresh \/ soft[y.slot[2]])
        BY <1>2, <3>1 DEF ReachInv, Marking
      <4> QED BY <1>1, <1>4, <4>1
    <3>2. CASE \E i \in Fields : y = Item(mem[Field(v, i)], Field(v, i))
      <4>1. soft'[v]
        BY <1>1, <1>4
      <4> QED BY <1>6, <3>2, <4>1 DEF Item, Field
    <3> QED BY <1>3, <3>1, <3>2
  <2>2. \A c \in Cells \ fresh, i \in Fields : ~soft'[c] => mem[Field(c, i)] \notin fresh
    BY <1>2, <1>5 DEF ReachInv, Marking
  <2>3. \A j \in 1..StackSize : j > frame => mem[StackSlot(j)] \notin fresh
    BY <1>2 DEF ReachInv, Marking
  <2> QED BY <1>1, <1>2, <2>1, <2>2, <2>3 DEF ReachInv
<1> QED BY <1>7, <1>8, <1>9, <1>10

\* A copy: the only step that makes a cell, ages an object or redirects a slot.
LEMMA CopyToCopies ==
  ASSUME Inv, CopyInv, NEW v, Take(v), v \in Cells, Readable(v), Current(v), ~soft[v], CopyTo(v)
  PROVE  CopyInv'
<1> USE DEF CopyInv
<1> DEFINE g == Older(gen[v])
           h == Head(grey).slot
<1>1. /\ phase = "grey" /\ Head(grey) \in ItemsOf(grey) /\ v \notin fresh
      /\ phase' \in {"grey", "wild"} /\ UNCHANGED <<gcType, frame, soft>>
  BY TakenCopies DEF CopyTo
<1>2. PICK c \in Cells :
        /\ loc[c] = "free"
        /\ gen' = [gen EXCEPT ![v] = g, ![c] = g]
        /\ loc' = [loc EXCEPT ![c] = CopySpace(g)]
        /\ mem' = [mem EXCEPT ![Field(c, 1)] = mem[Field(v, 1)],
                              ![Field(c, 2)] = mem[Field(v, 2)], ![h] = c]
        /\ forward' = Forwarding(v, c)
        /\ fresh' = fresh \cup {c}
        /\ VisitValue(c, v)
  BY DEF CopyTo, NextFree
<1>3. /\ gen \in [Cells -> 0..MinOldGen] /\ mem \in [Slots -> Address]
      /\ loc \in [Cells -> {"free", "new", "old", "tmp", "gone"}]
      /\ gcType \in {"NewSpace", "OldSpace"}
  BY <1>1 DEF Inv, TypeOK, GenInv, Active
<1>4. /\ h \in Slots
      /\ h[1] = "field" => h[2] \in fresh \/ soft[h[2]]
      /\ h[1] = "stack" => h[2] = frame
  BY <1>1, TakeItem DEF Inv, ReachInv, Marking, QueueInv
<1>5. g \in 0..MinOldGen /\ c # v /\ CopySpace(g) # "free"
  BY <1>2, <1>3, GenAssumption DEF Older, Readable, CopySpace
<1>6. \A d \in Cells : d # c => loc'[d] = loc[d]
  BY <1>2, <1>3
<1>7. loc'[c] = CopySpace(g)
  BY <1>2, <1>3
<1>8. ASSUME NEW i \in Fields
      PROVE  /\ Field(v, i) \in Slots
             /\ mem[Field(v, i)] \notin fresh
             /\ mem[Field(v, i)] # c
             /\ mem[Field(v, i)] \in Cells => loc[mem[Field(v, i)]] # "free"
  BY <1>1, <1>2, SlotMembers DEF ReachInv, Marking, PointInv
<1>9. \A y \in ItemsOf(grey') :
        y \in ItemsOf(grey) \/ \E i \in Fields : y = Item(mem[Field(v, i)], Field(c, i))
  BY <1>2, ItemsAfterVisit DEF Inv
<1>10. NotForwarded'
  BY <1>2 DEF NotForwarded, Forwarding
<1>11. FreshInv'
  BY <1>1, <1>2, <1>6 DEF FreshInv
<1>12. PointInv'
  <2>1. ASSUME NEW s \in Slots, mem'[s] \in Cells PROVE loc'[mem'[s]] # "free"
    <3>1. mem'[s] \in {mem[s], mem[Field(v, 1)], mem[Field(v, 2)], c}
      BY <1>2, <1>3
    <3>2. ASSUME NEW d \in Cells, loc[d] # "free" PROVE loc'[d] # "free"
      BY <1>2, <1>6, <3>2
    <3>3. loc'[c] # "free"
      BY <1>5, <1>7
    <3> QED BY <1>8, <2>1, <3>1, <3>2, <3>3 DEF PointInv, Fields
  <2>2. ASSUME NEW y \in ItemsOf(grey'), y.value \in Cells PROVE loc'[y.value] # "free"
    <3>1. loc[y.value] # "free"
      BY <1>8, <1>9, <2>2 DEF PointInv, Item
    <3> QED BY <1>2, <1>6, <2>2, <3>1
  <2> QED BY <2>1, <2>2 DEF PointInv
<1>13. QueueInv'
  <2>1. ASSUME NEW y \in ItemsOf(grey'), y \notin ItemsOf(grey) PROVE y.slot[1] = "field"
    <3>1. PICK i \in Fields : y = Item(mem[Field(v, i)], Field(c, i))
      BY <1>9, <2>1
    <3>2. y.slot = Field(c, i)
      BY <3>1 DEF Item
    <3> QED BY <3>2 DEF Field
  <2> QED BY <1>1, <2>1 DEF QueueInv
<1>14. ReachInv'
  <2>1. ASSUME NEW y \in ItemsOf(grey')
        PROVE  y.value \notin fresh' /\ (y.slot[1] = "field" => y.slot[2] \in fresh' \/ soft[y.slot[2]])
    <3>1. CASE y \in ItemsOf(grey)
      <4>1. y.value \notin fresh /\ (y.slot[1] = "field" => y.slot[2] \in fresh \/ soft[y.slot[2]])
        BY <1>1, <3>1 DEF ReachInv, Marking
      <4>2. y.value # c
        BY <1>2, <3>1 DEF PointInv
      <4> QED BY <1>2, <4>1, <4>2
    <3>2. CASE \E i \in Fields : y = Item(mem[Field(v, i)], Field(c, i))
      BY <1>2, <1>8, <3>2 DEF Item, Field
    <3> QED BY <1>9, <3>1, <3>2
  <2>2. ASSUME NEW d \in Cells \ fresh', NEW i \in Fields, ~soft[d]
        PROVE  mem'[Field(d, i)] \notin fresh'
    <3>1. Field(d, i) \in Slots /\ d # c /\ d \notin fresh
      BY <1>2, SlotMembers
    <3>2. Field(d, i) # h
      BY <1>4, <2>2, <3>1 DEF Field
    <3>3. Field(d, i) # Field(c, 1) /\ Field(d, i) # Field(c, 2)
      BY <3>1 DEF Field
    <3>4. mem'[Field(d, i)] = mem[Field(d, i)]
      BY <1>2, <1>3, <3>1, <3>2, <3>3
    <3>5. mem[Field(d, i)] \notin fresh /\ mem[Field(d, i)] # c
      BY <1>1, <1>2, <2>2, <3>1 DEF ReachInv, Marking, PointInv
    <3> QED BY <1>2, <3>4, <3>5
  <2>3. ASSUME NEW j \in 1..StackSize, j > frame PROVE mem'[StackSlot(j)] \notin fresh'
    <3>1. StackSlot(j) \in Slots
      BY SlotMembers
    <3>2. StackSlot(j) # h
      BY <1>4, <2>3 DEF StackSlot
    <3>3. StackSlot(j) # Field(c, 1) /\ StackSlot(j) # Field(c, 2)
      BY DEF Field, StackSlot
    <3>4. mem'[StackSlot(j)] = mem[StackSlot(j)]
      BY <1>2, <1>3, <3>1, <3>2, <3>3
    <3>5. mem[StackSlot(j)] \notin fresh /\ mem[StackSlot(j)] # c
      BY <1>1, <1>2, <2>3, <3>1 DEF ReachInv, Marking, PointInv
    <3> QED BY <1>2, <3>4, <3>5
  <2> QED BY <1>1, <2>1, <2>2, <2>3 DEF ReachInv
<1>15. GenInv'
  <2>1. gen[v] \in 0..MinOldGen /\ gen'[v] = g /\ gen'[c] = g
        /\ \A d \in Cells : d \notin {v, c} => gen'[d] = gen[d]
    BY <1>2, <1>3, <1>5
  <2>2. MinOldGen \in Nat
    BY GenAssumption
  <2>3. loc[v] # "tmp"
    BY <1>1 DEF FreshInv
  <2>4. Active /\ Active'
    BY <1>1 DEF Active
  <2>5. g >= gen[v] /\ (gcType = "OldSpace" => gen[v] >= MinOldGen /\ g >= MinOldGen)
    BY <2>1, <2>2 DEF Older, Current
  <2>6. /\ loc'[c] = "old" => g >= MinOldGen
        /\ loc'[c] = "tmp" => /\ gcType = "NewSpace" => g < MinOldGen
                              /\ gcType = "OldSpace" => g >= MinOldGen
        /\ loc'[c] = "new" => gcType = "NewSpace"
    BY <1>3, <1>5, <1>7, <2>2, <2>5 DEF CopySpace
  <2>7. ASSUME NEW d \in Cells
        PROVE  /\ loc'[d] = "old" => gen'[d] >= MinOldGen
               /\ loc'[d] = "new" => gen'[d] < MinOldGen \/ gcType = "NewSpace"
               /\ loc'[d] = "tmp" => /\ gcType = "NewSpace" => gen'[d] < MinOldGen
                                     /\ gcType = "OldSpace" => gen'[d] >= MinOldGen
    <3>1. CASE d = c
      BY <2>1, <2>6, <3>1
    <3>2. CASE d = v
      <4>1. loc'[v] = loc[v] /\ gen'[v] = g
        BY <1>5, <1>6, <2>1
      <4>2. loc[v] = "old" => gen[v] >= MinOldGen
        BY DEF GenInv
      <4>3. loc[v] = "new" => gcType = "NewSpace"
        BY <2>1, <2>2, <2>5, <1>3 DEF GenInv
      <4> QED BY <2>1, <2>2, <2>3, <2>5, <3>2, <4>1, <4>2, <4>3, <1>5
    <3>3. CASE d \notin {v, c}
      BY <1>6, <2>1, <2>4, <3>3 DEF GenInv
    <3> QED BY <3>1, <3>2, <3>3
  <2> QED BY <1>1, <1>3, <2>4, <2>7 DEF GenInv
<1> QED BY <1>10, <1>11, <1>12, <1>13, <1>14, <1>15

LEMMA ProcessGreyCopies ==
  ASSUME Inv, CopyInv, ProcessGrey
  PROVE  CopyInv'
<1>1. ASSUME NEW v, SkipUnboxed(v) PROVE CopyInv'
  BY <1>1, SkipCopies DEF SkipUnboxed, headers, copies
<1>2. ASSUME NEW v, ReadUnmapped(v) PROVE CopyInv'
  <2>1. /\ UNCHANGED <<gen, forward, loc, mem, fresh, gcType, grey>>
        /\ phase = "grey" /\ phase' = "wild"
    BY <1>2 DEF ReadUnmapped, Take, headers, queues, copies
  <2> QED BY <2>1, StillUnmarked DEF CopyInv, PointInv, Marking, Active
<1>3. ASSUME NEW v, MarkSoft(v) PROVE CopyInv'
  BY <1>3, MarkSoftCopies
<1>4. ASSUME NEW v, SkipMarked(v) PROVE CopyInv'
  BY <1>4, SkipCopies DEF SkipMarked, headers, copies
<1>5. ASSUME NEW v, Evacuate(v) PROVE CopyInv'
  <2>1. v \in Cells /\ Take(v) /\ Readable(v) /\ forward[v] = Nil
    BY <1>5 DEF Evacuate, Readable, CopyInv, NotForwarded
  <2>2. ~(Current(v) /\ soft[v])
    BY <2>1 DEF Inv, MarkInv, Marking, Take
  <2> QED BY <1>5, <2>1, <2>2, CopyToCopies DEF Evacuate
<1> QED BY <1>1, <1>2, <1>3, <1>4, <1>5 DEF ProcessGrey

----------------------------------------------------------------------------
(***************************************************************************)
(* The invariant, and the theorems.                                        *)
(***************************************************************************)

LEMMA InitCopies == Init => CopyInv
<1> SUFFICES ASSUME Init PROVE CopyInv
  OBVIOUS
<1>1. phase = "idle" /\ fresh = {} /\ grey = <<>> /\ forward = [c \in Cells |-> Nil]
  BY DEF Init
<1>2. PICK g \in [1..Objects -> 0..MinOldGen] :
        /\ gen = [c \in Cells |-> IF c \in 1..Objects THEN g[c] ELSE 0]
        /\ loc = [c \in Cells |-> IF c \notin 1..Objects THEN "free"
                                  ELSE IF g[c] = MinOldGen THEN "old" ELSE "new"]
  BY Zenon DEF Init
<1>3. NotForwarded /\ FreshInv /\ QueueInv /\ ReachInv
  BY <1>1, <1>2 DEF NotForwarded, FreshInv, QueueInv, ReachInv, Marking, ItemsOf
<1>4. GenInv
  BY <1>1, <1>2, GenAssumption DEF GenInv, Active
<1>5. PointInv
  <2>1. PICK f \in [1..Objects -> [Fields -> 0..Objects]],
             k \in [1..StackSize -> Junk..Objects],
             r \in [Handles -> 0..Objects], v \in [Handles -> (0..Objects) \cup {HNil}],
             w \in [WeakRefs -> 1..Objects] :
          mem = Contents(f, k, r, v, w)
    BY DEF Init
  <2>2. ASSUME NEW c \in Cells, NEW i \in Fields PROVE mem[Field(c, i)] \in 0..Objects
    <3>1. mem[Field(c, i)] = IF c \in 1..Objects THEN f[c][i] ELSE Nil
      BY <2>1, SlotMembers DEF Contents, Field
    <3>2. c \in 1..Objects => f[c][i] \in 0..Objects
      OBVIOUS
    <3> QED BY <3>1, <3>2, ObjectsAssumption DEF Nil
  <2>3. ASSUME NEW i \in 1..StackSize PROVE mem[StackSlot(i)] \in Junk..Objects
    BY <2>1, SlotMembers DEF Contents, StackSlot
  <2>4. ASSUME NEW h \in Handles
        PROVE  mem[Reference(h)] \in 0..Objects /\ mem[ValuePtr(h)] \in (0..Objects) \cup {HNil}
    BY <2>1, SlotMembers DEF Contents, Reference, ValuePtr
  <2>5. ASSUME NEW x \in WeakRefs PROVE mem[WeakValue(x)] \in 0..Objects
    BY <2>1, SlotMembers, ObjectsAssumption DEF Contents, WeakValue
  <2>6. \A s \in Slots : mem[s] \in HNil..Objects
    <3>1. (0..Objects) \cup {HNil} \subseteq HNil..Objects /\ Junk..Objects \subseteq HNil..Objects
      BY ObjectsAssumption DEF Junk, HNil
    <3> QED BY <2>2, <2>3, <2>4, <2>5, <3>1 DEF Slots
  <2>7. \A s \in Slots : mem[s] \in Cells => mem[s] \in 1..Objects
    BY <2>6, ObjectsAssumption DEF Cells, HNil
  <2>8. \A c \in 1..Objects : c \in Cells => loc[c] # "free"
    BY <1>2
  <2>9. ItemsOf(grey) = {}
    BY <1>1 DEF ItemsOf
  <2> QED BY <2>7, <2>8, <2>9 DEF PointInv
<1> QED BY <1>3, <1>4, <1>5 DEF CopyInv

LEMMA StepCopies == Inv /\ CopyInv /\ [Next]_vars => CopyInv'
<1> SUFFICES ASSUME Inv, CopyInv, [Next]_vars PROVE CopyInv'
  OBVIOUS
<1>1. ASSUME NEW i \in 1..StackSize, NEW x \in {Nil, Null}, DropRoot(i, x) PROVE CopyInv'
  <2>1. /\ UNCHANGED <<gen, forward, loc, fresh, gcType, grey>>
        /\ phase = "idle" /\ phase' = "idle"
        /\ mem' = [mem EXCEPT ![StackSlot(i)] = x]
    BY <1>1 DEF DropRoot, Program, headers, queues, history, copies
  <2>2. PointInv'
    <3>1. x \notin Cells /\ StackSlot(i) \in Slots
      BY SlotMembers DEF Nil, Null, Cells
    <3> QED BY <2>1, <3>1, PointWrite DEF Inv, CopyInv
  <2> QED BY <2>1, <2>2, StillUnmarked DEF Marking, Active
<1>2. ASSUME NEW t \in {"NewSpace", "OldSpace"}, SetNeedsGC(t) PROVE CopyInv'
  <2>1. /\ UNCHANGED <<gen, forward, loc, mem, fresh, gcType, grey>>
        /\ phase = "idle" /\ phase' = "idle"
    BY <1>2 DEF SetNeedsGC, Program, headers, queues, history, copies
  <2> QED BY <2>1, StillUnmarked DEF CopyInv, PointInv, Marking, Active
<1>6. ASSUME NEW sp \in {"new", "old"}, Allocate(sp) PROVE CopyInv'
  <2>1. /\ UNCHANGED <<gen, forward, loc, mem, fresh, gcType, grey>>
        /\ phase = "idle" /\ phase' = "idle"
    BY <1>6 DEF Allocate, Program, queues, history, copies
  <2> QED BY <2>1, StillUnmarked DEF CopyInv, PointInv, Marking, Active
<1>3. CASE CollectGarbage
  BY <1>3, EntryCopies
<1>4. CASE Collection
  BY <1>4, RootsCopies, EndCopies, ProcessGreyCopies DEF Collection
<1>5. CASE UNCHANGED vars
  BY <1>5 DEF vars, headers, queues, history, copies, CopyInv, NotForwarded, FreshInv,
              PointInv, QueueInv, ReachInv, GenInv, Marking, Active
<1> QED BY <1>1, <1>2, <1>3, <1>4, <1>5, <1>6 DEF Next

LEMMA CopiesHold == Spec => [](Inv /\ CopyInv)
BY InitInv, StepInv, InitCopies, StepCopies, PTL DEF Spec

\* Between collections an object's generation says which space it lies in (gc.rs 243-248),
\* for any number of generations, objects and collections.
THEOREM GenerationsMatch == Spec => []GenerationMatchesSpace
<1>1. Inv /\ CopyInv => GenerationMatchesSpace
  <2>1. MinOldGen \in Nat
    BY GenAssumption
  <2> QED BY <2>1 DEF GenerationMatchesSpace, CopyInv, GenInv, Active
<1> QED BY <1>1, CopiesHold, PTL

\* No reference is ever redirected to a copy that exists already: relocate never leaves
\* a forwarding address, and so nothing follows one (gc.rs 4-22, 236-238).
THEOREM RedirectsToFreshCopies == Spec => RedirectedToFreshCopy
<1>1. ASSUME Inv, CopyInv, Next, phase = "grey",
             NEW s \in Slots, mem'[s] # mem[s], ~(s[1] = "field" /\ loc[s[2]] = "free")
      PROVE  loc[mem'[s]] = "free"
  <2>1. PICK v \in Address \ {Nil, HNil} : Evacuate(v)
    <3>1. CASE ProcessGrey
      BY <1>1, <3>1 DEF ProcessGrey, SkipUnboxed, ReadUnmapped, MarkSoft, SkipMarked
    <3>2. CASE GreyEmpty
      BY <1>1, <3>2 DEF GreyEmpty
    <3>3. CASE ~ProcessGrey /\ ~GreyEmpty
      BY <1>1, <3>3 DEF Next, Collection, DropRoot, Program, SetNeedsGC, CollectGarbage, ColourHandle,
         HandlesColoured, ScanWord, ScanStray, Allocate, StackScanned, DrainBlack, RelocateWeakHandles,
         HandleWeakRef, WeakRefsHandled, Swap
    <3> QED BY <3>1, <3>2, <3>3
  <2>2. v \in Cells /\ forward[v] = Nil
    BY <1>1, <2>1 DEF Evacuate, Readable, CopyInv, NotForwarded
  <2>3. CopyTo(v)
    BY <1>1, <2>1, <2>2 DEF Evacuate, AssertFails
  <2>4. PICK c \in Cells :
          /\ loc[c] = "free"
          /\ mem' = [mem EXCEPT ![Field(c, 1)] = mem[Field(v, 1)],
                                ![Field(c, 2)] = mem[Field(v, 2)], ![Head(grey).slot] = c]
    BY <2>3 DEF CopyTo, NextFree
  <2>5. s # Field(c, 1) /\ s # Field(c, 2)
    BY <1>1, <2>4 DEF Field
  <2>6. mem \in [Slots -> Address]
    BY <1>1 DEF Inv, TypeOK
  <2>7. mem'[s] = c
    BY <1>1, <2>4, <2>5, <2>6
  <2> QED BY <2>4, <2>7
<1>2. Inv /\ CopyInv /\ [Next]_vars =>
        [phase = "grey" =>
           \A s \in Slots :
             mem'[s] # mem[s] /\ ~(s[1] = "field" /\ loc[s[2]] = "free") =>
               loc[mem'[s]] = "free"]_vars
  BY <1>1
<1> QED BY <1>2, CopiesHold, PTL DEF Spec, RedirectedToFreshCopy
----------------------------------------------------------------------------
(***************************************************************************)
(* The graph.                                                              *)
(***************************************************************************)

\* A copy is a copy of one of the objects there were before any collection.
OriginInv ==
  /\ \A c \in Cells : loc[c] # "free" => origin[c] \in 1..Objects
  /\ \A c \in 1..Objects : loc[c] # "free" /\ origin[c] = c

\* What is to be looked at through a slot is what the slot designates; a local of a
\* handle is looked at through the handle's own value.
ItemAgrees(x) ==
  /\ x.slot[1] # "weak"
  /\ x.slot[1] = "field" =>
       /\ loc[x.slot[2]] # "free"
       /\ Original(x.value) = start[Field(origin[x.slot[2]], x.slot[3])]
  /\ x.slot[1] = "stack" =>
       mem[x.slot] \in Cells /\ Original(x.value) = Original(mem[x.slot])
  /\ x.slot[1] \in {"reference", "value"} =>
       Original(x.value) = start[ValuePtr(x.slot[2])]

ItemInv == \A x \in ItemsOf(grey) : ItemAgrees(x)

\* The fields of every cell, overwritten or not, designate what they did, and so do
\* the roots.
GraphHeld ==
  /\ \A c \in Cells, i \in Fields :
       loc[c] # "free" => Original(mem[Field(c, i)]) = start[Field(origin[c], i)]
  /\ \A i \in 1..StackSize :
       mem[StackSlot(i)] \in Cells =>
         Original(mem[StackSlot(i)]) = start[StackSlot(i)]
  /\ \A h \in Handles :
       /\ Original(mem[ValuePtr(h)]) = start[ValuePtr(h)]
       /\ Original(mem[Reference(h)]) \in {start[Reference(h)], start[ValuePtr(h)]}

GraphInv == OriginInv /\ GraphHeld /\ ItemInv

----------------------------------------------------------------------------

LEMMA ItemsTyped == TypeOK => \A x \in ItemsOf(grey) : x \in Items
BY DEF TypeOK, ItemsOf

\* Steps that neither allocate nor write: items may only leave the queue.
LEMMA QuietGraph ==
  ASSUME Inv, GraphInv, UNCHANGED <<mem, origin, start>>,
         \A c \in Cells : loc'[c] = "free" <=> loc[c] = "free",
         \A x \in ItemsOf(grey') : x \in ItemsOf(grey)
  PROVE  GraphInv'
<1> USE DEF GraphInv
<1>1. OriginInv'
  BY ObjectsAssumption DEF OriginInv, Cells
<1>2. GraphHeld'
  BY DEF GraphHeld, Original
<1>3. ItemInv'
  <2>1. ASSUME NEW x \in ItemsOf(grey') PROVE ItemAgrees(x)'
    <3>1. ItemAgrees(x)
      BY <2>1 DEF ItemInv
    <3>2. x.slot \in Slots
      <4>1. x \in Items
        BY <2>1, ItemsTyped DEF Inv
      <4> QED BY <4>1 DEF Items
    <3>3. x.slot[1] = "field" => x.slot[2] \in Cells
      BY <3>2 DEF Slots, Field, StackSlot, Reference, ValuePtr, WeakValue
    <3> QED BY <3>1, <3>3 DEF ItemAgrees, Original
  <2> QED BY <2>1 DEF ItemInv
<1> QED BY <1>1, <1>2, <1>3

\* Steps that push items which agree with their slots.
LEMMA PushGraph ==
  ASSUME Inv, GraphInv, UNCHANGED <<mem, origin, start, loc>>,
         \A x \in ItemsOf(grey') : x \in ItemsOf(grey) \/ ItemAgrees(x)
  PROVE  GraphInv'
<1> USE DEF GraphInv
<1>1. OriginInv' /\ GraphHeld'
  BY DEF OriginInv, GraphHeld, Original
<1>2. ASSUME NEW x \in ItemsOf(grey') PROVE ItemAgrees(x)'
  <2>1. ItemAgrees(x)
    BY <1>2 DEF ItemInv
  <2> QED BY <2>1 DEF ItemAgrees, Original
<1> QED BY <1>1, <1>2 DEF ItemInv

\* The items a visit of v pushes agree with the slots of x, a copy of v or v itself.
LEMMA VisitAgrees ==
  ASSUME Inv, GraphInv, NEW v \in Cells, loc[v] # "free", NEW i \in Fields
  PROVE  Original(mem[Field(v, i)]) = start[Field(origin[v], i)]
BY DEF GraphInv, GraphHeld

LEMMA MarkSoftGraph ==
  ASSUME Inv, GraphInv, NEW v, MarkSoft(v)
  PROVE  GraphInv'
<1>1. /\ v \in Cells /\ loc[v] # "free" /\ Take(v) /\ VisitValue(v, v)
      /\ UNCHANGED <<mem, origin, start, loc>>
  BY DEF MarkSoft, Readable, Take, copies
<1>2. \A x \in ItemsOf(grey') :
        x \in ItemsOf(grey) \/ \E i \in Fields : x = Item(mem[Field(v, i)], Field(v, i))
  BY <1>1, ItemsAfterVisit DEF Inv
<1>3. ASSUME NEW i \in Fields PROVE ItemAgrees(Item(mem[Field(v, i)], Field(v, i)))
  BY <1>1, VisitAgrees DEF ItemAgrees, Item, Field
<1> QED BY <1>1, <1>2, <1>3, PushGraph

\* Copying v for the item at the head of the queue: every root designates what it did,
\* or what the handle it belongs to designates.
LEMMA CopyToSeen ==
  ASSUME Inv, CopyInv, GraphInv, NEW v, Take(v), v \in Cells, Readable(v), CopyTo(v),
         NEW r \in Slots, r[1] # "field"
  PROVE  /\ r[1] # "reference" => Original(mem[r])' = Original(mem[r])
         /\ r[1] = "reference" =>
              \/ Original(mem[r])' = Original(mem[r])
              \/ Head(grey).slot = r /\ Original(mem[r])' = start[ValuePtr(r[2])]
<1> USE DEF GraphInv
<1> DEFINE s == Head(grey).slot
<1>1. /\ Head(grey) \in ItemsOf(grey) /\ Head(grey).value = v /\ s \in Slots
  BY TakenCopies, TakeItem DEF Take, Inv
<1>2. PICK c \in Cells :
        /\ loc[c] = "free"
        /\ mem' = [mem EXCEPT ![Field(c, 1)] = mem[Field(v, 1)],
                              ![Field(c, 2)] = mem[Field(v, 2)], ![s] = c]
        /\ origin' = [origin EXCEPT ![c] = origin[v]]
  BY DEF CopyTo, NextFree
<1>3. mem \in [Slots -> Address] /\ origin \in [Cells -> Cells]
  BY DEF Inv, TypeOK
<1>4. ItemAgrees(Head(grey))
  BY <1>1 DEF ItemInv
<1>5. r # Field(c, 1) /\ r # Field(c, 2)
  BY DEF Field
<1>6. CASE r # s
  <2>1. mem'[r] = mem[r] /\ mem[r] # c
    BY <1>2, <1>3, <1>5, <1>6 DEF CopyInv, PointInv
  <2>2. Original(mem[r])' = Original(mem[r])
    BY <1>2, <1>3, <2>1 DEF Original
  <2> QED BY <2>2
<1>7. CASE r = s
  <2>1. mem'[r] = c /\ origin'[c] = origin[v]
    BY <1>1, <1>2, <1>3, <1>7
  <2>2. Original(mem[r])' = Original(v)
    BY <2>1 DEF Original
  <2>3. r[1] = "stack" => Original(v) = Original(mem[r])
    BY <1>1, <1>4, <1>7 DEF ItemAgrees
  <2>4. r[1] \in {"reference", "value"} => Original(v) = start[ValuePtr(r[2])]
    BY <1>1, <1>4, <1>7 DEF ItemAgrees
  <2>5. r[1] = "value" => r[2] \in Handles /\ r = ValuePtr(r[2])
    BY DEF Slots, Field, StackSlot, Reference, ValuePtr, WeakValue
  <2>6. r[1] = "value" => Original(mem[r]) = start[ValuePtr(r[2])]
    BY <2>5 DEF GraphHeld
  <2>7. r[1] \in {"stack", "reference", "value"}
    BY <1>4, <1>7 DEF ItemAgrees, Slots, Field, StackSlot, Reference, ValuePtr, WeakValue
  <2> QED BY <1>7, <2>2, <2>3, <2>4, <2>6, <2>7
<1> QED BY <1>6, <1>7

\* The copy has the fields of its object, and the item's slot still designates it.
LEMMA CopyToGraph ==
  ASSUME Inv, CopyInv, GraphInv, NEW v, Take(v), v \in Cells, Readable(v), CopyTo(v)
  PROVE  GraphInv'
<1> USE DEF GraphInv
<1> DEFINE s == Head(grey).slot
           After(u) == IF u \in Cells THEN origin'[u] ELSE u
<1>1. /\ Head(grey) \in ItemsOf(grey) /\ Head(grey).value = v /\ start' = start
      /\ loc[v] # "free" /\ s \in Slots
  BY TakenCopies, TakeItem DEF Take, Readable, Inv
<1>2. PICK c \in Cells :
        /\ loc[c] = "free"
        /\ loc' = [loc EXCEPT ![c] = CopySpace(Older(gen[v]))]
        /\ mem' = [mem EXCEPT ![Field(c, 1)] = mem[Field(v, 1)],
                              ![Field(c, 2)] = mem[Field(v, 2)], ![s] = c]
        /\ origin' = [origin EXCEPT ![c] = origin[v]]
        /\ VisitValue(c, v)
  BY DEF CopyTo, NextFree
<1>3. /\ mem \in [Slots -> Address] /\ origin \in [Cells -> Cells]
      /\ loc \in [Cells -> {"free", "new", "old", "tmp", "gone"}]
  BY DEF Inv, TypeOK
<1>4. /\ origin'[c] = origin[v] /\ loc'[c] # "free"
      /\ \A d \in Cells : d # c => origin'[d] = origin[d] /\ loc'[d] = loc[d]
  BY <1>2, <1>3 DEF CopySpace
<1>5. ItemAgrees(Head(grey))
  BY <1>1 DEF ItemInv
<1>6. ASSUME NEW u, u # c PROVE After(u) = Original(u)
  BY <1>4, <1>6 DEF Original
<1>7. After(c) = origin[v] /\ Original(v) = origin[v]
  BY <1>1, <1>4 DEF Original
<1>8. \A r \in Slots : mem[r] # c
  BY <1>2 DEF CopyInv, PointInv
<1>9. \A d \in Cells, i \in Fields : s = Field(d, i) => d # c
  BY <1>2, <1>5 DEF ItemAgrees, Field
<1>10. mem'[s] = c
  BY <1>1, <1>2, <1>3
<1>11. ASSUME NEW i \in Fields PROVE mem'[Field(c, i)] = mem[Field(v, i)]
  <2>1. Field(c, i) # s /\ Field(c, i) \in Slots /\ Field(c, 1) # Field(c, 2)
    BY <1>9, SlotMembers DEF Field
  <2>2. CASE i = 1
    BY <1>2, <1>3, <2>1, <2>2
  <2>3. CASE i = 2
    BY <1>2, <1>3, <2>1, <2>3
  <2> QED BY <2>2, <2>3 DEF Fields
<1>12. ASSUME NEW r \in Slots, r # s, r # Field(c, 1), r # Field(c, 2)
       PROVE  mem'[r] = mem[r] /\ After(mem'[r]) = Original(mem[r])
  <2>1. mem'[r] = mem[r]
    BY <1>2, <1>3, <1>12
  <2> QED BY <1>6, <1>8, <2>1
<1>13. OriginInv'
  <2>1. ASSUME NEW d \in Cells, loc'[d] # "free" PROVE origin'[d] \in 1..Objects
    BY <1>1, <1>4, <2>1 DEF OriginInv
  <2>2. ASSUME NEW d \in 1..Objects PROVE loc'[d] # "free" /\ origin'[d] = d
    <3>1. d \in Cells /\ d # c
      BY <1>2, ObjectsAssumption DEF OriginInv, Cells
    <3> QED BY <1>4, <3>1 DEF OriginInv
  <2> QED BY <2>1, <2>2 DEF OriginInv
<1>14. GraphHeld'
  <2>1. ASSUME NEW d \in Cells, NEW i \in Fields, loc'[d] # "free"
        PROVE  After(mem'[Field(d, i)]) = start[Field(origin'[d], i)]
    <3>1. Field(d, i) \in Slots
      BY SlotMembers
    <3>2. CASE d = c
      <4>1. mem'[Field(c, i)] = mem[Field(v, i)] /\ mem[Field(v, i)] # c
        BY <1>8, <1>11, SlotMembers
      <4>2. After(mem[Field(v, i)]) = Original(mem[Field(v, i)])
        BY <1>6, <4>1
      <4> QED BY <1>1, <1>4, <3>2, <4>1, <4>2, VisitAgrees
    <3>3. CASE d # c /\ Field(d, i) = s
      <4>1. loc[d] # "free" /\ Original(v) = start[Field(origin[d], i)]
        BY <1>1, <1>5, <3>3 DEF ItemAgrees, Field
      <4> QED BY <1>4, <1>7, <1>10, <3>3, <4>1
    <3>4. CASE d # c /\ Field(d, i) # s
      <4>1. Field(d, i) # Field(c, 1) /\ Field(d, i) # Field(c, 2)
        BY <3>4 DEF Field
      <4>2. loc[d] # "free" /\ origin'[d] = origin[d]
        BY <1>4, <2>1, <3>4
      <4> QED BY <1>12, <3>1, <3>4, <4>1, <4>2 DEF GraphHeld
    <3> QED BY <3>2, <3>3, <3>4
  <2>2. ASSUME NEW i \in 1..StackSize, mem'[StackSlot(i)] \in Cells
        PROVE  After(mem'[StackSlot(i)]) = start[StackSlot(i)]
    <3>1. StackSlot(i) \in Slots /\ StackSlot(i)[1] = "stack"
      BY SlotMembers DEF StackSlot
    <3>2. After(mem'[StackSlot(i)]) = Original(mem[StackSlot(i)])
      BY <3>1, CopyToSeen DEF Original
    <3>3. mem[StackSlot(i)] \in Cells
      <4>1. CASE StackSlot(i) = s
        BY <1>5, <3>1, <4>1 DEF ItemAgrees
      <4>2. CASE StackSlot(i) # s
        BY <1>12, <2>2, <3>1, <4>2 DEF StackSlot, Field
      <4> QED BY <4>1, <4>2
    <3> QED BY <3>2, <3>3 DEF GraphHeld
  <2>3. ASSUME NEW h \in Handles
        PROVE  /\ After(mem'[ValuePtr(h)]) = start[ValuePtr(h)]
               /\ After(mem'[Reference(h)]) \in {start[Reference(h)], start[ValuePtr(h)]}
    <3>1. /\ ValuePtr(h) \in Slots /\ ValuePtr(h)[1] = "value"
          /\ Reference(h) \in Slots /\ Reference(h)[1] = "reference" /\ Reference(h)[2] = h
      BY SlotMembers DEF ValuePtr, Reference
    <3>2. After(mem'[ValuePtr(h)]) = Original(mem[ValuePtr(h)])
      BY <3>1, CopyToSeen DEF Original
    <3>3. \/ After(mem'[Reference(h)]) = Original(mem[Reference(h)])
          \/ After(mem'[Reference(h)]) = start[ValuePtr(h)]
      BY <3>1, CopyToSeen DEF Original
    <3> QED BY <3>2, <3>3 DEF GraphHeld
  <2> QED BY <1>1, <2>1, <2>2, <2>3 DEF GraphHeld, Original
<1>15. ItemInv'
  <2>1. \A x \in ItemsOf(grey') :
          x \in ItemsOf(grey) \/ \E i \in Fields : x = Item(mem[Field(v, i)], Field(c, i))
    BY <1>2, ItemsAfterVisit DEF Inv
  <2>2. ASSUME NEW i \in Fields, NEW x, x = Item(mem[Field(v, i)], Field(c, i))
        PROVE  ItemAgrees(x)'
    <3>1. After(mem[Field(v, i)]) = start[Field(origin[v], i)]
      BY <1>1, <1>6, <1>8, SlotMembers, VisitAgrees
    <3>2. x.slot = Field(c, i) /\ x.value = mem[Field(v, i)]
      BY <2>2 DEF Item
    <3> QED BY <1>1, <1>4, <3>1, <3>2 DEF ItemAgrees, Field, Original
  <2>3. ASSUME NEW x \in ItemsOf(grey) PROVE ItemAgrees(x)'
    <3>1. ItemAgrees(x) /\ x.value # c
      BY <1>2, <2>3 DEF ItemInv, CopyInv, PointInv
    <3>2. After(x.value) = Original(x.value)
      BY <1>6, <3>1
    <3>3. x.slot \in Slots
      <4>1. x \in Items
        BY <2>3, ItemsTyped DEF Inv
      <4> QED BY <4>1 DEF Items
    <3>4. x.slot[1] = "field" => x.slot[2] \in Cells
      BY <3>3 DEF Slots, Field, StackSlot, Reference, ValuePtr, WeakValue
    <3>5. x.slot[1] = "field" =>
            /\ loc'[x.slot[2]] # "free"
            /\ After(x.value) = start[Field(origin'[x.slot[2]], x.slot[3])]
      BY <1>2, <1>4, <3>1, <3>2, <3>4 DEF ItemAgrees
    <3>6. ASSUME x.slot[1] = "stack"
          PROVE  mem'[x.slot] \in Cells /\ After(x.value) = After(mem'[x.slot])
      <4>1. x.slot # Field(c, 1) /\ x.slot # Field(c, 2)
        BY <3>6 DEF Field
      <4>2. CASE x.slot = s
        BY <1>1, <1>5, <1>7, <1>10, <3>1, <3>2, <3>6, <4>2 DEF ItemAgrees
      <4>3. CASE x.slot # s
        BY <1>12, <3>1, <3>2, <3>3, <3>6, <4>1, <4>3 DEF ItemAgrees
      <4> QED BY <4>2, <4>3
    <3> QED BY <1>1, <3>1, <3>2, <3>5, <3>6 DEF ItemAgrees, Original
  <2> QED BY <2>1, <2>2, <2>3 DEF ItemInv
<1> QED BY <1>13, <1>14, <1>15

----------------------------------------------------------------------------

LEMMA ProcessGreyGraph ==
  ASSUME Inv, CopyInv, GraphInv, ProcessGrey
  PROVE  GraphInv'
<1>1. ASSUME NEW v, Take(v), grey' = Tail(grey), UNCHANGED <<mem, origin, loc>>
      PROVE  GraphInv'
  BY <1>1, TakenCopies, QuietGraph DEF Take
<1>2. ASSUME NEW v, SkipUnboxed(v) PROVE GraphInv'
  BY <1>1, <1>2 DEF SkipUnboxed, headers, copies
<1>3. ASSUME NEW v, ReadUnmapped(v) PROVE GraphInv'
  <2>1. UNCHANGED <<mem, origin, start, loc, grey>>
    BY <1>3 DEF ReadUnmapped, Take, headers, queues, copies
  <2> QED BY <2>1, QuietGraph
<1>4. ASSUME NEW v, MarkSoft(v) PROVE GraphInv'
  BY <1>4, MarkSoftGraph
<1>5. ASSUME NEW v, SkipMarked(v) PROVE GraphInv'
  BY <1>1, <1>5 DEF SkipMarked, headers, copies
<1>6. ASSUME NEW v, Evacuate(v) PROVE GraphInv'
  <2>1. v \in Cells /\ Take(v) /\ Readable(v) /\ forward[v] = Nil
    BY <1>6 DEF Evacuate, Readable, CopyInv, NotForwarded
  <2>2. ~(Current(v) /\ soft[v])
    BY <2>1 DEF Inv, MarkInv, Marking, Take
  <2> QED BY <1>6, <2>1, <2>2, CopyToGraph DEF Evacuate
<1> QED BY <1>2, <1>3, <1>4, <1>5, <1>6 DEF ProcessGrey

LEMMA RootsGraph ==
  ASSUME Inv, CopyInv, GraphInv, (\E h \in Handles : ColourHandle(h)) \/ ScanWord
  PROVE  GraphInv'
<1>1. grey \in Seq(Items) /\ mem \in [Slots -> Address]
  BY DEF Inv, TypeOK
<1>2. ASSUME NEW h \in Handles, ColourHandle(h) PROVE GraphInv'
  <2> DEFINE x == Item(mem[ValuePtr(h)], Reference(h))
             y == Item(mem[ValuePtr(h)], ValuePtr(h))
  <2>1. UNCHANGED <<mem, origin, start, loc>> /\ grey' = grey \o <<x, y>>
    BY <1>2 DEF ColourHandle, headers, history, copies
  <2>2. Reference(h) \in Slots /\ ValuePtr(h) \in Slots
    BY SlotMembers
  <2>3. x \in Items /\ y \in Items
    BY <1>1, <2>2 DEF Items, Item
  <2>4. ItemAgrees(x) /\ ItemAgrees(y)
    BY DEF ItemAgrees, Item, Reference, ValuePtr, GraphInv, GraphHeld
  <2> HIDE DEF x, y
  <2>5. \A z \in ItemsOf(grey') : z \in ItemsOf(grey) \/ z = x \/ z = y
    <3>1. <<x, y>> \in Seq(Items) /\ \A z \in ItemsOf(<<x, y>>) : z = x \/ z = y
      BY <2>3 DEF ItemsOf
    <3> QED BY <1>1, <2>1, <3>1, ItemsOfConcat
  <2> QED BY <2>1, <2>4, <2>5, PushGraph
<1>3. CASE ScanWord
  <2>1. UNCHANGED <<mem, origin, start, loc>> /\ frame \in 1..StackSize
    BY <1>3, RootsAssumption DEF ScanWord, EndOfStack, headers, history, copies, Inv, TypeOK
  <2>2. CASE InHeap(mem[StackSlot(frame)])
    <3> DEFINE x == Item(mem[StackSlot(frame)], StackSlot(frame))
    <3>1. grey' = Append(grey, x)
      BY <1>3, <2>2 DEF ScanWord
    <3>2. StackSlot(frame) \in Slots
      BY <2>1, SlotMembers
    <3>3. x \in Items
      BY <1>1, <3>2 DEF Items, Item
    <3>4. ItemAgrees(x)
      BY <2>2 DEF ItemAgrees, Item, StackSlot, InHeap
    <3> HIDE DEF x
    <3>5. \A z \in ItemsOf(grey') : z \in ItemsOf(grey) \/ z = x
      BY <1>1, <3>1, <3>3, ItemsOfAppend
    <3> QED BY <2>1, <3>4, <3>5, PushGraph
  <2>3. CASE ~InHeap(mem[StackSlot(frame)])
    <3>1. grey' = grey
      BY <1>3, <2>3 DEF ScanWord
    <3> QED BY <2>1, <3>1, QuietGraph
  <2> QED BY <2>2, <2>3
<1> QED BY <1>2, <1>3

\* Weak handles are dropped, never relocated: no object carries a forwarding address.
LEMMA WeakHandlesGo ==
  ASSUME Inv, CopyInv, RelocateWeakHandles
  PROVE  /\ mem' = mem
         /\ \/ handles' = handles \ WeakBoxed /\ phase' = "refs"
            \/ handles' = handles /\ phase' = "wild"
<1>1. CASE \A h \in WeakBoxed : Readable(mem[ValuePtr(h)])
  <2>1. Kept = {}
    BY <1>1 DEF Kept, Readable, CopyInv, NotForwarded
  <2>2. mem' = [s \in Slots |-> mem[s]] /\ handles' = handles \ WeakBoxed /\ phase' = "refs"
    BY <1>1, <2>1 DEF RelocateWeakHandles
  <2> QED BY <2>2 DEF Inv, TypeOK
<1>2. CASE ~\A h \in WeakBoxed : Readable(mem[ValuePtr(h)])
  BY <1>2 DEF RelocateWeakHandles
<1> QED BY <1>1, <1>2

\* Writing a slot that nothing on the queue and nothing in the graph depends on.
LEMMA WriteGraph ==
  ASSUME Inv, GraphInv, NEW s \in Slots, NEW x, mem' = [mem EXCEPT ![s] = x],
         UNCHANGED <<loc, origin, start, grey>>,
         s[1] = "weak" \/ (s[1] = "stack" /\ x \notin Cells
                            /\ \A y \in ItemsOf(grey) : y.slot[1] # "stack")
  PROVE  GraphInv'
<1> USE DEF GraphInv
<1>1. \A r \in Slots : r # s => mem'[r] = mem[r]
  BY DEF Inv, TypeOK
<1>2. OriginInv'
  BY DEF OriginInv
<1>3. GraphHeld'
  <2>4. \A r \in Slots : r[1] \in {"field", "value", "reference"} => mem'[r] = mem[r]
    BY <1>1
  <2>1. \A c \in Cells, i \in Fields : mem'[Field(c, i)] = mem[Field(c, i)]
    BY <2>4, SlotMembers DEF Field
  <2>2. \A h \in Handles : /\ mem'[ValuePtr(h)] = mem[ValuePtr(h)]
                           /\ mem'[Reference(h)] = mem[Reference(h)]
    BY <2>4, SlotMembers DEF ValuePtr, Reference
  <2>3. \A i \in 1..StackSize :
          mem'[StackSlot(i)] \in Cells => mem'[StackSlot(i)] = mem[StackSlot(i)]
    BY <1>1, SlotMembers DEF StackSlot, Inv, TypeOK
  <2> QED BY <2>1, <2>2, <2>3 DEF GraphHeld, Original
<1>4. ASSUME NEW y \in ItemsOf(grey) PROVE ItemAgrees(y)'
  <2>1. ItemAgrees(y) /\ y.slot \in Slots
    BY <1>4, ItemsTyped DEF ItemInv, Inv, Items
  <2>2. y.slot[1] = "stack" => y.slot # s
    BY <1>4
  <2> QED BY <1>1, <2>1, <2>2 DEF ItemAgrees, Original
<1> QED BY <1>2, <1>3, <1>4 DEF ItemInv

LEMMA InitGraph == Init => GraphInv
<1> SUFFICES ASSUME Init PROVE GraphInv
  OBVIOUS
<1>1. /\ grey = <<>> /\ origin = [c \in Cells |-> c] /\ start = mem
      /\ mem \in [Slots -> Address]
  BY InitTypeOK DEF Init, TypeOK
<1>2. \A c \in Cells : loc[c] # "free" <=> c \in 1..Objects
  <2>1. PICK g \in [1..Objects -> 0..MinOldGen] :
          loc = [c \in Cells |-> IF c \notin 1..Objects THEN "free"
                                 ELSE IF g[c] = MinOldGen THEN "old" ELSE "new"]
    BY Zenon DEF Init
  <2> QED BY <2>1
<1>3. OriginInv
  BY <1>1, <1>2, ObjectsAssumption DEF OriginInv, Cells
<1>4. \A v \in Address : Original(v) = v
  BY <1>1 DEF Original
<1>5. GraphHeld
  <2>1. \A s \in Slots : Original(mem[s]) = start[s]
    BY <1>1, <1>4
  <2>2. \A c \in Cells : origin[c] = c
    BY <1>1
  <2> QED BY <2>1, <2>2, SlotMembers DEF GraphHeld
<1>6. ItemInv
  BY <1>1 DEF ItemInv, ItemsOf
<1> QED BY <1>3, <1>5, <1>6 DEF GraphInv

LEMMA StepGraph == Inv /\ CopyInv /\ GraphInv /\ [Next]_vars => GraphInv'
<1> SUFFICES ASSUME Inv, CopyInv, GraphInv, [Next]_vars PROVE GraphInv'
  OBVIOUS
<1>1. ASSUME NEW i \in 1..StackSize, NEW x \in {Nil, Null}, DropRoot(i, x) PROVE GraphInv'
  <2>1. /\ phase = "idle" /\ mem' = [mem EXCEPT ![StackSlot(i)] = x]
        /\ UNCHANGED <<loc, origin, start, grey>>
    BY <1>1 DEF DropRoot, Program, headers, queues, history, copies
  <2>2. x \notin Cells /\ StackSlot(i) \in Slots /\ StackSlot(i)[1] = "stack"
    BY SlotMembers DEF Nil, Null, Cells, StackSlot
  <2>3. \A y \in ItemsOf(grey) : y.slot[1] # "stack"
    BY <2>1 DEF CopyInv, QueueInv
  <2> QED BY <2>1, <2>2, <2>3, WriteGraph
<1>2. ASSUME \/ \E t \in {"NewSpace", "OldSpace"} : SetNeedsGC(t)
             \/ (\E sp \in {"new", "old"} : Allocate(sp)) \/ ScanStray
             \/ CollectGarbage \/ HandlesColoured \/ StackScanned \/ GreyEmpty
             \/ DrainBlack \/ WeakRefsHandled \/ UNCHANGED vars
      PROVE  GraphInv'
  <2>1. UNCHANGED <<mem, origin, start, loc, grey>>
    BY <1>2 DEF SetNeedsGC, Allocate, ScanStray, CollectGarbage, HandlesColoured, StackScanned, GreyEmpty,
                DrainBlack, WeakRefsHandled, vars, headers, queues, history, copies
  <2> QED BY <2>1, QuietGraph
<1>3. CASE (\E h \in Handles : ColourHandle(h)) \/ ScanWord
  BY <1>3, RootsGraph
<1>4. CASE ProcessGrey
  BY <1>4, ProcessGreyGraph
<1>5. CASE RelocateWeakHandles
  <2>1. UNCHANGED <<mem, origin, start, loc, grey>>
    BY <1>5, WeakHandlesGo DEF RelocateWeakHandles, headers, queues, history, copies
  <2> QED BY <2>1, QuietGraph
<1>6. ASSUME NEW w \in WeakRefs, HandleWeakRef(w) PROVE GraphInv'
  <2>1. /\ phase = "refs" /\ UNCHANGED <<origin, start, loc, grey>>
        /\ \/ mem' = mem
           \/ mem' = [mem EXCEPT ![WeakValue(w)] = FirstWord(mem[WeakValue(w)])]
           \/ \E i \in 1..StackSize, x \in {Nil, Null} : mem' = [mem EXCEPT ![StackSlot(i)] = x]
    BY <1>6 DEF HandleWeakRef, Callback, queues, history, copies
  <2>2. WeakValue(w) \in Slots /\ WeakValue(w)[1] = "weak"
    BY SlotMembers DEF WeakValue
  <2>3. ASSUME NEW i \in 1..StackSize, NEW x \in {Nil, Null},
               mem' = [mem EXCEPT ![StackSlot(i)] = x]
        PROVE  GraphInv'
    <3>1. x \notin Cells /\ StackSlot(i) \in Slots /\ StackSlot(i)[1] = "stack"
      BY SlotMembers DEF Nil, Null, Cells, StackSlot
    <3>2. \A y \in ItemsOf(grey) : y.slot[1] # "stack"
      BY <2>1 DEF CopyInv, QueueInv
    <3> QED BY <2>1, <2>3, <3>1, <3>2, WriteGraph
  <2> QED BY <2>1, <2>2, <2>3, QuietGraph, WriteGraph
<1>7. CASE Swap
  <2>1. UNCHANGED <<mem, origin, start, grey>>
    BY <1>7 DEF Swap, queues
  <2>2. \A c \in Cells : loc'[c] = "free" <=> loc[c] = "free"
    BY <1>7 DEF Swap, AfterSwap, Inv, TypeOK
  <2> QED BY <2>1, <2>2, QuietGraph
<1> QED BY <1>1, <1>2, <1>3, <1>4, <1>5, <1>6, <1>7 DEF Next, Collection

LEMMA GraphHolds == Spec => [](Inv /\ CopyInv /\ GraphInv)
BY InitInv, StepInv, InitCopies, StepCopies, InitGraph, StepGraph, PTL DEF Spec

----------------------------------------------------------------------------
(***************************************************************************)
(* Steps that later arguments treat alike.                                 *)
(***************************************************************************)

\* Steps of a collection before the weak handles are dealt with.
MarkingStep ==
  \/ \E h \in Handles : ColourHandle(h)
  \/ HandlesColoured \/ ScanWord \/ ScanStray \/ StackScanned \/ ProcessGrey \/ GreyEmpty
  \/ DrainBlack

LEMMA MarkingStays ==
  ASSUME MarkingStep
  PROVE  /\ phase \notin {"idle", "begin", "refs", "swap"}
         /\ phase' \notin {"idle", "begin", "refs", "swap"}
         /\ UNCHANGED <<gcType, needsGC, roots, start, rounds>>
<1>1. CASE ProcessGrey
  BY <1>1 DEF ProcessGrey, SkipUnboxed, ReadUnmapped, MarkSoft, SkipMarked, Evacuate, Follow,
              AssertFails, CopyTo, Take
<1>2. CASE ~ProcessGrey
  BY <1>2 DEF MarkingStep, ColourHandle, HandlesColoured, ScanWord, ScanStray, StackScanned,
              GreyEmpty, DrainBlack, history
<1> QED BY <1>1, <1>2

\* What the slots held before any collection is history.
LEMMA StartStays == [Next]_vars => start' = start
BY MarkingStays DEF Next, Collection, MarkingStep, DropRoot, SetNeedsGC, Allocate, CollectGarbage,
   RelocateWeakHandles, HandleWeakRef, WeakRefsHandled, Swap, vars, history

----------------------------------------------------------------------------
(***************************************************************************)
(* Weak references.                                                        *)
(***************************************************************************)

\* What a weak reference holds once a collection has looked at it.
Spoiled(w) == mem[WeakValue(w)] = Junk \/ tag[start[WeakValue(w)]] = "Context"

\* A weak reference designates its object until its turn in the loop of the first
\* collection; that turn drops it, spoils it or ends in unmapped memory, and nothing
\* ever repairs it.
WeakInv ==
  /\ \A w \in WeakRefs : start[WeakValue(w)] \in 1..Objects
  /\ \A w \in weakRefs : mem[WeakValue(w)] = start[WeakValue(w)] \/ Spoiled(w)
  /\ phase = "refs" => \A w \in weakRefs \ todo : Spoiled(w)
  /\ phase = "swap" \/ (~Active /\ rounds > 0) \/ rounds > 1 =>
       \A w \in weakRefs : Spoiled(w)

\* Only the copy of a cell writes to a tag, that of a cell which was free.
LEMMA TagsStay ==
  ASSUME Inv, CopyInv, GraphInv, [Next]_vars, NEW o \in 1..Objects
  PROVE  tag'[o] = tag[o]
<1>1. o \in Cells /\ loc[o] # "free"
  BY ObjectsAssumption DEF GraphInv, OriginInv, Cells
<1>2. CASE \E v : Evacuate(v) /\ CopyTo(v)
  <2>1. PICK v : CopyTo(v)
    BY <1>2
  <2>2. PICK c \in Cells : loc[c] = "free" /\ tag' = [tag EXCEPT ![c] = tag[v]]
    BY <2>1 DEF CopyTo, NextFree
  <2> QED BY <1>1, <2>2 DEF Inv, TypeOK
<1>3. CASE ~\E v : Evacuate(v) /\ CopyTo(v)
  <2>1. CASE ProcessGrey
    BY <1>3, <2>1 DEF ProcessGrey, SkipUnboxed, ReadUnmapped, MarkSoft, SkipMarked, Evacuate,
       Follow, AssertFails, headers
  <2>2. CASE ~ProcessGrey
    BY <1>3, <2>2 DEF Next, Collection, DropRoot, SetNeedsGC, Allocate, CollectGarbage,
       ColourHandle, HandlesColoured, ScanWord, ScanStray, StackScanned, GreyEmpty, DrainBlack, RelocateWeakHandles,
       HandleWeakRef, WeakRefsHandled, Swap, headers, vars
  <2> QED BY <2>1, <2>2
<1> QED BY <1>2, <1>3

\* No step but its own turn in the loop writes the word of a weak reference.
LEMMA WeakWordStays ==
  ASSUME Inv, CopyInv, GraphInv, [Next]_vars, NEW w \in WeakRefs, ~HandleWeakRef(w)
  PROVE  mem'[WeakValue(w)] = mem[WeakValue(w)]
<1>1. WeakValue(w) \in Slots /\ mem \in [Slots -> Address]
  BY SlotMembers DEF Inv, TypeOK
<1>2. ASSUME NEW v, Evacuate(v), mem' # mem PROVE mem'[WeakValue(w)] = mem[WeakValue(w)]
  <2>1. Take(v) /\ CopyTo(v)
    BY <1>2 DEF Evacuate, Readable, CopyInv, NotForwarded, AssertFails
  <2>2. PICK c \in Cells :
          mem' = [mem EXCEPT ![Field(c, 1)] = mem[Field(v, 1)],
                             ![Field(c, 2)] = mem[Field(v, 2)], ![Head(grey).slot] = c]
    BY <2>1 DEF CopyTo
  <2>3. ItemAgrees(Head(grey))
    BY <2>1, TakenCopies DEF GraphInv, ItemInv
  <2>4. WeakValue(w) \notin {Field(c, 1), Field(c, 2), Head(grey).slot}
    BY <2>3 DEF ItemAgrees, WeakValue, Field
  <2> QED BY <1>1, <2>2, <2>4
<1>3. ASSUME NEW i \in 1..StackSize, NEW x, DropRoot(i, x)
      PROVE  mem'[WeakValue(w)] = mem[WeakValue(w)]
  BY <1>1, <1>3 DEF DropRoot, Program, WeakValue, StackSlot
<1>4. ASSUME NEW u \in WeakRefs, HandleWeakRef(u)
      PROVE  mem'[WeakValue(w)] = mem[WeakValue(w)]
  <2>1. WeakValue(u) # WeakValue(w) /\ \A i \in 1..StackSize : StackSlot(i) # WeakValue(w)
    BY <1>4 DEF WeakValue, StackSlot
  <2> QED BY <1>1, <1>4, <2>1 DEF HandleWeakRef, Callback
<1>5. CASE ProcessGrey
  BY <1>2, <1>5 DEF ProcessGrey, SkipUnboxed, ReadUnmapped, MarkSoft, SkipMarked
<1>6. CASE RelocateWeakHandles
  BY <1>6, WeakHandlesGo
<1>7. CASE \/ \E t \in {"NewSpace", "OldSpace"} : SetNeedsGC(t)
           \/ \E sp \in {"new", "old"} : Allocate(sp)
           \/ \E h \in Handles : ColourHandle(h)
           \/ CollectGarbage \/ HandlesColoured \/ ScanWord \/ StackScanned \/ GreyEmpty
           \/ ScanStray \/ DrainBlack \/ WeakRefsHandled \/ Swap \/ UNCHANGED vars
  BY <1>7 DEF SetNeedsGC, Allocate, ScanStray, CollectGarbage, ColourHandle, HandlesColoured, ScanWord,
     StackScanned, GreyEmpty, DrainBlack, WeakRefsHandled, Swap, vars
<1> QED BY <1>3, <1>4, <1>5, <1>6, <1>7 DEF Next, Collection

\* The turn of w.
LEMMA TurnSpoils ==
  ASSUME Inv, CopyInv, GraphInv, WeakInv, NEW w \in WeakRefs, HandleWeakRef(w)
  PROVE  \/ phase' = "wild" /\ UNCHANGED <<mem, weakRefs>>
         \/ weakRefs' = weakRefs \ {w}
         \/ /\ weakRefs' = weakRefs
            /\ w \in weakRefs =>
                 mem'[WeakValue(w)] = Junk \/ tag[start[WeakValue(w)]] = "Context"
<1> DEFINE v == mem[WeakValue(w)]
<1>1. WeakValue(w) \in Slots /\ mem \in [Slots -> Address]
  BY SlotMembers DEF Inv, TypeOK
<1>2. Readable(v) => forward[v] = Nil
  BY DEF Readable, CopyInv, NotForwarded
<1>3. CASE Readable(v) /\ mem' = [mem EXCEPT ![WeakValue(w)] = FirstWord(v)] /\ weakRefs' = weakRefs
  <2>1. v # Junk
    BY <1>3 DEF Readable, Junk, Cells
  <2>2. w \in weakRefs => v = start[WeakValue(w)] \/ tag[start[WeakValue(w)]] = "Context"
    BY <2>1 DEF WeakInv, Spoiled
  <2>3. tag[v] # "Context" => FirstWord(v) = Junk
    BY DEF FirstWord
  <2>4. mem'[WeakValue(w)] = FirstWord(v)
    BY <1>1, <1>3
  <2> HIDE DEF v
  <2> QED BY <1>3, <2>2, <2>3, <2>4
<1> QED BY <1>2, <1>3 DEF HandleWeakRef

LEMMA StepWeak == Inv /\ CopyInv /\ GraphInv /\ WeakInv /\ [Next]_vars => WeakInv'
<1> SUFFICES ASSUME Inv, CopyInv, GraphInv, WeakInv, [Next]_vars PROVE WeakInv'
  OBVIOUS
<1>1. /\ start' = start /\ weakRefs \subseteq WeakRefs
      /\ \A w \in WeakRefs : /\ start[WeakValue(w)] \in 1..Objects
                             /\ tag'[start[WeakValue(w)]] = tag[start[WeakValue(w)]]
  BY StartStays, TagsStay DEF WeakInv, Inv, TypeOK
<1>2. ASSUME NEW w \in WeakRefs, ~HandleWeakRef(w)
      PROVE  /\ mem'[WeakValue(w)] = mem[WeakValue(w)]
             /\ Spoiled(w)' <=> Spoiled(w)
  BY <1>1, <1>2, WeakWordStays DEF Spoiled
<1>3. ASSUME NEW w \in WeakRefs, HandleWeakRef(w) PROVE WeakInv'
  <2>1. /\ phase = "refs" /\ phase' \in {"refs", "wild"} /\ todo' = todo \ {w}
        /\ rounds' = rounds
    BY <1>3 DEF HandleWeakRef, history
  <2>2. \A u \in WeakRefs \ {w} : mem'[WeakValue(u)] = mem[WeakValue(u)]
    <3>1. \A u \in WeakRefs \ {w} : /\ WeakValue(u) # WeakValue(w) /\ WeakValue(u) \in Slots
                                     /\ \A i \in 1..StackSize : WeakValue(u) # StackSlot(i)
      BY SlotMembers DEF WeakValue, StackSlot
    <3> QED BY <1>3, <3>1 DEF HandleWeakRef, Callback, Inv, TypeOK
  <2>3. \A u \in WeakRefs \ {w} : Spoiled(u)' <=> Spoiled(u)
    BY <1>1, <2>2 DEF Spoiled
  <2>4. weakRefs' \subseteq weakRefs
    BY <1>3, TurnSpoils
  <2>5. w \in weakRefs' => Spoiled(w)' \/ (phase' = "wild" /\ mem' = mem)
    BY <1>1, <1>3, TurnSpoils DEF Spoiled
  <2>6. \A u \in weakRefs : mem[WeakValue(u)] = start[WeakValue(u)] \/ Spoiled(u)
    BY DEF WeakInv
  <2>7. mem' = mem => (Spoiled(w)' <=> Spoiled(w))
    BY <1>1 DEF Spoiled
  <2>8. \A u \in weakRefs' : mem'[WeakValue(u)] = start'[WeakValue(u)] \/ Spoiled(u)'
    <3>1. ASSUME NEW u \in weakRefs', u # w
          PROVE  mem'[WeakValue(u)] = start'[WeakValue(u)] \/ Spoiled(u)'
      BY <1>1, <2>2, <2>3, <2>4, <2>6, <3>1
    <3>2. w \in weakRefs' => mem'[WeakValue(w)] = start'[WeakValue(w)] \/ Spoiled(w)'
      BY <1>1, <2>4, <2>5, <2>6, <2>7
    <3> QED BY <3>1, <3>2
  <2>9. phase' = "refs" => \A u \in weakRefs' \ todo' : Spoiled(u)'
    BY <1>1, <2>1, <2>3, <2>4, <2>5 DEF WeakInv
  <2>10. rounds' > 1 => \A u \in weakRefs' : Spoiled(u)'
    <3>1. rounds > 1 => \A u \in weakRefs : Spoiled(u)
      BY DEF WeakInv
    <3> QED BY <1>1, <2>1, <2>3, <2>4, <2>5, <2>7, <3>1
  <2> QED BY <1>1, <2>1, <2>8, <2>9, <2>10 DEF WeakInv, Active
<1>4. ASSUME \A w \in WeakRefs : ~HandleWeakRef(w), weakRefs' = weakRefs,
             phase' = "refs" => \A w \in weakRefs \ todo' : Spoiled(w),
             phase' = "swap" \/ (~Active' /\ rounds' > 0) \/ rounds' > 1 =>
               \A w \in weakRefs : Spoiled(w)
      PROVE  WeakInv'
  BY <1>1, <1>2, <1>4 DEF WeakInv
<1>5. CASE \E w \in WeakRefs : HandleWeakRef(w)
  BY <1>3, <1>5
<1>6. CASE ~\E w \in WeakRefs : HandleWeakRef(w)
  <2>1. rounds \in Nat
    BY CollectionsAssumption DEF Inv, TypeOK
  <2>2. CASE \/ \E i \in 1..StackSize, x \in {Nil, Null} : DropRoot(i, x)
             \/ \E t \in {"NewSpace", "OldSpace"} : SetNeedsGC(t)
             \/ \E sp \in {"new", "old"} : Allocate(sp)
    <3>1. phase = "idle" /\ UNCHANGED <<phase, rounds, weakRefs>>
      BY <2>2 DEF DropRoot, Program, SetNeedsGC, Allocate, roots, history
    <3> QED BY <1>4, <1>6, <3>1 DEF WeakInv, Active
  <2>3. CASE CollectGarbage
    <3>1. /\ phase \in {"idle", "begin"} /\ phase' = "handles" /\ rounds' = rounds + 1
          /\ weakRefs' = weakRefs
      BY <2>3 DEF CollectGarbage, roots
    <3>2. rounds' > 1 => rounds > 0
      BY <2>1, <3>1
    <3> QED BY <1>4, <1>6, <3>1, <3>2 DEF WeakInv, Active
  <2>4. CASE MarkingStep
    <3>1. phase' \notin {"idle", "begin", "refs", "swap"} /\ UNCHANGED <<rounds, weakRefs>>
      BY <2>4, MarkingStays DEF roots
    <3> QED BY <1>4, <1>6, <3>1 DEF WeakInv, Active
  <2>5. CASE RelocateWeakHandles
    <3>1. /\ phase' \in {"refs", "wild"} /\ (phase' = "refs" => todo' = weakRefs)
          /\ UNCHANGED <<rounds, weakRefs>>
      BY <2>5 DEF RelocateWeakHandles, history
    <3> QED BY <1>4, <1>6, <3>1 DEF WeakInv, Active
  <2>6. CASE WeakRefsHandled
    <3>1. phase = "refs" /\ todo = {} /\ phase' = "swap" /\ UNCHANGED <<rounds, weakRefs>>
      BY <2>6 DEF WeakRefsHandled, roots, history
    <3> QED BY <1>4, <1>6, <3>1 DEF WeakInv, Active
  <2>7. CASE Swap
    <3>1. phase = "swap" /\ phase' \in {"idle", "begin"} /\ UNCHANGED <<rounds, weakRefs>>
      BY <2>7 DEF Swap, roots
    <3> QED BY <1>4, <1>6, <3>1 DEF WeakInv, Active
  <2>8. CASE UNCHANGED vars
    <3>1. UNCHANGED <<phase, todo, rounds, weakRefs>>
      BY <2>8 DEF vars, roots, history
    <3> QED BY <1>4, <1>6, <3>1 DEF WeakInv, Active
  <2> QED BY <1>6, <2>2, <2>3, <2>4, <2>5, <2>6, <2>7, <2>8 DEF Next, Collection, MarkingStep
<1> QED BY <1>5, <1>6

LEMMA InitWeak == Init => WeakInv
<1> SUFFICES ASSUME Init PROVE WeakInv
  OBVIOUS
<1>1. start = mem /\ phase = "idle" /\ rounds = 0 /\ weakRefs = WeakRefs
  BY DEF Init
<1>2. PICK f \in [1..Objects -> [Fields -> 0..Objects]],
           k \in [1..StackSize -> Junk..Objects],
           r \in [Handles -> 0..Objects], v \in [Handles -> (0..Objects) \cup {HNil}],
           x \in [WeakRefs -> 1..Objects] :
        mem = Contents(f, k, r, v, x)
  BY DEF Init
<1>3. ASSUME NEW w \in WeakRefs PROVE start[WeakValue(w)] \in 1..Objects
  <2>1. mem[WeakValue(w)] = x[w]
    BY <1>2, SlotMembers DEF Contents, WeakValue
  <2> QED BY <1>1, <2>1
<1> QED BY <1>1, <1>3 DEF WeakInv

LEMMA WeakHolds == Spec => [](Inv /\ CopyInv /\ GraphInv /\ WeakInv)
BY InitInv, StepInv, InitCopies, StepCopies, InitGraph, StepGraph, InitWeak, StepWeak, PTL
   DEF Spec

\* A weak reference that is still registered after a collection holds a word that is no
\* address of an object, unless its object is a context (gc.rs 122-142): however many
\* references, objects and collections, whatever their callbacks do, and whatever is
\* overwritten.  What the word of a context holds is not said.
THEOREM WeakReferencesAreSpoiled == Spec => []WeakRefsLoseTheirObject
<1>1. WeakInv => WeakRefsLoseTheirObject
  BY DEF WeakInv, WeakRefsLoseTheirObject, Spoiled, Active
<1> QED BY <1>1, WeakHolds, PTL

----------------------------------------------------------------------------
(***************************************************************************)
(* What a collection leaves dangling.                                      *)
(***************************************************************************)

\* Where the objects lie that swap is going to unmap.
Collected == IF gcType = "NewSpace" THEN "new" ELSE "old"

\* A reference to v is either not left dangling by swap, or v has grown old.
Settled(v) ==
  v \in Cells =>
    /\ loc[v] # "gone"
    /\ loc[v] = Collected => gcType = "NewSpace" /\ gen[v] >= MinOldGen

\* What is to be looked at through a slot is what the slot holds, unless the slot has
\* been given a copy meanwhile; a local of a handle is looked at through the handle.
Awaits(x) ==
  x.slot[1] # "reference" =>
    mem[x.slot] = x.value \/ (phase = "grey" /\ mem[x.slot] \in fresh)

\* A slot that was taken off the grey queue.
Dealt(s) ==
  /\ s[1] # "weak"
  /\ s[1] = "field" => loc[s[2]] # "free"
  /\ s[1] # "reference" => Settled(mem[s])

\* While a collection runs, what it has dealt with will not dangle after swap, but for
\* objects that grew old; and its copies lie where swap leaves them mapped.
SeenInv ==
  /\ phase # "wild" => \A x \in ItemsOf(grey) : Awaits(x)
  /\ Active /\ phase # "wild" =>
       /\ \A c \in fresh : loc[c] \notin {"gone", Collected}
       /\ \A s \in seen : Dealt(s)
  /\ DanglingOnlyPromoted

\* A step that touches neither cells nor slots and takes nothing off the queue.
LEMMA QuietSeen ==
  ASSUME Inv, SeenInv, UNCHANGED <<gen, loc, mem, fresh, gcType, seen>>,
         Active' => Active, phase' = "idle" => phase = "idle", phase = "wild" => phase' = "wild",
         phase = "grey" => phase' \in {"grey", "wild"} \/ grey' = <<>>,
         \A x \in ItemsOf(grey') : x \in ItemsOf(grey) \/ mem[x.slot] = x.value
  PROVE  SeenInv'
<1>1. DanglingOnlyPromoted'
  BY DEF SeenInv, DanglingOnlyPromoted, Promoted
<1>2. ASSUME NEW x \in ItemsOf(grey'), phase' # "wild" PROVE Awaits(x)'
  <2>1. phase = "grey" => phase' = "grey"
    BY <1>2 DEF ItemsOf
  <2>2. x \in ItemsOf(grey) => Awaits(x)
    BY <1>2 DEF SeenInv
  <2> QED BY <1>2, <2>1, <2>2 DEF Awaits
<1>3. ASSUME Active', phase' # "wild", NEW s \in seen PROVE Dealt(s)'
  <2>1. Dealt(s)
    BY <1>3 DEF SeenInv
  <2> QED BY <2>1 DEF Dealt, Settled, Collected
<1>4. ASSUME Active', phase' # "wild" PROVE \A c \in fresh' : loc'[c] \notin {"gone", Collected'}
  BY <1>4 DEF SeenInv, Collected
<1> QED BY <1>1, <1>2, <1>3, <1>4 DEF SeenInv

\* The slot of the item at the head of the queue.
LEMMA HeadDealt ==
  ASSUME Inv, CopyInv, GraphInv, SeenInv, NEW v, Take(v)
  PROVE  /\ Head(grey).slot \in Slots /\ seen' = seen \cup {Head(grey).slot}
         /\ Head(grey).slot[1] # "weak"
         /\ Head(grey).slot[1] = "field" =>
              Head(grey).slot[2] \in Cells /\ loc[Head(grey).slot[2]] # "free"
         /\ Head(grey).slot[1] # "reference" =>
              mem[Head(grey).slot] = v \/ mem[Head(grey).slot] \in fresh
<1>1. /\ phase = "grey" /\ Head(grey) \in ItemsOf(grey) /\ v = Head(grey).value
      /\ Head(grey).slot \in Slots
  BY TakenCopies, TakeItem DEF Inv
<1>2. ItemAgrees(Head(grey)) /\ Awaits(Head(grey))
  BY <1>1 DEF GraphInv, ItemInv, SeenInv
<1>3. Head(grey).slot[1] = "field" => Head(grey).slot[2] \in Cells
  BY <1>1 DEF Slots, Field, StackSlot, Reference, ValuePtr, WeakValue
<1> QED BY <1>1, <1>2, <1>3 DEF ItemAgrees, Awaits, Take

\* An item is taken whose object is left where it is.
LEMMA LeaveSeen ==
  ASSUME Inv, CopyInv, GraphInv, SeenInv, NEW v, Take(v), Settled(v),
         UNCHANGED <<gen, loc, mem, fresh, phase>>,
         \A x \in ItemsOf(grey') : x \in ItemsOf(grey) \/ mem[x.slot] = x.value
  PROVE  SeenInv'
<1>1. phase = "grey" /\ UNCHANGED gcType
  BY DEF Take
<1>2. \A c \in fresh : loc[c] \notin {"gone", Collected} /\ Settled(c)
  BY <1>1 DEF SeenInv, Active, Settled
<1>3. ASSUME NEW s \in seen' PROVE Dealt(s)
  <2>1. CASE s \in seen
    BY <1>1, <2>1 DEF SeenInv, Active
  <2>2. CASE s = Head(grey).slot
    BY <1>2, <2>2, HeadDealt DEF Dealt
  <2> QED BY <2>1, <2>2, HeadDealt
<1>4. \A s \in seen' : Dealt(s)'
  BY <1>1, <1>3 DEF Dealt, Settled, Collected
<1>5. \A x \in ItemsOf(grey') : Awaits(x)'
  BY <1>1 DEF SeenInv, Awaits
<1> QED BY <1>1, <1>2, <1>4, <1>5 DEF SeenInv, DanglingOnlyPromoted, Promoted, Collected

\* What does not count as current is not collected, or has grown old.
LEMMA NotCurrentSettled ==
  ASSUME Inv, CopyInv, NEW v, phase = "grey", Readable(v), ~Current(v)
  PROVE  Settled(v)
<1>1. v \in Cells /\ gen[v] \in 0..MinOldGen /\ MinOldGen \in Nat
  BY GenAssumption DEF Readable, Inv, TypeOK
<1>2. gcType \in {"NewSpace", "OldSpace"} /\ (loc[v] = "old" => gen[v] >= MinOldGen)
  BY <1>1 DEF CopyInv, GenInv, Active
<1>3. CASE gcType = "NewSpace"
  BY <1>1, <1>3 DEF Settled, Readable, Current
<1>4. CASE gcType = "OldSpace"
  BY <1>1, <1>2, <1>4 DEF Settled, Readable, Current, Collected
<1> QED BY <1>2, <1>3, <1>4

\* A copy lies where swap leaves it, and its object only grows older.
LEMMA CopyToSeenInv ==
  ASSUME Inv, CopyInv, GraphInv, SeenInv, NEW v, Take(v), v \in Cells, Readable(v), Current(v),
         CopyTo(v)
  PROVE  SeenInv'
<1> DEFINE h == Head(grey).slot
           g == Older(gen[v])
<1>1. phase = "grey" /\ phase' \in {"grey", "wild"} /\ gcType' = gcType
  BY DEF Take, CopyTo
<1>2. PICK c \in Cells :
        /\ loc[c] = "free"
        /\ gen' = [gen EXCEPT ![v] = g, ![c] = g]
        /\ loc' = [loc EXCEPT ![c] = CopySpace(g)]
        /\ mem' = [mem EXCEPT ![Field(c, 1)] = mem[Field(v, 1)],
                              ![Field(c, 2)] = mem[Field(v, 2)], ![h] = c]
        /\ fresh' = fresh \cup {c}
        /\ VisitValue(c, v)
  BY DEF CopyTo, NextFree
<1>3. /\ gen \in [Cells -> 0..MinOldGen] /\ mem \in [Slots -> Address]
      /\ loc \in [Cells -> {"free", "new", "old", "tmp", "gone"}] /\ fresh \subseteq Cells
      /\ MinOldGen \in Nat
  BY GenAssumption DEF Inv, TypeOK
<1>4. gcType \in {"NewSpace", "OldSpace"}
  BY <1>1 DEF CopyInv, GenInv, Active
<1>5. /\ h \in Slots /\ seen' = seen \cup {h} /\ h[1] # "weak"
      /\ h[1] = "field" => h[2] \in Cells /\ h[2] # c
  BY <1>2, HeadDealt
<1>6. g \in 0..MinOldGen /\ g >= gen[v]
  BY <1>3 DEF Older
<1> HIDE DEF g, h
<1>7. /\ loc'[c] \notin {"free", "gone", Collected} /\ Collected' = Collected
      /\ \A d \in Cells : d # c => loc'[d] = loc[d] /\ gen'[d] >= gen[d]
  <2>1. loc'[c] = CopySpace(g) /\ Collected' = Collected
    BY <1>1, <1>2, <1>3 DEF Collected
  <2>2. CopySpace(g) \notin {"free", "gone", Collected}
    <3>1. CASE gcType = "NewSpace"
      BY <3>1 DEF CopySpace, Collected
    <3>2. CASE gcType = "OldSpace"
      BY <3>2 DEF CopySpace, Collected
    <3> QED BY <1>4, <3>1, <3>2
  <2>3. ASSUME NEW d \in Cells, d # c PROVE loc'[d] = loc[d] /\ gen'[d] >= gen[d]
    <3>1. gen'[d] = IF d = v THEN g ELSE gen[d]
      BY <1>2, <1>3, <2>3
    <3> QED BY <1>2, <1>3, <1>6, <2>3, <3>1
  <2> QED BY <2>1, <2>2, <2>3
<1>8. mem'[h] = c
  BY <1>2, <1>3, <1>5
<1>9. ASSUME NEW s \in Slots, s # h, s # Field(c, 1), s # Field(c, 2)
      PROVE  mem'[s] = mem[s] /\ mem[s] # c
  BY <1>2, <1>3, <1>9 DEF CopyInv, PointInv
<1>10. \A u : u # c /\ Settled(u) => Settled(u)'
  <2>1. ASSUME NEW u \in Cells, u # c, Settled(u) PROVE Settled(u)'
    <3>1. loc'[u] = loc[u] /\ gen'[u] >= gen[u] /\ gen[u] \in Int /\ gen'[u] \in Int
      BY <1>2, <1>3, <1>6, <1>7, <2>1
    <3> QED BY <1>1, <1>3, <1>7, <2>1, <3>1 DEF Settled
  <2> QED BY <2>1 DEF Settled
<1>11. Settled(c)'
  BY <1>7 DEF Settled
<1>12. \A d \in fresh' : loc'[d] \notin {"gone", Collected'}
  BY <1>1, <1>2, <1>3, <1>7 DEF SeenInv, Active
<1>13. ASSUME NEW s \in seen' PROVE Dealt(s)'
  <2>1. CASE s = h
    <3>1. h[1] = "field" => loc'[h[2]] # "free"
      <4>1. h[1] = "field" => loc[h[2]] # "free"
        BY HeadDealt DEF h
      <4> QED BY <1>5, <1>7, <4>1
    <3> QED BY <1>5, <1>8, <1>11, <2>1, <3>1 DEF Dealt
  <2>2. CASE s # h
    <3>1. s \in seen /\ s \in Slots /\ Dealt(s)
      BY <1>1, <1>5, <2>2 DEF SeenInv, Active, Inv, TypeOK
    <3>2. s # Field(c, 1) /\ s # Field(c, 2)
      BY <1>2, <3>1 DEF Dealt, Field
    <3>3. s[1] = "field" => s[2] \in Cells /\ s[2] # c
      <4>1. s[1] = "field" => s[2] \in Cells
        BY <3>1 DEF Slots, Field, StackSlot, Reference, ValuePtr, WeakValue
      <4> QED BY <1>2, <3>1, <4>1 DEF Dealt
    <3>4. mem'[s] = mem[s] /\ mem[s] # c
      BY <1>9, <2>2, <3>1, <3>2
    <3>5. s[1] # "reference" => Settled(mem[s])'
      <4>1. s[1] # "reference" => Settled(mem[s])
        BY <3>1 DEF Dealt
      <4>2. ASSUME NEW u, u = mem[s], s[1] # "reference" PROVE Settled(u)'
        BY <1>10, <3>4, <4>1, <4>2
      <4>3. ASSUME NEW u, u = mem[s], u = mem'[s], Settled(u)' PROVE Settled(mem[s])'
        BY <4>3 DEF Settled
      <4> QED BY <3>4, <4>2, <4>3
    <3>6. s[1] = "field" => loc'[s[2]] # "free"
      BY <1>7, <3>1, <3>3 DEF Dealt
    <3> QED BY <3>1, <3>5, <3>6 DEF Dealt
  <2> QED BY <2>1, <2>2
<1>14. ASSUME phase' = "grey", NEW x \in ItemsOf(grey') PROVE Awaits(x)'
  <2>1. x \in ItemsOf(grey) \/ \E i \in Fields : x = Item(mem[Field(v, i)], Field(c, i))
    BY <1>2, <1>14, ItemsAfterVisit DEF Inv
  <2>2. CASE x \in ItemsOf(grey)
    <3>1. Awaits(x) /\ ItemAgrees(x) /\ x \in Items
      BY <1>1, <2>2, ItemsTyped DEF SeenInv, GraphInv, ItemInv, Inv
    <3>2. x.slot \in Slots /\ x.slot # Field(c, 1) /\ x.slot # Field(c, 2)
      BY <1>2, <3>1 DEF Items, ItemAgrees, Field
    <3>3. x.slot = h => mem'[x.slot] \in fresh'
      BY <1>2, <1>8
    <3>4. x.slot # h => mem'[x.slot] = mem[x.slot]
      BY <1>9, <3>2
    <3> QED BY <1>1, <1>2, <1>14, <3>1, <3>3, <3>4 DEF Awaits
  <2>3. ASSUME NEW i \in Fields, x = Item(mem[Field(v, i)], Field(c, i)) PROVE Awaits(x)'
    <3>1. Field(c, i) \in Slots /\ Field(c, i) # h /\ Field(c, 1) # Field(c, 2)
      BY <1>5, SlotMembers DEF Field
    <3>2. CASE i = 1
      BY <1>2, <1>3, <2>3, <3>1, <3>2 DEF Awaits, Item
    <3>3. CASE i = 2
      BY <1>2, <1>3, <2>3, <3>1, <3>3 DEF Awaits, Item
    <3> QED BY <3>2, <3>3 DEF Fields
  <2> QED BY <2>1, <2>2, <2>3
<1> QED BY <1>1, <1>12, <1>13, <1>14 DEF SeenInv, DanglingOnlyPromoted, Promoted

LEMMA ProcessGreySeen ==
  ASSUME Inv, CopyInv, GraphInv, SeenInv, ProcessGrey
  PROVE  SeenInv'
<1>1. ASSUME NEW v, Take(v), Settled(v), grey' = Tail(grey), UNCHANGED <<gen, loc, mem, fresh, phase>>
      PROVE  SeenInv'
  BY <1>1, TakenCopies, LeaveSeen
<1>2. ASSUME NEW v \in {Nil, HNil}, SkipUnboxed(v) PROVE SeenInv'
  BY <1>1, <1>2 DEF SkipUnboxed, headers, copies, Settled, Nil, HNil, Cells
<1>3. ASSUME NEW v, ReadUnmapped(v) PROVE SeenInv'
  BY <1>3 DEF ReadUnmapped, SeenInv, DanglingOnlyPromoted, Promoted
<1>4. ASSUME NEW v, MarkSoft(v) PROVE SeenInv'
  <2>1. /\ v \in Cells /\ Take(v) /\ VisitValue(v, v) /\ Readable(v) /\ ~Current(v)
        /\ UNCHANGED <<gen, loc, mem, fresh, phase>>
    BY <1>4 DEF MarkSoft, Readable, copies
  <2>2. Settled(v)
    BY <2>1, NotCurrentSettled DEF Take
  <2>3. \A x \in ItemsOf(grey') :
          x \in ItemsOf(grey) \/ \E i \in Fields : x = Item(mem[Field(v, i)], Field(v, i))
    BY <2>1, ItemsAfterVisit DEF Inv
  <2>4. \A x \in ItemsOf(grey') : x \in ItemsOf(grey) \/ mem[x.slot] = x.value
    BY <2>3 DEF Item
  <2> QED BY <2>1, <2>2, <2>4, LeaveSeen
<1>5. ASSUME NEW v, SkipMarked(v) PROVE SeenInv'
  <2>1. Take(v) /\ Readable(v) /\ ~Current(v)
    BY <1>5 DEF SkipMarked
  <2>2. Settled(v)
    BY <2>1, NotCurrentSettled DEF Take
  <2> QED BY <1>1, <1>5, <2>1, <2>2 DEF SkipMarked, headers, copies
<1>6. ASSUME NEW v, Evacuate(v) PROVE SeenInv'
  <2>1. v \in Cells /\ Take(v) /\ Readable(v) /\ forward[v] = Nil
    BY <1>6 DEF Evacuate, Readable, CopyInv, NotForwarded
  <2>2. ~(Current(v) /\ soft[v])
    BY <2>1 DEF Inv, MarkInv, Marking, Take
  <2> QED BY <1>6, <2>1, <2>2, CopyToSeenInv DEF Evacuate
<1> QED BY <1>2, <1>3, <1>4, <1>5, <1>6 DEF ProcessGrey

LEMMA SwapSeen ==
  ASSUME Inv, CopyInv, GraphInv, SeenInv, Swap
  PROVE  SeenInv'
<1>1. /\ phase = "swap" /\ phase' \in {"idle", "begin"} /\ UNCHANGED <<gen, mem, grey, gcType, seen>>
      /\ loc' = [c \in Cells |-> AfterSwap(loc[c])] /\ fresh' = {}
  BY DEF Swap, queues
<1>2. gcType \in {"NewSpace", "OldSpace"} /\ seen \subseteq Slots
  BY <1>1 DEF CopyInv, GenInv, Active, Inv, TypeOK
<1>3. ASSUME NEW x \in ItemsOf(grey') PROVE Awaits(x)'
  BY <1>1, <1>3 DEF SeenInv, Awaits
<1>4. ASSUME NEW s \in seen, s[1] # "reference", mem[s] \in Cells, loc'[mem[s]] = "gone"
      PROVE  gcType = "NewSpace" /\ gen[mem[s]] >= MinOldGen
  <2>1. Settled(mem[s])
    BY <1>1, <1>4 DEF SeenInv, Active, Dealt
  <2>2. loc[mem[s]] \in {"gone", Collected}
    BY <1>1, <1>4 DEF AfterSwap, Collected
  <2> QED BY <1>4, <2>1, <2>2 DEF Settled
<1>5. DanglingOnlyPromoted'
  BY <1>1, <1>4 DEF DanglingOnlyPromoted, Promoted
<1> QED BY <1>1, <1>3, <1>5 DEF SeenInv, Active

LEMMA StepSeen == Inv /\ CopyInv /\ GraphInv /\ SeenInv /\ [Next]_vars => SeenInv'
<1> SUFFICES ASSUME Inv, CopyInv, GraphInv, SeenInv, [Next]_vars PROVE SeenInv'
  OBVIOUS
<1>1. ASSUME NEW i \in 1..StackSize, NEW x \in {Nil, Null}, DropRoot(i, x) PROVE SeenInv'
  <2>1. /\ phase = "idle" /\ UNCHANGED <<phase, gen, loc, grey, gcType, seen, fresh>>
        /\ mem' = [mem EXCEPT ![StackSlot(i)] = x]
    BY <1>1 DEF DropRoot, Program, headers, queues, history, copies
  <2>2. x \notin Cells /\ mem \in [Slots -> Address] /\ seen \subseteq Slots
    BY DEF Nil, Null, Cells, Inv, TypeOK
  <2>3. \A s \in Slots : mem'[s] = mem[s] \/ mem'[s] \notin Cells
    BY <2>1, <2>2
  <2>4. DanglingOnlyPromoted'
    BY <2>1, <2>2, <2>3 DEF SeenInv, DanglingOnlyPromoted, Promoted
  <2>5. ASSUME NEW y \in ItemsOf(grey) PROVE Awaits(y)'
    <3>1. Awaits(y) /\ y.slot[1] # "stack" /\ y.slot \in Slots
      BY <2>1, <2>5, ItemsTyped DEF SeenInv, CopyInv, QueueInv, Inv, Items
    <3>2. mem'[y.slot] = mem[y.slot]
      BY <2>1, <2>2, <3>1 DEF StackSlot
    <3> QED BY <2>1, <3>1, <3>2 DEF Awaits
  <2> QED BY <2>1, <2>4, <2>5 DEF SeenInv, Active
<1>2. CASE CollectGarbage
  <2>1. /\ phase \in {"idle", "begin"} /\ phase' = "handles" /\ seen' = {} /\ fresh' = {}
        /\ UNCHANGED <<mem, grey>>
    BY <1>2 DEF CollectGarbage, queues, copies, CopyInv, FreshInv
  <2> QED BY <2>1 DEF SeenInv, Awaits, DanglingOnlyPromoted, Promoted
<1>3. ASSUME NEW h \in Handles, ColourHandle(h) PROVE SeenInv'
  <2> DEFINE x == Item(mem[ValuePtr(h)], Reference(h))
             y == Item(mem[ValuePtr(h)], ValuePtr(h))
  <2>1. /\ phase = "handles" /\ UNCHANGED <<phase, gen, loc, mem, fresh, gcType, seen>>
        /\ grey' = grey \o <<x, y>> /\ grey \in Seq(Items)
    BY <1>3 DEF ColourHandle, headers, history, copies, Inv, TypeOK
  <2>2. x \in Items /\ y \in Items
    BY SlotMembers DEF Items, Item, Inv, TypeOK
  <2>3. ASSUME NEW z, z = x \/ z = y PROVE Awaits(z)'
    <3>1. z.slot[1] # "reference" => mem[z.slot] = z.value
      BY <2>3 DEF Item, Reference, ValuePtr
    <3> QED BY <2>1, <3>1 DEF Awaits
  <2> HIDE DEF x, y
  <2>4. \A z \in ItemsOf(grey') : z \in ItemsOf(grey) \/ z = x \/ z = y
    <3>1. <<x, y>> \in Seq(Items) /\ \A z \in ItemsOf(<<x, y>>) : z = x \/ z = y
      BY <2>2 DEF ItemsOf
    <3> QED BY <2>1, <3>1, ItemsOfConcat
  <2>5. \A z \in ItemsOf(grey) : Awaits(z)'
    BY <2>1 DEF SeenInv, Awaits
  <2>6. \A s \in seen : Dealt(s)'
    BY <2>1 DEF SeenInv, Active, Dealt, Settled, Collected
  <2>7. \A c \in fresh : loc'[c] \notin {"gone", Collected'}
    BY <2>1 DEF SeenInv, Active, Collected
  <2> QED BY <2>1, <2>3, <2>4, <2>5, <2>6, <2>7 DEF SeenInv, DanglingOnlyPromoted, Promoted
<1>4. CASE ScanWord
  <2>1. /\ phase = "scan" /\ phase' \in {"scan", "grey"} /\ frame \in 1..StackSize
        /\ UNCHANGED <<gen, loc, mem, fresh, gcType, seen>> /\ grey \in Seq(Items)
    BY <1>4, RootsAssumption DEF ScanWord, EndOfStack, headers, history, copies, Inv, TypeOK
  <2> DEFINE x == Item(mem[StackSlot(frame)], StackSlot(frame))
  <2>2. grey' = grey \/ grey' = Append(grey, x)
    BY <1>4 DEF ScanWord
  <2>3. x \in Items /\ mem[x.slot] = x.value
    BY <2>1, SlotMembers DEF Items, Item, Inv, TypeOK
  <2> HIDE DEF x
  <2>4. \A z \in ItemsOf(grey') : z \in ItemsOf(grey) \/ z = x
    BY <2>1, <2>2, <2>3, ItemsOfAppend
  <2> QED BY <2>1, <2>3, <2>4, QuietSeen DEF Active
<1>5. CASE ProcessGrey
  BY <1>5, ProcessGreySeen
<1>6. CASE RelocateWeakHandles
  <2>1. /\ phase = "weak" /\ phase' \in {"refs", "wild"}
        /\ UNCHANGED <<gen, loc, mem, fresh, gcType, seen, grey>>
    BY <1>6, WeakHandlesGo DEF RelocateWeakHandles, headers, queues, history, copies
  <2> QED BY <2>1, QuietSeen DEF Active
<1>7. ASSUME NEW w \in WeakRefs, HandleWeakRef(w) PROVE SeenInv'
  <2>1. /\ phase = "refs" /\ phase' \in {"refs", "wild"}
        /\ UNCHANGED <<gen, loc, fresh, gcType, seen, grey>>
    BY <1>7 DEF HandleWeakRef, queues, history, copies
  <2>2. ASSUME NEW s \in Slots, s[1] # "weak"
        PROVE  mem'[s] = mem[s] \/ (s[1] = "stack" /\ mem'[s] \notin Cells)
    <3>1. /\ s # WeakValue(w) /\ mem \in [Slots -> Address]
          /\ \A i \in 1..StackSize : s = StackSlot(i) => s[1] = "stack"
      BY <2>2 DEF WeakValue, StackSlot, Inv, TypeOK
    <3>2. Nil \notin Cells /\ Null \notin Cells
      BY DEF Nil, Null, Cells
    <3> QED BY <1>7, <3>1, <3>2 DEF HandleWeakRef, Callback
  <2>3. ASSUME NEW s \in seen PROVE Dealt(s)'
    <3>1. Dealt(s) /\ (mem'[s] = mem[s] \/ mem'[s] \notin Cells)
      BY <2>1, <2>2 DEF SeenInv, Active, Dealt, Inv, TypeOK
    <3> QED BY <2>1, <3>1 DEF Dealt, Settled, Collected
  <2>4. ASSUME NEW x \in ItemsOf(grey) PROVE Awaits(x)'
    <3>1. ItemAgrees(x) /\ Awaits(x) /\ x.slot \in Slots /\ x.slot[1] # "stack"
      BY <2>1, ItemsTyped DEF GraphInv, ItemInv, SeenInv, CopyInv, QueueInv, Inv, Items
    <3>2. mem'[x.slot] = mem[x.slot]
      BY <2>2, <3>1 DEF ItemAgrees
    <3> QED BY <2>1, <3>1, <3>2 DEF Awaits
  <2> QED BY <2>1, <2>3, <2>4 DEF SeenInv, Active, Collected, DanglingOnlyPromoted, Promoted
<1>8. CASE Swap
  BY <1>8, SwapSeen
<1>9. CASE \/ \E t \in {"NewSpace", "OldSpace"} : SetNeedsGC(t)
           \/ (\E sp \in {"new", "old"} : Allocate(sp)) \/ ScanStray
           \/ HandlesColoured \/ StackScanned \/ GreyEmpty \/ DrainBlack \/ WeakRefsHandled
           \/ UNCHANGED vars
  <2>1. /\ UNCHANGED <<gen, loc, mem, fresh, gcType, seen, grey>>
        /\ \/ phase' = phase
           \/ /\ phase \notin {"idle", "begin", "wild"} /\ phase' \notin {"idle", "begin"}
              /\ phase = "grey" => grey = <<>>
    BY <1>9 DEF SetNeedsGC, Allocate, ScanStray, HandlesColoured, StackScanned, GreyEmpty, DrainBlack,
       WeakRefsHandled, vars, headers, queues, history, copies
  <2> QED BY <2>1, QuietSeen DEF Active
<1> QED BY <1>1, <1>2, <1>3, <1>4, <1>5, <1>6, <1>7, <1>8, <1>9 DEF Next, Collection

LEMMA SeenHolds == Spec => [](Inv /\ CopyInv /\ GraphInv /\ SeenInv)
<1>1. Init => SeenInv
  BY DEF Init, SeenInv, DanglingOnlyPromoted, Promoted, ItemsOf, Active
<1> QED BY <1>1, InitInv, StepInv, InitCopies, StepCopies, InitGraph, StepGraph, StepSeen, PTL
        DEF Spec

\* A collection leaves dangling, of the references it dealt with, only those to an object
\* that its own copies have aged (gc.rs 215), for any number of generations, objects,
\* roots and collections.
THEOREM OnlyPromotedDangle == Spec => []DanglingOnlyPromoted
<1>1. SeenInv => DanglingOnlyPromoted
  BY DEF SeenInv
<1> QED BY <1>1, SeenHolds, PTL

\* No reference in an object that can be read, and no root, ever designates another
\* object than it did (gc.rs 199-343, heap.rs 509-570); and between collections one
\* that leads to no object was not dealt with by the last collection, or its object was
\* promoted or overwritten.  For any number of objects, roots and collections, copies of
\* copies included, and whatever allocation overwrites.
THEOREM GraphIsPreserved == Spec => []GraphPreserved
<1>1. ASSUME Inv, CopyInv, GraphInv, SeenInv PROVE GraphPreserved
  <2>1. \A c \in Cells, i \in Fields :
          Readable(c) => Original(mem[Field(c, i)]) = start[Field(origin[c], i)]
    BY <1>1 DEF GraphInv, GraphHeld, Readable
  <2>2. ASSUME phase = "idle", NEW s \in Slots, s[1] # "reference", Unreadable(mem[s]),
               mem[s] \notin lost, s \in seen
        PROVE  Promoted(mem[s])
    <3>1. mem[s] \in Cells /\ loc[mem[s]] \notin {"new", "old", "tmp", "free"}
      BY <1>1, <2>2 DEF Unreadable, Readable, CopyInv, PointInv
    <3>2. loc[mem[s]] = "gone"
      BY <1>1, <3>1 DEF Inv, TypeOK
    <3> QED BY <1>1, <2>2, <3>1, <3>2 DEF SeenInv, DanglingOnlyPromoted, Promoted
  <2> QED BY <1>1, <2>1, <2>2 DEF GraphPreserved, GraphInv, GraphHeld
<1> QED BY <1>1, SeenHolds, PTL

----------------------------------------------------------------------------
(***************************************************************************)
(* Prototypes.                                                             *)
(***************************************************************************)

\* A copy is of its original's kind; the fields still to be redirected are pushed grey
\* ones, so that the second field of an object is none; and the objects there were
\* before any collection never move.
ProtoInv ==
  /\ \A c \in Cells : loc[c] # "free" => tag[c] = tag[origin[c]]
  /\ \A x \in ItemsOf(grey) : x.slot[1] = "field" => x.slot[3] \in Strong(tag[x.slot[2]])
  /\ \A c \in Cells :
       loc[c] # "free" /\ tag[c] = "Object" => mem[Field(c, 2)] = start[Field(origin[c], 2)]
  /\ \A o \in 1..Objects : start[Field(o, 2)] \in 0..Objects /\ loc[o] # "tmp"
  /\ phase = "idle" /\ rounds > 0 => \A o \in 1..Objects : loc[o] # Collected

LEMMA ItemsStrong ==
  ASSUME TypeOK, NEW u, Take(u), NEW x \in Cells, NEW v \in Cells, VisitValue(x, v)
  PROVE  \A y \in ItemsOf(grey') :
           y \in ItemsOf(grey) \/ \E i \in Strong(tag[v]) : y.slot = Field(x, i)
<1>1. mem \in [Slots -> Address] /\ grey \in Seq(Items) /\ grey # <<>>
  BY DEF TypeOK, Take
<1>2. Tail(grey) \in Seq(Items) /\ \A y \in ItemsOf(Tail(grey)) : y \in ItemsOf(grey)
  BY <1>1, ItemsOfTail
<1>3. Visit(x, v, Strong(tag[v])) \in Seq(Items)
  BY <1>1, VisitItems
<1>4. grey' = Tail(grey) \o Visit(x, v, Strong(tag[v]))
  BY DEF VisitValue
<1>5. ASSUME NEW y \in ItemsOf(Visit(x, v, Strong(tag[v])))
      PROVE  \E i \in Strong(tag[v]) : y.slot = Field(x, i)
  <2>1. PICK i \in Fields : i \in Strong(tag[v]) /\ y = Item(mem[Field(v, i)], Field(x, i))
    BY <1>1, <1>5, ItemsOfVisit
  <2>2. y.slot = Field(x, i)
    BY <2>1 DEF Item
  <2> QED BY <2>1, <2>2
<1>6. \A y \in ItemsOf(grey') :
        y \in ItemsOf(Tail(grey)) \/ y \in ItemsOf(Visit(x, v, Strong(tag[v])))
  BY <1>2, <1>3, <1>4, ItemsOfConcat
<1> QED BY <1>2, <1>5, <1>6

\* Steps that make no cell and push no field.
LEMMA QuietProto ==
  ASSUME Inv, ProtoInv, UNCHANGED <<tag, origin, start, loc>>,
         \A c \in Cells : mem'[Field(c, 2)] = mem[Field(c, 2)],
         \A x \in ItemsOf(grey') : x \in ItemsOf(grey) \/ x.slot[1] # "field",
         phase' = "idle" => phase = "idle" /\ UNCHANGED <<rounds, gcType>>
  PROVE  ProtoInv'
BY DEF ProtoInv, Collected

LEMMA MarkSoftProto ==
  ASSUME Inv, ProtoInv, NEW v, MarkSoft(v)
  PROVE  ProtoInv'
<1>1. /\ v \in Cells /\ Take(v) /\ VisitValue(v, v) /\ phase = "grey"
      /\ UNCHANGED <<tag, origin, start, loc, mem, phase>>
  BY DEF MarkSoft, Readable, Take, copies
<1>2. ASSUME NEW y \in ItemsOf(grey'), y.slot[1] = "field"
      PROVE  y.slot[3] \in Strong(tag[y.slot[2]])
  <2>1. CASE y \in ItemsOf(grey)
    BY <1>2, <2>1 DEF ProtoInv
  <2>2. CASE \E i \in Strong(tag[v]) : y.slot = Field(v, i)
    BY <2>2 DEF Field
  <2> QED BY <1>1, <2>1, <2>2, ItemsStrong DEF Inv
<1> QED BY <1>1, <1>2 DEF ProtoInv

LEMMA CopyToProto ==
  ASSUME Inv, CopyInv, GraphInv, ProtoInv, NEW v, Take(v), v \in Cells, Readable(v), CopyTo(v)
  PROVE  ProtoInv'
<1> DEFINE s == Head(grey).slot
<1>1. /\ Head(grey) \in ItemsOf(grey) /\ start' = start /\ loc[v] # "free" /\ s \in Slots
      /\ phase' # "idle"
  BY TakenCopies, TakeItem DEF Take, Readable, Inv, CopyTo
<1>2. PICK c \in Cells :
        /\ loc[c] = "free"
        /\ loc' = [loc EXCEPT ![c] = CopySpace(Older(gen[v]))]
        /\ tag' = [tag EXCEPT ![c] = tag[v]]
        /\ mem' = [mem EXCEPT ![Field(c, 1)] = mem[Field(v, 1)],
                              ![Field(c, 2)] = mem[Field(v, 2)], ![s] = c]
        /\ origin' = [origin EXCEPT ![c] = origin[v]]
        /\ VisitValue(c, v)
  BY DEF CopyTo, NextFree
<1>3. /\ tag'[c] = tag[v] /\ origin'[c] = origin[v] /\ origin[v] \in (1..Objects) /\ c # v
      /\ \A d \in Cells : d # c => /\ tag'[d] = tag[d] /\ origin'[d] = origin[d]
                                   /\ loc'[d] = loc[d]
  BY <1>1, <1>2 DEF Inv, TypeOK, GraphInv, OriginInv
<1>4. \A o \in 1..Objects : o \in Cells /\ o # c /\ loc[o] # "free" /\ origin[o] = o
  BY <1>2, ObjectsAssumption DEF GraphInv, OriginInv, Cells
<1>5. s[1] = "field" => /\ s[2] \in Cells \ {c} /\ loc[s[2]] # "free"
                        /\ s[3] \in Strong(tag[s[2]])
  <2>1. s[1] = "field" => loc[s[2]] # "free" /\ s[3] \in Strong(tag[s[2]])
    BY <1>1 DEF GraphInv, ItemInv, ItemAgrees, ProtoInv
  <2>2. s[1] = "field" => s[2] \in Cells
    BY <1>1 DEF Slots, Field, StackSlot, Reference, ValuePtr, WeakValue
  <2> QED BY <1>2, <2>1, <2>2
<1>6. \A d \in Cells : loc'[d] # "free" => tag'[d] = tag'[origin'[d]]
  <2>1. tag'[c] = tag'[origin'[c]]
    BY <1>1, <1>3, <1>4 DEF ProtoInv
  <2>2. ASSUME NEW d \in Cells, d # c, loc'[d] # "free" PROVE tag'[d] = tag'[origin'[d]]
    <3>1. origin[d] \in 1..Objects
      BY <1>3, <2>2 DEF GraphInv, OriginInv
    <3> QED BY <1>3, <1>4, <2>2, <3>1 DEF ProtoInv
  <2> QED BY <2>1, <2>2
<1>7. ASSUME NEW y \in ItemsOf(grey'), y.slot[1] = "field"
      PROVE  y.slot[3] \in Strong(tag'[y.slot[2]])
  <2>1. CASE y \in ItemsOf(grey)
    <3>1. ItemAgrees(y) /\ y.slot \in Slots
      BY <2>1, ItemsTyped DEF GraphInv, ItemInv, Inv, Items
    <3>2. y.slot[2] \in Cells \ {c}
      BY <1>2, <1>7, <3>1
         DEF ItemAgrees, Slots, Field, StackSlot, Reference, ValuePtr, WeakValue
    <3> QED BY <1>3, <1>7, <2>1, <3>2 DEF ProtoInv
  <2>2. CASE \E i \in Strong(tag[v]) : y.slot = Field(c, i)
    BY <1>3, <2>2 DEF Field
  <2> QED BY <1>2, <2>1, <2>2, ItemsStrong DEF Inv
<1>8. ASSUME NEW d \in Cells, loc'[d] # "free", tag'[d] = "Object"
      PROVE  mem'[Field(d, 2)] = start[Field(origin'[d], 2)]
  <2>1. /\ Field(d, 2) \in Slots /\ Field(c, 2) \in Slots /\ mem \in [Slots -> Address]
        /\ Field(d, 2) # Field(c, 1)
    <3>1. Field(d, 2) \in Slots /\ Field(c, 2) \in Slots
      BY SlotMembers DEF Fields
    <3>2. Field(d, 2) # Field(c, 1)
      BY DEF Field
    <3> QED BY <3>1, <3>2 DEF Inv, TypeOK
  <2>2. Field(d, 2) # s
    <3>1. s = Field(d, 2) => s[1] = "field" /\ s[2] = d /\ s[3] = 2
      BY DEF Field
    <3>2. 2 \notin Strong("Object")
      BY DEF Strong
    <3> QED BY <1>3, <1>5, <1>8, <3>1, <3>2
  <2>3. CASE d = c
    <3>1. mem'[Field(c, 2)] = mem[Field(v, 2)]
      BY <1>2, <2>1, <2>2, <2>3
    <3>2. mem[Field(v, 2)] = start[Field(origin[v], 2)]
      BY <1>1, <1>3, <1>8, <2>3 DEF ProtoInv
    <3> QED BY <1>3, <2>3, <3>1, <3>2
  <2>4. CASE d # c
    <3>1. Field(d, 2) # Field(c, 2)
      BY <2>4 DEF Field
    <3>2. mem'[Field(d, 2)] = mem[Field(d, 2)]
      BY <1>2, <2>1, <2>2, <3>1
    <3> QED BY <1>3, <1>8, <2>4, <3>2 DEF ProtoInv
  <2> QED BY <2>3, <2>4
<1>9. \A o \in 1..Objects : start[Field(o, 2)] \in 0..Objects /\ loc'[o] # "tmp"
  BY <1>3, <1>4 DEF ProtoInv
<1> QED BY <1>1, <1>6, <1>7, <1>8, <1>9 DEF ProtoInv

\* Steps that push a root, or write one.
LEMMA RootsProto ==
  ASSUME Inv, CopyInv, ProtoInv,
         \/ \E i \in 1..StackSize, x \in {Nil, Null} : DropRoot(i, x)
         \/ \E h \in Handles : ColourHandle(h)
         \/ ScanWord
         \/ \E w \in WeakRefs : HandleWeakRef(w)
  PROVE  ProtoInv'
<1>0. mem \in [Slots -> Address] /\ grey \in Seq(Items)
  BY DEF Inv, TypeOK
<1>1. ASSUME NEW i \in 1..StackSize, NEW x \in {Nil, Null}, DropRoot(i, x) PROVE ProtoInv'
  <2>1. /\ UNCHANGED <<tag, origin, start, loc, grey, phase, rounds, gcType>>
        /\ mem' = [mem EXCEPT ![StackSlot(i)] = x]
    BY <1>1 DEF DropRoot, headers, queues, history, copies
  <2>2. \A c \in Cells : Field(c, 2) \in Slots /\ Field(c, 2) # StackSlot(i)
    BY SlotMembers DEF Fields, Field, StackSlot
  <2> QED BY <1>0, <2>1, <2>2, QuietProto
<1>2. ASSUME NEW h \in Handles, ColourHandle(h) PROVE ProtoInv'
  <2> DEFINE x == Item(mem[ValuePtr(h)], Reference(h))
             y == Item(mem[ValuePtr(h)], ValuePtr(h))
  <2>1. /\ UNCHANGED <<tag, mem, origin, start, loc>> /\ grey' = grey \o <<x, y>>
        /\ phase' # "idle"
    BY <1>2 DEF ColourHandle, headers, history, copies
  <2>2. x \in Items /\ y \in Items
    BY <1>0, SlotMembers DEF Items, Item
  <2>3. x.slot[1] # "field" /\ y.slot[1] # "field"
    BY DEF Item, Reference, ValuePtr
  <2> HIDE DEF x, y
  <2>4. \A z \in ItemsOf(grey') : z \in ItemsOf(grey) \/ z = x \/ z = y
    <3>1. <<x, y>> \in Seq(Items) /\ \A z \in ItemsOf(<<x, y>>) : z = x \/ z = y
      BY <2>2 DEF ItemsOf
    <3> QED BY <1>0, <2>1, <3>1, ItemsOfConcat
  <2> QED BY <2>1, <2>3, <2>4, QuietProto
<1>3. CASE ScanWord
  <2> DEFINE x == Item(mem[StackSlot(frame)], StackSlot(frame))
  <2>1. /\ UNCHANGED <<tag, mem, origin, start, loc>> /\ frame \in 1..StackSize
        /\ phase' # "idle" /\ (grey' = grey \/ grey' = Append(grey, x))
    BY <1>3, RootsAssumption DEF ScanWord, EndOfStack, headers, history, copies, Inv, TypeOK
  <2>2. x \in Items /\ x.slot[1] # "field"
    BY <1>0, <2>1, SlotMembers DEF Items, Item, StackSlot
  <2> HIDE DEF x
  <2>3. \A z \in ItemsOf(grey') : z \in ItemsOf(grey) \/ z = x
    BY <1>0, <2>1, <2>2, ItemsOfAppend
  <2> QED BY <2>1, <2>2, <2>3, QuietProto
<1>4. ASSUME NEW w \in WeakRefs, HandleWeakRef(w) PROVE ProtoInv'
  <2>1. phase' # "idle" /\ UNCHANGED <<tag, origin, start, loc, grey>>
    BY <1>4 DEF HandleWeakRef, queues, history, copies
  <2>2. \A c \in Cells : /\ Field(c, 2) \in Slots /\ Field(c, 2) # WeakValue(w)
                         /\ \A i \in 1..StackSize : Field(c, 2) # StackSlot(i)
    BY SlotMembers DEF Fields, Field, StackSlot, WeakValue
  <2>3. \A c \in Cells : mem'[Field(c, 2)] = mem[Field(c, 2)]
    BY <1>0, <1>4, <2>2 DEF HandleWeakRef, Callback
  <2> QED BY <2>1, <2>3, QuietProto
<1> QED BY <1>1, <1>2, <1>3, <1>4

LEMMA StepProto == Inv /\ CopyInv /\ GraphInv /\ ProtoInv /\ [Next]_vars => ProtoInv'
<1> SUFFICES ASSUME Inv, CopyInv, GraphInv, ProtoInv, [Next]_vars PROVE ProtoInv'
  OBVIOUS
<1>1. ASSUME NEW v, SkipUnboxed(v) \/ SkipMarked(v) \/ ReadUnmapped(v) PROVE ProtoInv'
  <2>1. /\ Take(v) /\ UNCHANGED <<tag, mem, origin, start, loc>> /\ phase' # "idle"
        /\ grey' = Tail(grey) \/ grey' = grey
    BY <1>1 DEF SkipUnboxed, SkipMarked, ReadUnmapped, Take, headers, queues, copies
  <2> QED BY <2>1, TakenCopies, QuietProto
<1>2. ASSUME NEW v, Evacuate(v) PROVE ProtoInv'
  <2>1. v \in Cells /\ Take(v) /\ Readable(v) /\ forward[v] = Nil
    BY <1>2 DEF Evacuate, Readable, CopyInv, NotForwarded
  <2>2. ~(Current(v) /\ soft[v])
    BY <2>1 DEF Inv, MarkInv, Marking, Take
  <2> QED BY <1>2, <2>1, <2>2, CopyToProto DEF Evacuate
<1>3. CASE ProcessGrey
  BY <1>1, <1>2, <1>3, MarkSoftProto DEF ProcessGrey
<1>4. CASE RelocateWeakHandles
  <2>1. phase' # "idle" /\ UNCHANGED <<tag, mem, origin, start, loc, grey>>
    BY <1>4, WeakHandlesGo DEF RelocateWeakHandles, headers, queues, history, copies
  <2> QED BY <2>1, QuietProto
<1>5. CASE Swap
  <2>1. /\ UNCHANGED <<tag, mem, origin, start, grey, gcType>>
        /\ loc' = [c \in Cells |-> AfterSwap(loc[c])]
    BY <1>5 DEF Swap, queues
  <2>2. \A c \in Cells : loc'[c] = AfterSwap(loc[c]) /\ (loc'[c] # "free" => loc[c] # "free")
    BY <2>1 DEF AfterSwap
  <2>3. ASSUME NEW o \in 1..Objects PROVE loc'[o] # "tmp" /\ loc'[o] # Collected
    <3>1. o \in Cells /\ loc[o] # "tmp"
      BY ObjectsAssumption DEF ProtoInv, Cells
    <3> QED BY <2>2, <3>1 DEF AfterSwap, Collected
  <2> QED BY <2>1, <2>2, <2>3 DEF ProtoInv, Collected
<1>6. CASE \/ \E t \in {"NewSpace", "OldSpace"} : SetNeedsGC(t)
           \/ (\E sp \in {"new", "old"} : Allocate(sp)) \/ ScanStray
           \/ CollectGarbage \/ HandlesColoured \/ StackScanned \/ GreyEmpty \/ DrainBlack
           \/ WeakRefsHandled \/ UNCHANGED vars
  <2>1. /\ UNCHANGED <<tag, mem, origin, start, loc>>
        /\ phase' = "idle" => phase = "idle" /\ UNCHANGED <<rounds, gcType>>
        /\ grey' = grey
    BY <1>6 DEF SetNeedsGC, Allocate, Program, ScanStray, CollectGarbage, HandlesColoured,
       StackScanned, GreyEmpty, DrainBlack, WeakRefsHandled, vars, headers, queues, history, copies
  <2> QED BY <2>1, QuietProto
<1> QED BY <1>3, <1>4, <1>5, <1>6, RootsProto DEF Next, Collection

LEMMA InitProto == Init => ProtoInv
<1> SUFFICES ASSUME Init PROVE ProtoInv
  OBVIOUS
<1>1. grey = <<>> /\ rounds = 0 /\ start = mem /\ origin = [c \in Cells |-> c]
  BY DEF Init
<1>2. PICK f \in [1..Objects -> [Fields -> 0..Objects]],
           k \in [1..StackSize -> Junk..Objects],
           r \in [Handles -> 0..Objects], v \in [Handles -> (0..Objects) \cup {HNil}],
           w \in [WeakRefs -> 1..Objects] :
        mem = Contents(f, k, r, v, w)
  BY DEF Init
<1>3. ASSUME NEW o \in 1..Objects PROVE start[Field(o, 2)] \in 0..Objects /\ loc[o] # "tmp"
  <2>1. o \in Cells
    BY ObjectsAssumption DEF Cells
  <2>2. mem[Field(o, 2)] = f[o][2]
    BY <1>2, <2>1, SlotMembers DEF Contents, Field, Fields
  <2>3. loc[o] # "tmp"
    <3>1. PICK g \in [1..Objects -> 0..MinOldGen] :
            loc = [c \in Cells |-> IF c \notin 1..Objects THEN "free"
                                   ELSE IF g[c] = MinOldGen THEN "old" ELSE "new"]
      BY Zenon DEF Init
    <3> QED BY <2>1, <3>1
  <2>4. f[o][2] \in 0..Objects
    BY DEF Fields
  <2> QED BY <1>1, <2>2, <2>3, <2>4
<1> QED BY <1>1, <1>3 DEF ProtoInv, ItemsOf

\* The prototype of an object, and of each of its copies, is never redirected (gc.rs 304),
\* and no collection leaves an object at its address if it collected the space the
\* prototype was in: for any number of objects, roots and collections.
THEOREM PrototypesAreLeftBehind == Spec => []PrototypesDangle
<1>1. ASSUME Inv, GraphInv, ProtoInv PROVE PrototypesDangle
  <2> SUFFICES ASSUME phase = "idle", NEW c \in Cells, Readable(c), tag[c] = "Object"
               PROVE  /\ mem[Field(c, 2)] = start[Field(origin[c], 2)]
                      /\ mem[Field(c, 2)] \in Cells /\ rounds > 0 =>
                           loc[mem[Field(c, 2)]] # Collected
    BY DEF PrototypesDangle, Collected
  <2>1. loc[c] # "free"
    BY DEF Readable
  <2>2. origin[c] \in 1..Objects /\ mem[Field(c, 2)] = start[Field(origin[c], 2)]
    BY <1>1, <2>1 DEF GraphInv, OriginInv, ProtoInv
  <2>3. mem[Field(c, 2)] \in 0..Objects
    BY <1>1, <2>2 DEF ProtoInv
  <2>4. mem[Field(c, 2)] \in Cells => mem[Field(c, 2)] \in 1..Objects
    BY <2>3, ObjectsAssumption DEF Cells
  <2> QED BY <1>1, <2>2, <2>4 DEF ProtoInv
<1> QED BY <1>1, InitInv, StepInv, InitCopies, StepCopies, InitGraph, StepGraph, InitProto,
        StepProto, PTL DEF Spec

----------------------------------------------------------------------------
(***************************************************************************)
(* Cycles of old objects.                                                  *)
(***************************************************************************)

\* The strong fields of v have been looked at or are queued.
Followed(v) ==
  \A i \in Strong(tag[v]) :
    \/ mem[Field(v, i)] = Nil
    \/ Field(v, i) \in seen
    \/ \E x \in ItemsOf(grey) : x.slot = Field(v, i)

\* Cells are handed out in order.
AllocInv == \A c, d \in Cells : loc[c] = "free" /\ c < d => loc[d] = "free"

\* Until the first collection has passed its roots, copies are of their objects' kinds,
\* a field holds an object or nil, and a handle one of them or the nil object.
FieldsHold ==
  \A s \in Slots : /\ s[1] = "field" => mem[s] \in Cells \cup {Nil}
                   /\ s[1] = "value" => mem[s] \in Cells \cup {Nil, HNil}

Early == rounds = 0 \/ (rounds = 1 /\ Marking)

EarlyInv ==
  /\ rounds = 0 => phase = "idle" /\ grey = <<>> /\ \A c \in Cells : origin[c] = c
  /\ Early =>
       /\ \A c \in Cells : loc[c] # "free" => tag[c] = tag[origin[c]]
       /\ FieldsHold

\* A copy is as old as its object; what is queued is an object or nil, the nil object only
\* for a handle, and no word of the stack is queued that holds neither; the queue is empty
\* when its stack word is done.
GensAgree == \A c \in Cells : loc[c] # "free" => gen[c] = gen[origin[c]]
Held(x) ==
  \/ x.value \in Cells
  \/ x.value = Nil /\ x.slot[1] # "stack"
  \/ x.value = HNil /\ x.slot[1] \in {"reference", "value"}
ItemsHeld == \A x \in ItemsOf(grey) : Held(x)
QueueDone ==
  /\ phase = "handles" => seen = {}
  /\ phase = "scan" => seen = {} \/ grey = <<>>

\* What was looked at is a copy or marked, and what is a copy or marked is followed.
SlotsFollowed ==
  \A s \in seen : s[1] # "reference" =>
    \/ mem[s] = Nil /\ s[1] # "stack"
    \/ mem[s] = HNil /\ s[1] = "value"
    \/ mem[s] \in Cells /\ (mem[s] \in fresh \/ soft[mem[s]])
CellsFollowed == \A c \in Cells : c \in fresh \/ soft[c] => Followed(c)

\* The copies form a forest: what one refers to was copied after it.
Ascending == \A c \in fresh, i \in Fields : mem[Field(c, i)] \in fresh => mem[Field(c, i)] > c

ForestInv ==
  rounds = 1 /\ Marking /\ gcType = "OldSpace" =>
    GensAgree /\ ItemsHeld /\ QueueDone /\ SlotsFollowed /\ CellsFollowed /\ Ascending

CycleInv == AllocInv /\ EarlyInv /\ ForestInv /\ OldCycleNeverCollected

\* What is put on a queue is on it, and what is not taken off it stays.
LEMMA ItemsOfBoth ==
  ASSUME NEW S, NEW p \in Seq(S), NEW q \in Seq(S)
  PROVE  (\A y \in ItemsOf(p) : y \in ItemsOf(p \o q)) /\ (\A y \in ItemsOf(q) : y \in ItemsOf(p \o q))
<1>1. /\ DOMAIN p = 1..Len(p) /\ DOMAIN q = 1..Len(q) /\ Len(p) \in Nat /\ Len(q) \in Nat
      /\ DOMAIN (p \o q) = 1..(Len(p) + Len(q))
      /\ \A k \in 1..Len(p) : (p \o q)[k] = p[k]
      /\ \A k \in 1..Len(q) : (p \o q)[k + Len(p)] = q[k]
  OBVIOUS
<1>2. ASSUME NEW k \in DOMAIN p PROVE p[k] \in ItemsOf(p \o q)
  <2>1. k \in DOMAIN (p \o q) /\ (p \o q)[k] = p[k]
    BY <1>1
  <2> QED BY <2>1 DEF ItemsOf
<1>3. ASSUME NEW k \in DOMAIN q PROVE q[k] \in ItemsOf(p \o q)
  <2>1. k + Len(p) \in DOMAIN (p \o q) /\ (p \o q)[k + Len(p)] = q[k]
    BY <1>1
  <2> QED BY <2>1 DEF ItemsOf
<1> QED BY <1>2, <1>3 DEF ItemsOf

LEMMA ItemsOfRest ==
  ASSUME NEW S, NEW q \in Seq(S), q # <<>>
  PROVE  \A y \in ItemsOf(q) : y = Head(q) \/ y \in ItemsOf(Tail(q))
<1>1. /\ DOMAIN q = 1..Len(q) /\ Len(q) \in Nat \ {0} /\ Head(q) = q[1]
      /\ DOMAIN Tail(q) = 1..(Len(q) - 1)
      /\ \A k \in 1..(Len(q) - 1) : Tail(q)[k] = q[k + 1]
  OBVIOUS
<1>2. ASSUME NEW k \in DOMAIN q, k # 1 PROVE q[k] \in ItemsOf(Tail(q))
  <2>1. k - 1 \in DOMAIN Tail(q) /\ Tail(q)[k - 1] = q[k]
    BY <1>1, <1>2
  <2> QED BY <2>1 DEF ItemsOf
<1> QED BY <1>1, <1>2 DEF ItemsOf

\* A visit pushes every strong field.
LEMMA VisitPushes ==
  ASSUME mem \in [Slots -> Address], NEW x \in Cells, NEW v \in Cells, NEW is, is \subseteq Fields,
         NEW i \in is, mem[Field(v, i)] # Nil
  PROVE  \E y \in ItemsOf(Visit(x, v, is)) : y.slot = Field(x, i)
<1> DEFINE y == Item(mem[Field(v, i)], Field(x, i))
           p == IF 1 \in is THEN Pushed(x, v, 1) ELSE <<>>
           q == IF 2 \in is THEN Pushed(x, v, 2) ELSE <<>>
<1>1. p \in Seq(Items) /\ q \in Seq(Items)
  <2>1. \A j \in Fields : Item(mem[Field(v, j)], Field(x, j)) \in Items
    BY SlotMembers DEF Items, Item
  <2>2. ASSUME NEW j \in Fields PROVE Pushed(x, v, j) \in Seq(Items)
    <3> DEFINE z == Item(mem[Field(v, j)], Field(x, j))
    <3>1. z \in Items
      BY <2>1
    <3>2. Pushed(x, v, j) = <<>> \/ Pushed(x, v, j) = <<z>>
      BY DEF Pushed
    <3> HIDE DEF z
    <3>3. <<z>> \in Seq(Items) /\ <<>> \in Seq(Items)
      BY <3>1
    <3> QED BY <3>2, <3>3
  <2> QED BY <2>2 DEF Fields
<1>2. Visit(x, v, is) = p \o q /\ y.slot = Field(x, i)
  BY DEF Visit, Item
<1>3. Pushed(x, v, i) = <<y>>
  BY DEF Pushed
<1>4. y \in ItemsOf(<<y>>)
  <2> HIDE DEF y
  <2>1. <<y>>[1] = y /\ 1 \in DOMAIN <<y>>
    OBVIOUS
  <2> QED BY <2>1 DEF ItemsOf
<1>5. y \in ItemsOf(p) \/ y \in ItemsOf(q)
  <2>1. i = 1 \/ i = 2
    BY DEF Fields
  <2>2. p = Pushed(x, v, i) \/ q = Pushed(x, v, i)
    BY <2>1
  <2> HIDE DEF p, q, y
  <2> QED BY <1>3, <1>4, <2>2
<1> HIDE DEF p, q, y
<1> QED BY <1>1, <1>2, <1>5, ItemsOfBoth

LEMMA StrongFields == \A t : Strong(t) \subseteq Fields
BY DEF Strong, Fields

\* Taking an item loses no other; a visit queues all that there is to follow.
LEMMA TakenLosesNone ==
  ASSUME TypeOK, NEW u, Take(u)
  PROVE  /\ \A y \in ItemsOf(grey) : y.slot \in seen' \/ y \in ItemsOf(Tail(grey))
         /\ \A y \in ItemsOf(Tail(grey)) : y \in ItemsOf(grey)
<1>1. grey \in Seq(Items) /\ grey # <<>> /\ seen' = seen \cup {Head(grey).slot}
  BY DEF TypeOK, Take
<1> QED BY <1>1, ItemsOfRest, ItemsOfTail

LEMMA VisitFollows ==
  ASSUME TypeOK, NEW u, Take(u), NEW x \in Cells, NEW v \in Cells, VisitValue(x, v)
  PROVE  /\ \A y \in ItemsOf(grey) : y.slot \in seen' \/ y \in ItemsOf(grey')
         /\ \A i \in Strong(tag[v]) :
              mem[Field(v, i)] = Nil \/ \E y \in ItemsOf(grey') : y.slot = Field(x, i)
<1> DEFINE q == Visit(x, v, Strong(tag[v]))
<1>1. /\ mem \in [Slots -> Address] /\ Tail(grey) \in Seq(Items) /\ q \in Seq(Items)
      /\ grey' = Tail(grey) \o q
  BY TakeItem, VisitItems DEF TypeOK, VisitValue
<1>2. \A i \in Strong(tag[v]) : mem[Field(v, i)] # Nil => \E y \in ItemsOf(q) : y.slot = Field(x, i)
  BY <1>1, VisitPushes, StrongFields
<1> HIDE DEF q
<1>3. /\ \A y \in ItemsOf(Tail(grey)) : y \in ItemsOf(grey')
      /\ \A y \in ItemsOf(q) : y \in ItemsOf(grey')
  BY <1>1, ItemsOfBoth
<1> QED BY <1>2, <1>3, TakenLosesNone

\* What is followed stays so while nothing is lost.
LEMMA FollowedStays ==
  ASSUME NEW v, Followed(v), tag'[v] = tag[v], seen \subseteq seen',
         \A i \in Fields : mem'[Field(v, i)] = mem[Field(v, i)] \/ Field(v, i) \in seen',
         \A y \in ItemsOf(grey) : y.slot \in seen' \/ y \in ItemsOf(grey')
  PROVE  Followed(v)'
<1> SUFFICES ASSUME NEW i \in Strong(tag[v])
             PROVE  \/ mem'[Field(v, i)] = Nil
                    \/ Field(v, i) \in seen'
                    \/ \E x \in ItemsOf(grey') : x.slot = Field(v, i)
  BY DEF Followed
<1>1. i \in Fields
  BY StrongFields
<1> QED BY <1>1 DEF Followed

\* The greatest cell of a set.
LEMMA Greatest ==
  ASSUME NEW T \in SUBSET Cells, T # {}
  PROVE  \E x \in T : \A y \in T : y <= x
<1> DEFINE R == {ss \in Nat \X Nat : ss[1] < ss[2]}
           D == {n \in Nat : MaxCells - n \in T}
<1>0. MaxCells \in Nat
  BY ObjectsAssumption
<1>1. IsWellFoundedOn(R, Nat)
  BY NatLessThanWellFounded DEF OpToRel
<1>2. D # {}
  <2>1. PICK c \in T : TRUE
    OBVIOUS
  <2>2. MaxCells - c \in Nat /\ MaxCells - (MaxCells - c) = c
    BY <1>0 DEF Cells
  <2> QED BY <2>1, <2>2
<1>3. \E m \in D : \A n \in D : ~(<<n, m>> \in R)
  <2>1. D \subseteq Nat
    OBVIOUS
  <2> HIDE DEF R, D
  <2> QED BY <1>1, <1>2, <2>1, WFMin
<1>4. PICK m \in D : \A n \in D : ~(<<n, m>> \in R)
  BY <1>3
<1>5. ASSUME NEW y \in T PROVE y <= MaxCells - m
  <2>1. y \in Int /\ MaxCells - y \in Nat /\ MaxCells - (MaxCells - y) = y
    BY <1>0 DEF Cells
  <2>2. MaxCells - y \in D
    BY <2>1
  <2>3. ~(MaxCells - y < m)
    BY <1>4, <2>2
  <2> QED BY <1>0, <2>1, <2>3
<1> QED BY <1>5

\* The only way to evacuate is to copy.
LEMMA Evacuated ==
  ASSUME Inv, CopyInv, NEW v, Evacuate(v)
  PROVE  v \in Cells /\ Take(v) /\ Readable(v) /\ Current(v) /\ ~soft[v] /\ CopyTo(v)
<1>1. v \in Cells /\ Take(v) /\ Readable(v) /\ forward[v] = Nil
  BY DEF Evacuate, Readable, CopyInv, NotForwarded
<1>2. ~(Current(v) /\ soft[v])
  BY <1>1 DEF Inv, MarkInv, Marking, Take
<1> QED BY <1>1, <1>2 DEF Evacuate

\* What a copy does to the cells.
LEMMA CopyMakes ==
  ASSUME Inv, CopyInv, GraphInv, NEW v, Evacuate(v)
  PROVE  \E c \in Cells :
           /\ loc[c] = "free" /\ (\A d \in 1..(c - 1) : loc[d] # "free") /\ c # v
           /\ loc'[c] # "free" /\ loc'[c] # "gone" /\ \A d \in Cells \ {c} : loc'[d] = loc[d]
           /\ gen'[c] = gen'[v] /\ gen'[v] = Older(gen[v])
           /\ \A d \in Cells \ {c, v} : gen'[d] = gen[d]
           /\ tag'[c] = tag[v] /\ \A d \in Cells \ {c} : tag'[d] = tag[d]
           /\ origin'[c] = origin[v] /\ \A d \in Cells \ {c} : origin'[d] = origin[d]
           /\ fresh' = fresh \cup {c}
           /\ mem' = [mem EXCEPT ![Field(c, 1)] = mem[Field(v, 1)],
                                 ![Field(c, 2)] = mem[Field(v, 2)], ![Head(grey).slot] = c]
           /\ VisitValue(c, v)
<1>1. v \in Cells /\ Readable(v) /\ CopyTo(v)
  BY Evacuated
<1>2. PICK c \in Cells :
        /\ NextFree(c)
        /\ gen' = [gen EXCEPT ![v] = Older(gen[v]), ![c] = Older(gen[v])]
        /\ loc' = [loc EXCEPT ![c] = CopySpace(Older(gen[v]))]
        /\ tag' = [tag EXCEPT ![c] = tag[v]]
        /\ mem' = [mem EXCEPT ![Field(c, 1)] = mem[Field(v, 1)],
                              ![Field(c, 2)] = mem[Field(v, 2)], ![Head(grey).slot] = c]
        /\ origin' = [origin EXCEPT ![c] = origin[v]] /\ fresh' = fresh \cup {c}
        /\ VisitValue(c, v)
  BY <1>1 DEF CopyTo
<1>3. /\ tag \in [Cells -> AllTags] /\ gen \in [Cells -> 0..MinOldGen] /\ origin \in [Cells -> Cells]
      /\ loc \in [Cells -> {"free", "new", "old", "tmp", "gone"}]
  BY DEF Inv, TypeOK
<1>4. loc[c] = "free" /\ (\A d \in 1..(c - 1) : loc[d] # "free") /\ c # v
  BY <1>1, <1>2 DEF NextFree, Readable
<1>5. \A g : CopySpace(g) # "free" /\ CopySpace(g) # "gone"
  BY DEF CopySpace
<1>6. loc'[c] # "free" /\ loc'[c] # "gone" /\ \A d \in Cells \ {c} : loc'[d] = loc[d]
  BY <1>2, <1>3, <1>5
<1>7. /\ gen'[c] = gen'[v] /\ gen'[v] = Older(gen[v])
      /\ \A d \in Cells \ {c, v} : gen'[d] = gen[d]
  BY <1>1, <1>2, <1>3, <1>4
<1>8. /\ tag'[c] = tag[v] /\ \A d \in Cells \ {c} : tag'[d] = tag[d]
      /\ origin'[c] = origin[v] /\ \A d \in Cells \ {c} : origin'[d] = origin[d]
  BY <1>2, <1>3
<1> QED BY <1>2, <1>4, <1>6, <1>7, <1>8

\* No other step makes a cell or changes one.
LEMMA CellsStay ==
  ASSUME Inv, CopyInv, [Next]_vars, \A v : ~Evacuate(v)
  PROVE  UNCHANGED <<tag, gen, origin>> /\ (loc' = loc \/ Swap)
<1>1. CASE ProcessGrey
  BY <1>1 DEF ProcessGrey, SkipUnboxed, ReadUnmapped, MarkSoft, SkipMarked, headers, copies
<1>2. CASE ~ProcessGrey
  BY <1>2 DEF Next, Collection, DropRoot, SetNeedsGC, Allocate, CollectGarbage, ColourHandle,
     HandlesColoured, ScanWord, ScanStray, StackScanned, GreyEmpty, DrainBlack, RelocateWeakHandles,
     HandleWeakRef, WeakRefsHandled, Swap, headers, history, copies, vars
<1> QED BY <1>1, <1>2

\* Cells are handed out in order.
LEMMA StepAlloc ==
  ASSUME Inv, CopyInv, GraphInv, AllocInv, [Next]_vars
  PROVE  AllocInv'
<1>1. ASSUME NEW v, Evacuate(v) PROVE AllocInv'
  <2>1. PICK c \in Cells :
          /\ \A d \in 1..(c - 1) : loc[d] # "free"
          /\ loc'[c] # "free" /\ \A d \in Cells \ {c} : loc'[d] = loc[d]
    BY <1>1, CopyMakes
  <2> SUFFICES ASSUME NEW a \in Cells, NEW b \in Cells, loc'[a] = "free", a < b
               PROVE  loc'[b] = "free"
    BY DEF AllocInv
  <2>2. a # c /\ loc[a] = "free" /\ loc[b] = "free"
    BY <2>1 DEF AllocInv
  <2>3. b # c
    BY <2>1, <2>2 DEF Cells
  <2> QED BY <2>1, <2>2, <2>3
<1>2. CASE Swap
  BY <1>2 DEF Swap, AfterSwap, AllocInv
<1> QED BY <1>1, <1>2, CellsStay DEF AllocInv

\* The steps before and during the first marking.
LEMMA EarlySteps ==
  ASSUME Inv, EarlyInv, [Next]_vars, Early'
  PROVE  /\ Early
         /\ \/ \E i \in 1..StackSize, x \in {Nil, Null} : DropRoot(i, x)
            \/ \E t \in {"NewSpace", "OldSpace"} : SetNeedsGC(t)
            \/ \E sp \in {"new", "old"} : Allocate(sp)
            \/ CollectGarbage /\ rounds = 0
            \/ \E h \in Handles : ColourHandle(h)
            \/ HandlesColoured \/ ScanWord \/ ProcessGrey \/ GreyEmpty
            \/ UNCHANGED vars
<1>0. rounds \in Nat
  BY CollectionsAssumption DEF Inv, TypeOK
<1>1. CASE \/ \E i \in 1..StackSize, x \in {Nil, Null} : DropRoot(i, x)
           \/ \E t \in {"NewSpace", "OldSpace"} : SetNeedsGC(t)
           \/ \E sp \in {"new", "old"} : Allocate(sp)
           \/ UNCHANGED vars
  <2>1. rounds' = rounds /\ (phase' = phase)
    BY <1>1 DEF DropRoot, SetNeedsGC, Allocate, history, vars
  <2> QED BY <1>1, <2>1 DEF Early, Marking
<1>2. CASE CollectGarbage
  <2>1. rounds' = rounds + 1
    BY <1>2 DEF CollectGarbage
  <2>2. rounds = 0
    BY <1>0, <2>1 DEF Early
  <2> QED BY <1>2, <2>2 DEF Early
<1>3. CASE Collection
  <2>1. /\ rounds' = rounds /\ phase # "idle"
        /\ \/ \E h \in Handles : ColourHandle(h)
           \/ HandlesColoured \/ ScanWord \/ ProcessGrey \/ GreyEmpty
           \/ ~Marking'
    <3>1. CASE ProcessGrey
      BY <3>1, MarkingStays DEF MarkingStep
    <3>2. CASE ~ProcessGrey
      BY <1>3, <3>2 DEF Collection, ColourHandle,
         HandlesColoured, ScanWord, ScanStray, StackScanned, GreyEmpty, DrainBlack, RelocateWeakHandles,
         HandleWeakRef, WeakRefsHandled, Swap, history, Marking
    <3> QED BY <3>1, <3>2
  <2>2. rounds # 0
    BY <2>1 DEF EarlyInv
  <2>3. Marking' /\ rounds = 1
    BY <2>1, <2>2 DEF Early
  <2>4. Marking
    BY <2>1, <2>3 DEF Marking, ColourHandle, HandlesColoured, ScanWord, ProcessGrey,
       SkipUnboxed, ReadUnmapped, MarkSoft, SkipMarked, Evacuate, Take, GreyEmpty
  <2> QED BY <2>1, <2>3, <2>4 DEF Early
<1> QED BY <1>1, <1>2, <1>3 DEF Next

\* What they write to fields and handles are objects.
LEMMA StepEarly ==
  ASSUME Inv, CopyInv, GraphInv, EarlyInv, [Next]_vars
  PROVE  EarlyInv'
<1>0. rounds \in Nat /\ mem \in [Slots -> Address]
  BY CollectionsAssumption DEF Inv, TypeOK
<1>1. rounds' = 0 => phase' = "idle" /\ grey' = <<>> /\ \A c \in Cells : origin'[c] = c
  <2> SUFFICES ASSUME rounds' = 0
               PROVE  phase' = "idle" /\ grey' = <<>> /\ \A c \in Cells : origin'[c] = c
    OBVIOUS
  <2>1. rounds = 0 /\ phase = "idle" /\ grey = <<>> /\ \A c \in Cells : origin[c] = c
    <3>1. CASE CollectGarbage
      BY <1>0, <3>1 DEF CollectGarbage
    <3>2. CASE ~CollectGarbage
      BY <3>2, MarkingStays DEF EarlyInv, Next, Collection, MarkingStep, DropRoot, SetNeedsGC,
         Allocate, RelocateWeakHandles, HandleWeakRef, WeakRefsHandled, Swap, vars, history
    <3> QED BY <3>1, <3>2
  <2>2. origin' = origin
    BY <2>1, CellsStay DEF Evacuate, Take
  <2> QED BY <1>0, <2>1, <2>2, EarlySteps DEF Early, DropRoot, SetNeedsGC, Allocate, CollectGarbage,
          ColourHandle, HandlesColoured, ScanWord, ProcessGrey, SkipUnboxed, ReadUnmapped,
          MarkSoft, SkipMarked, Evacuate, Take, GreyEmpty, queues, vars
<1>2. ASSUME Early'
      PROVE  /\ \A c \in Cells : loc'[c] # "free" => tag'[c] = tag'[origin'[c]]
             /\ FieldsHold'
  <2>1. /\ \A c \in Cells : loc[c] # "free" => tag[c] = tag[origin[c]]
        /\ FieldsHold
    BY <1>2, EarlySteps DEF EarlyInv
  <2>2. ASSUME NEW v, Evacuate(v)
        PROVE  /\ \A c \in Cells : loc'[c] # "free" => tag'[c] = tag'[origin'[c]]
               /\ FieldsHold'
    <3>1. PICK c \in Cells :
            /\ loc[c] = "free" /\ c # v
            /\ loc'[c] # "free" /\ loc'[c] # "gone" /\ \A d \in Cells \ {c} : loc'[d] = loc[d]
            /\ tag'[c] = tag[v] /\ \A d \in Cells \ {c} : tag'[d] = tag[d]
            /\ origin'[c] = origin[v] /\ \A d \in Cells \ {c} : origin'[d] = origin[d]
            /\ mem' = [mem EXCEPT ![Field(c, 1)] = mem[Field(v, 1)],
                                  ![Field(c, 2)] = mem[Field(v, 2)], ![Head(grey).slot] = c]
      BY <2>2, CopyMakes
    <3>2. v \in Cells /\ loc[v] # "free"
      BY <2>2, Evacuated DEF Readable
    <3>3. \A d \in Cells : loc[d] # "free" => /\ origin[d] \in Cells /\ loc[origin[d]] # "free"
                                             /\ origin[d] # c
      BY <3>1, ObjectsAssumption DEF GraphInv, OriginInv, Cells
    <3>4. ASSUME NEW d \in Cells, loc'[d] # "free" PROVE tag'[d] = tag'[origin'[d]]
      <4>1. CASE d = c
        <5>1. origin'[d] = origin[v] /\ origin[v] \in Cells \ {c} /\ tag'[d] = tag[v]
          BY <3>1, <3>2, <3>3, <4>1
        <5> QED BY <2>1, <3>1, <3>2, <5>1
      <4>2. CASE d # c
        <5>1. loc[d] # "free" /\ origin'[d] = origin[d] /\ origin[d] \in Cells \ {c} /\ tag'[d] = tag[d]
          BY <3>1, <3>3, <3>4, <4>2
        <5> QED BY <2>1, <3>1, <5>1
      <4> QED BY <4>1, <4>2
    <3>5. ASSUME NEW s \in Slots
          PROVE  /\ s[1] = "field" => mem'[s] \in Cells \cup {Nil}
                 /\ s[1] = "value" => mem'[s] \in Cells \cup {Nil, HNil}
      <4>1. /\ mem[Field(v, 1)] \in Cells \cup {Nil} /\ mem[Field(v, 2)] \in Cells \cup {Nil}
            /\ s[1] = "field" => mem[s] \in Cells \cup {Nil}
            /\ s[1] = "value" => mem[s] \in Cells \cup {Nil, HNil}
        <5>1. /\ Field(v, 1) \in Slots /\ Field(v, 2) \in Slots
              /\ Field(v, 1)[1] = "field" /\ Field(v, 2)[1] = "field"
          BY <3>2, SlotMembers DEF Fields, Field
        <5> QED BY <2>1, <3>5, <5>1 DEF FieldsHold
      <4> QED BY <1>0, <3>1, <4>1
    <3> QED BY <3>4, <3>5 DEF FieldsHold
  <2>3. CASE \A v : ~Evacuate(v)
    <3>1. UNCHANGED <<tag, gen, origin>> /\ loc' = loc
      <4>1. ~Swap
        BY <1>2 DEF Swap, Early, Marking, EarlyInv, history
      <4> QED BY <2>3, <4>1, CellsStay
    <3>2. \A s \in Slots : s[1] \in {"field", "value"} => mem'[s] = mem[s]
      <4>1. CASE \E i \in 1..StackSize, x \in {Nil, Null} : DropRoot(i, x)
        BY <1>0, <4>1 DEF DropRoot, StackSlot
      <4>2. CASE ProcessGrey
        BY <2>3, <4>2 DEF ProcessGrey, SkipUnboxed, ReadUnmapped, MarkSoft, SkipMarked
      <4>3. CASE \/ \E t \in {"NewSpace", "OldSpace"} : SetNeedsGC(t)
                 \/ \E sp \in {"new", "old"} : Allocate(sp)
                 \/ CollectGarbage
                 \/ \E h \in Handles : ColourHandle(h)
                 \/ HandlesColoured \/ ScanWord \/ GreyEmpty
                 \/ UNCHANGED vars
        BY <4>3 DEF SetNeedsGC, Allocate, CollectGarbage, ColourHandle, HandlesColoured, ScanWord,
           GreyEmpty, vars
      <4> QED BY <1>2, <4>1, <4>2, <4>3, EarlySteps
    <3> QED BY <2>1, <3>1, <3>2 DEF FieldsHold
  <2> QED BY <2>2, <2>3
<1> QED BY <1>1, <1>2 DEF EarlyInv

\* A first collection of the old space that is marking.
OldRound == rounds = 1 /\ Marking /\ gcType = "OldSpace"

\* An item is taken whose object is left where it is.
LEMMA LeaveForest ==
  ASSUME Inv, CopyInv, GraphInv, SeenInv, ForestInv, OldRound, NEW v, Take(v),
         UNCHANGED <<tag, gen, loc, origin, mem, fresh, phase>>,
         \A c \in Cells : soft[c] => soft'[c],
         v \in {Nil, HNil} \/ (v \in Cells /\ soft'[v]),
         \A y \in ItemsOf(grey) : y.slot \in seen' \/ y \in ItemsOf(grey'),
         \A y \in ItemsOf(grey') :
           y \in ItemsOf(grey) \/ (y.value \in Cells \cup {Nil} /\ y.slot[1] = "field"),
         \A c \in Cells : soft'[c] /\ ~soft[c] => Followed(c)'
  PROVE  ForestInv'
<1>1. /\ phase = "grey" /\ seen' = seen \cup {Head(grey).slot}
      /\ Head(grey) \in ItemsOf(grey) /\ v = Head(grey).value
  BY TakenCopies DEF Take
<1>2. GensAgree /\ ItemsHeld /\ SlotsFollowed /\ CellsFollowed /\ Ascending
  BY DEF ForestInv, OldRound
<1>3. GensAgree' /\ QueueDone' /\ Ascending'
  BY <1>1, <1>2 DEF GensAgree, QueueDone, Ascending
<1>4. ItemsHeld'
  BY <1>2 DEF ItemsHeld, Held
<1>5. SlotsFollowed'
  <2>1. fresh \subseteq Cells
    BY DEF Inv, TypeOK
  <2>2. ASSUME Head(grey).slot[1] # "reference"
        PROVE  \/ mem[Head(grey).slot] = Nil /\ Head(grey).slot[1] # "stack"
               \/ mem[Head(grey).slot] = HNil /\ Head(grey).slot[1] = "value"
               \/ /\ mem[Head(grey).slot] \in Cells
                  /\ mem[Head(grey).slot] \in fresh \/ soft'[mem[Head(grey).slot]]
    <3>1. mem[Head(grey).slot] = v \/ mem[Head(grey).slot] \in fresh
      BY <2>2, HeadDealt
    <3>2. /\ v = Nil => Head(grey).slot[1] # "stack"
          /\ v = HNil => Head(grey).slot[1] = "value"
      BY <1>1, <1>2, <2>2 DEF ItemsHeld, Held, Nil, HNil, Cells
    <3> QED BY <2>1, <3>1, <3>2
  <2> QED BY <1>1, <1>2, <2>2 DEF SlotsFollowed
<1>6. CellsFollowed'
  <2> SUFFICES ASSUME NEW c \in Cells, c \in fresh \/ soft'[c] PROVE Followed(c)'
    BY DEF CellsFollowed
  <2>1. c \in fresh \/ soft[c] => Followed(c)
    BY <1>2 DEF CellsFollowed
  <2>2. Followed(c) => Followed(c)'
    BY <1>1, FollowedStays
  <2> QED BY <2>1, <2>2
<1> QED BY <1>3, <1>4, <1>5, <1>6 DEF ForestInv

\* A copy is a new tree's root, or hangs from the copy whose field it is written to.
LEMMA CopyForest ==
  ASSUME Inv, CopyInv, GraphInv, SeenInv, AllocInv, EarlyInv, ForestInv, OldRound,
         NEW v, Evacuate(v), Marking'
  PROVE  ForestInv'
<1> DEFINE h == Head(grey).slot
<1>1. /\ phase = "grey" /\ seen' = seen \cup {h} /\ v \in Cells /\ loc[v] # "free" /\ Take(v)
      /\ UNCHANGED gcType /\ Current(v) /\ ~soft[v] /\ phase' = phase /\ soft' = soft
      /\ v \notin fresh
  BY Evacuated, TakenCopies DEF Take, Readable, CopyTo, Marking
<1>2. PICK c \in Cells :
        /\ loc[c] = "free" /\ c # v
        /\ loc'[c] # "free" /\ \A d \in Cells \ {c} : loc'[d] = loc[d]
        /\ gen'[c] = gen'[v] /\ gen'[v] = Older(gen[v])
        /\ \A d \in Cells \ {c, v} : gen'[d] = gen[d]
        /\ tag'[c] = tag[v] /\ \A d \in Cells \ {c} : tag'[d] = tag[d]
        /\ origin'[c] = origin[v] /\ \A d \in Cells \ {c} : origin'[d] = origin[d]
        /\ fresh' = fresh \cup {c}
        /\ mem' = [mem EXCEPT ![Field(c, 1)] = mem[Field(v, 1)],
                              ![Field(c, 2)] = mem[Field(v, 2)], ![h] = c]
        /\ VisitValue(c, v)
  BY CopyMakes
<1>3. GensAgree /\ ItemsHeld /\ SlotsFollowed /\ CellsFollowed /\ Ascending
  BY DEF ForestInv, OldRound
<1>4. /\ mem \in [Slots -> Address] /\ gen \in [Cells -> 0..MinOldGen] /\ MinOldGen \in Nat
      /\ fresh \subseteq Cells /\ seen \subseteq Slots
  BY GenAssumption DEF Inv, TypeOK
<1>5. /\ h \in Slots /\ h[1] # "weak"
      /\ h[1] = "field" => h[2] \in Cells /\ h[2] # c
  BY <1>1, <1>2, HeadDealt
<1> HIDE DEF h
<1>6. GensAgree'
  <2>1. gen'[v] = gen[v]
    BY <1>1, <1>2, <1>4 DEF Older, Current, OldRound
  <2>2. \A d \in Cells \ {c} : gen'[d] = gen[d]
    BY <1>2, <2>1
  <2>3. \A d \in Cells : loc[d] # "free" => origin[d] \in Cells \ {c}
    BY <1>2, ObjectsAssumption DEF GraphInv, OriginInv, Cells
  <2> SUFFICES ASSUME NEW d \in Cells, loc'[d] # "free" PROVE gen'[d] = gen'[origin'[d]]
    BY DEF GensAgree
  <2>4. CASE d = c
    <3>1. gen'[d] = gen[v] /\ origin'[d] = origin[v] /\ origin[v] \in Cells \ {c}
      BY <1>1, <1>2, <2>1, <2>3, <2>4
    <3> QED BY <1>1, <1>3, <2>2, <3>1 DEF GensAgree
  <2>5. CASE d # c
    <3>1. loc[d] # "free" /\ gen'[d] = gen[d] /\ origin'[d] = origin[d] /\ origin[d] \in Cells \ {c}
      BY <1>2, <2>2, <2>3, <2>5
    <3> QED BY <1>3, <2>2, <3>1 DEF GensAgree
  <2> QED BY <2>4, <2>5
<1>7. ASSUME NEW s \in Slots, s # h, s # Field(c, 1), s # Field(c, 2) PROVE mem'[s] = mem[s]
  BY <1>2, <1>4, <1>7
<1>8. /\ mem'[h] = c
      /\ \A i \in Fields : /\ mem'[Field(c, i)] = mem[Field(v, i)]
                           /\ Field(v, i) \in Slots /\ Field(v, i)[1] = "field"
                           /\ mem[Field(v, i)] \in Cells \cup {Nil}
  <2>1. /\ Field(c, 1) \in Slots /\ Field(c, 2) \in Slots /\ Field(c, 1) # Field(c, 2)
        /\ Field(c, 1) # h /\ Field(c, 2) # h
    BY <1>5, SlotMembers DEF Fields, Field
  <2>2. \A i \in Fields : Field(v, i) \in Slots /\ Field(v, i)[1] = "field"
    BY <1>1, SlotMembers DEF Field
  <2>3. \A i \in Fields : mem[Field(v, i)] \in Cells \cup {Nil}
    BY <2>2 DEF EarlyInv, FieldsHold, Early, OldRound
  <2> QED BY <1>2, <1>4, <1>5, <2>1, <2>2, <2>3 DEF Fields
<1>9. ItemsHeld'
  <2> SUFFICES ASSUME NEW x \in ItemsOf(grey')
               PROVE  Held(x)
    BY DEF ItemsHeld
  <2>1. x \in ItemsOf(grey) \/ \E i \in Fields : x = Item(mem[Field(v, i)], Field(c, i))
    BY <1>1, <1>2, ItemsAfterVisit DEF Inv
  <2>2. ASSUME NEW i \in Fields, x = Item(mem[Field(v, i)], Field(c, i))
        PROVE  Held(x)
    <3>1. x.value = mem[Field(v, i)] /\ x.slot[1] = "field"
      BY <2>2 DEF Item, Field
    <3> QED BY <1>8, <3>1 DEF Held
  <2> QED BY <1>3, <2>1, <2>2 DEF ItemsHeld
<1>10. SlotsFollowed'
  <2> SUFFICES ASSUME NEW s \in seen', s[1] # "reference"
               PROVE  \/ mem'[s] = Nil /\ s[1] # "stack"
                      \/ mem'[s] = HNil /\ s[1] = "value"
                      \/ mem'[s] \in Cells /\ (mem'[s] \in fresh' \/ soft'[mem'[s]])
    BY DEF SlotsFollowed
  <2>1. CASE s = h
    BY <1>2, <1>8, <2>1
  <2>2. CASE s # h
    <3>1. s \in seen /\ s \in Slots /\ Dealt(s)
      BY <1>1, <1>4, <2>2 DEF SeenInv, Active
    <3>2. s # Field(c, 1) /\ s # Field(c, 2)
      BY <1>2, <3>1 DEF Dealt, Field
    <3>3. mem'[s] = mem[s]
      BY <1>7, <2>2, <3>1, <3>2
    <3> QED BY <1>1, <1>2, <1>3, <3>1, <3>3 DEF SlotsFollowed
  <2> QED BY <2>1, <2>2
<1>11. CellsFollowed'
  <2> SUFFICES ASSUME NEW d \in Cells, d \in fresh' \/ soft'[d] PROVE Followed(d)'
    BY DEF CellsFollowed
  <2>1. /\ \A y \in ItemsOf(grey) : y.slot \in seen' \/ y \in ItemsOf(grey')
        /\ \A i \in Strong(tag[v]) :
             mem[Field(v, i)] = Nil \/ \E y \in ItemsOf(grey') : y.slot = Field(c, i)
    BY <1>1, <1>2, VisitFollows DEF Inv
  <2>2. CASE d = c
    <3>1. \A i \in Strong(tag'[c]) :
            mem'[Field(c, i)] = Nil \/ \E y \in ItemsOf(grey') : y.slot = Field(c, i)
      BY <1>2, <1>8, <2>1, StrongFields
    <3> QED BY <2>2, <3>1 DEF Followed
  <2>3. CASE d # c
    <3>1. Followed(d) /\ tag'[d] = tag[d] /\ seen \subseteq seen'
      BY <1>1, <1>2, <1>3, <2>3 DEF CellsFollowed
    <3>2. \A i \in Fields : mem'[Field(d, i)] = mem[Field(d, i)] \/ Field(d, i) \in seen'
      <4>1. \A i \in Fields : Field(d, i) \in Slots /\ Field(d, i) # Field(c, 1) /\ Field(d, i) # Field(c, 2)
        BY <2>3, SlotMembers DEF Field
      <4> QED BY <1>1, <1>7, <4>1
    <3> QED BY <2>1, <3>1, <3>2, FollowedStays
  <2> QED BY <2>2, <2>3
<1>12. Ascending'
  <2> SUFFICES ASSUME NEW d \in fresh', NEW i \in Fields, mem'[Field(d, i)] \in fresh'
               PROVE  mem'[Field(d, i)] > d
    BY DEF Ascending
  <2>1. CASE d = c
    <3>1. mem[Field(v, i)] \notin fresh
      BY <1>1, <1>4 DEF CopyInv, ReachInv, OldRound
    <3>2. mem[Field(v, i)] # c
      BY <1>2, <1>8 DEF CopyInv, PointInv
    <3>3. mem'[Field(d, i)] = mem[Field(v, i)]
      BY <1>8, <2>1
    <3> QED BY <1>2, <3>1, <3>2, <3>3
  <2>2. CASE d # c
    <3>1. d \in fresh /\ Field(d, i) \in Slots
      BY <1>2, <1>4, <2>2, SlotMembers
    <3>2. CASE Field(d, i) = h
      <4>1. h[1] = "field" /\ h[2] = d /\ loc[d] # "free"
        <5>1. h[1] = "field" /\ h[2] = d
          BY <3>2 DEF Field
        <5> QED BY <1>1, <5>1, HeadDealt DEF h
      <4>2. ~(c < d)
        BY <1>2, <1>4, <3>1, <4>1 DEF AllocInv
      <4>3. mem'[Field(d, i)] = c /\ d # c
        BY <1>8, <2>2, <3>2
      <4>4. c \in Int /\ d \in Int
        BY <1>2, <1>4, <2>2, ObjectsAssumption DEF Cells, Inv, TypeOK
      <4> QED BY <4>2, <4>3, <4>4
    <3>3. CASE Field(d, i) # h
      <4>1. mem'[Field(d, i)] = mem[Field(d, i)]
        BY <1>7, <2>2, <3>1, <3>3 DEF Field
      <4>2. mem[Field(d, i)] # c
        BY <1>2, <3>1 DEF CopyInv, PointInv
      <4> QED BY <1>2, <1>3, <3>1, <4>1, <4>2 DEF Ascending
    <3> QED BY <3>2, <3>3
  <2> QED BY <2>1, <2>2
<1> QED BY <1>1, <1>6, <1>9, <1>10, <1>11, <1>12 DEF ForestInv, QueueDone

LEMMA ProcessGreyForest ==
  ASSUME Inv, CopyInv, GraphInv, SeenInv, AllocInv, EarlyInv, ForestInv, OldRound, ProcessGrey,
         Marking'
  PROVE  ForestInv'
<1>0. ItemsHeld /\ CellsFollowed
  BY DEF ForestInv, OldRound
<1>1. ASSUME NEW v \in {Nil, HNil}, SkipUnboxed(v) PROVE ForestInv'
  <2>1. /\ Take(v) /\ grey' = Tail(grey)
        /\ UNCHANGED <<tag, gen, loc, origin, mem, fresh, phase, soft>>
    BY <1>1 DEF SkipUnboxed, headers, copies
  <2> QED BY <2>1, TakenLosesNone, LeaveForest DEF Inv
<1>2. ASSUME NEW v, ReadUnmapped(v) PROVE ForestInv'
  BY <1>2 DEF ReadUnmapped, Marking
<1>3. ASSUME NEW v, MarkSoft(v) PROVE ForestInv'
  <2>1. /\ v \in Cells /\ Take(v) /\ VisitValue(v, v)
        /\ UNCHANGED <<tag, gen, loc, origin, mem, fresh, phase>>
        /\ soft' = [soft EXCEPT ![v] = TRUE] /\ soft \in [Cells -> BOOLEAN]
    BY <1>3 DEF MarkSoft, Readable, copies, Inv, TypeOK
  <2>2. /\ \A y \in ItemsOf(grey) : y.slot \in seen' \/ y \in ItemsOf(grey')
        /\ \A i \in Strong(tag[v]) :
             mem[Field(v, i)] = Nil \/ \E y \in ItemsOf(grey') : y.slot = Field(v, i)
    BY <2>1, VisitFollows DEF Inv
  <2>3. Followed(v)'
    BY <2>1, <2>2 DEF Followed
  <2>4. ASSUME NEW y \in ItemsOf(grey')
        PROVE  y \in ItemsOf(grey) \/ (y.value \in Cells \cup {Nil} /\ y.slot[1] = "field")
    <3>1. ASSUME NEW i \in Fields, y = Item(mem[Field(v, i)], Field(v, i))
          PROVE  y.value \in Cells \cup {Nil} /\ y.slot[1] = "field"
      <4>1. y.value = mem[Field(v, i)] /\ y.slot = Field(v, i) /\ Field(v, i)[1] = "field"
        BY <3>1 DEF Item, Field
      <4>2. mem[Field(v, i)] \in Cells \cup {Nil}
        BY <2>1, <4>1, SlotMembers DEF EarlyInv, FieldsHold, Early, OldRound
      <4> QED BY <4>1, <4>2
    <3> QED BY <2>1, <3>1, ItemsAfterVisit DEF Inv
  <2>5. \A c \in Cells : (soft[c] => soft'[c]) /\ (soft'[c] /\ ~soft[c] => Followed(c)')
    <3>1. \A c \in Cells : soft'[c] /\ ~soft[c] => c = v
      BY <2>1
    <3>2. ASSUME NEW c, c = v PROVE Followed(c)'
      BY <2>3, <3>2
    <3> QED BY <2>1, <3>1, <3>2
  <2> QED BY <2>1, <2>2, <2>4, <2>5, LeaveForest
<1>4. ASSUME NEW v, SkipMarked(v) PROVE ForestInv'
  <2>1. /\ v \in Cells /\ Take(v) /\ grey' = Tail(grey) /\ soft[v]
        /\ UNCHANGED <<tag, gen, loc, origin, mem, fresh, phase, soft>>
    BY <1>4 DEF SkipMarked, Readable, headers, copies
  <2> QED BY <2>1, TakenLosesNone, LeaveForest DEF Inv
<1>5. ASSUME NEW v, Evacuate(v) PROVE ForestInv'
  BY <1>5, CopyForest
<1> QED BY <1>1, <1>2, <1>3, <1>4, <1>5 DEF ProcessGrey

\* Steps that only queue roots.
LEMMA RootsForest ==
  ASSUME Inv, CopyInv, ForestInv, OldRound,
         UNCHANGED <<tag, gen, loc, origin, mem, fresh, soft, seen>>,
         QueueDone',
         \A y \in ItemsOf(grey) : y \in ItemsOf(grey'),
         \A y \in ItemsOf(grey') :
           y \in ItemsOf(grey) \/ Held(y)
  PROVE  ForestInv'
<1>1. GensAgree /\ ItemsHeld /\ SlotsFollowed /\ CellsFollowed /\ Ascending
  BY DEF ForestInv, OldRound
<1>2. CellsFollowed'
  BY <1>1, FollowedStays DEF CellsFollowed
<1> QED BY <1>1, <1>2 DEF ForestInv, GensAgree, ItemsHeld, SlotsFollowed, Ascending

\* Nothing is marked or copied yet when the first collection begins.
LEMMA EntryForest ==
  ASSUME Inv, CopyInv, GraphInv, EarlyInv, CollectGarbage, rounds = 0
  PROVE  ForestInv'
<1>1. /\ seen' = {} /\ grey' = <<>> /\ UNCHANGED <<gen, loc, soft, origin, fresh>>
  BY DEF CollectGarbage, EarlyInv, headers, queues, copies
<1>2. fresh = {} /\ \A c \in Cells : ~soft[c] /\ origin[c] = c
  BY Unmarked DEF EarlyInv, CopyInv, FreshInv, Inv, MarkInv
<1>3. ItemsOf(<<>>) = {}
  BY DEF ItemsOf
<1> QED BY <1>1, <1>2, <1>3
        DEF ForestInv, GensAgree, ItemsHeld, QueueDone, SlotsFollowed, CellsFollowed, Ascending

LEMMA StepForest ==
  ASSUME Inv, CopyInv, GraphInv, SeenInv, AllocInv, EarlyInv, ForestInv, [Next]_vars
  PROVE  ForestInv'
<1> SUFFICES ASSUME rounds' = 1, Marking', gcType' = "OldSpace" PROVE ForestInv'
  BY DEF ForestInv
<1>1. Early'
  BY DEF Early
<1>2. CASE CollectGarbage /\ rounds = 0
  BY <1>2, EntryForest
<1>3. CASE UNCHANGED vars
  <2>1. UNCHANGED <<tag, gen, loc, origin, mem, fresh, soft, seen, grey, phase, gcType, rounds>>
    BY <1>3 DEF vars, headers, queues, history, copies
  <2>2. OldRound
    BY <2>1 DEF OldRound, Marking
  <2>3. QueueDone'
    BY <2>1, <2>2 DEF ForestInv, OldRound, QueueDone
  <2> QED BY <2>1, <2>2, <2>3, RootsForest
<1>4. CASE (\E i \in 1..StackSize, x \in {Nil, Null} : DropRoot(i, x))
             \/ (\E t \in {"NewSpace", "OldSpace"} : SetNeedsGC(t))
             \/ \E sp \in {"new", "old"} : Allocate(sp)
  BY <1>4 DEF DropRoot, SetNeedsGC, Allocate, Program, Marking
<1>5. CASE \/ \E h \in Handles : ColourHandle(h)
           \/ HandlesColoured \/ ScanWord \/ ProcessGrey \/ GreyEmpty
  <2>0. OldRound
    <3>1. gcType' = gcType /\ rounds' = rounds
      BY <1>5, MarkingStays DEF MarkingStep
    <3>2. Marking
      BY <1>5 DEF Marking, ColourHandle, HandlesColoured, ScanWord, ProcessGrey,
         SkipUnboxed, ReadUnmapped, MarkSoft, SkipMarked, Evacuate, Take, GreyEmpty
    <3> QED BY <3>1, <3>2 DEF OldRound
  <2>00. QueueDone
    BY <2>0 DEF ForestInv, OldRound
  <2>1. CASE ProcessGrey
    BY <2>0, <2>1, ProcessGreyForest
  <2>2. CASE HandlesColoured \/ GreyEmpty
    <3>1. /\ UNCHANGED <<tag, gen, loc, origin, mem, fresh, soft, seen, grey>>
          /\ phase' = "scan" /\ (phase = "handles" \/ grey = <<>>)
      BY <2>2 DEF HandlesColoured, GreyEmpty, headers, queues, history, copies
    <3>2. QueueDone'
      BY <2>00, <3>1 DEF QueueDone
    <3> QED BY <2>0, <3>1, <3>2, RootsForest
  <2>3. CASE ScanWord
    <3> DEFINE x == Item(mem[StackSlot(frame)], StackSlot(frame))
    <3>1. /\ UNCHANGED <<tag, gen, loc, origin, mem, fresh, soft, seen>>
          /\ phase = "scan" /\ frame \in 1..StackSize
          /\ \/ grey' = grey /\ phase' = "scan"
             \/ phase' = "grey" /\ mem[StackSlot(frame)] \in Cells /\ grey' = Append(grey, x)
      BY <2>3, RootsAssumption
         DEF ScanWord, EndOfStack, InHeap, headers, history, copies, Inv, TypeOK
    <3>2. x \in Items /\ x.value = mem[StackSlot(frame)] /\ grey \in Seq(Items)
      BY <3>1, SlotMembers DEF Items, Item, Inv, TypeOK
    <3> HIDE DEF x
    <3>20. <<x>> \in Seq(Items) /\ Append(grey, x) = grey \o <<x>>
      BY <3>2
    <3>3. \A y \in ItemsOf(grey) : y \in ItemsOf(Append(grey, x))
      BY <3>2, <3>20, ItemsOfBoth
    <3>4. \A y \in ItemsOf(Append(grey, x)) : y \in ItemsOf(grey) \/ y = x
      BY <3>2, ItemsOfAppend
    <3>5. QueueDone'
      BY <2>00, <3>1 DEF QueueDone
    <3>6. CASE grey' = grey
      BY <2>0, <3>1, <3>5, <3>6, RootsForest
    <3>7. CASE grey' = Append(grey, x) /\ mem[StackSlot(frame)] \in Cells
      BY <2>0, <3>1, <3>2, <3>3, <3>4, <3>5, <3>7, RootsForest DEF Held
    <3> QED BY <3>1, <3>6, <3>7
  <2>4. ASSUME NEW h \in Handles, ColourHandle(h) PROVE ForestInv'
    <3> DEFINE x == Item(mem[ValuePtr(h)], Reference(h))
               y == Item(mem[ValuePtr(h)], ValuePtr(h))
    <3>1. /\ UNCHANGED <<tag, gen, loc, origin, mem, fresh, soft, seen, phase>>
          /\ phase = "handles" /\ grey' = grey \o <<x, y>> /\ grey \in Seq(Items)
      BY <2>4 DEF ColourHandle, headers, history, copies, Inv, TypeOK
    <3>2. mem[ValuePtr(h)] \in Cells \cup {Nil, HNil}
      BY <2>0, SlotMembers DEF EarlyInv, FieldsHold, Early, OldRound, ValuePtr
    <3>3. /\ x \in Items /\ y \in Items
          /\ x.value = mem[ValuePtr(h)] /\ y.value = mem[ValuePtr(h)]
          /\ x.slot[1] = "reference" /\ y.slot[1] = "value"
      BY SlotMembers DEF Items, Item, Inv, TypeOK, Reference, ValuePtr
    <3> HIDE DEF x, y
    <3>4. <<x, y>> \in Seq(Items) /\ \A z \in ItemsOf(<<x, y>>) : z = x \/ z = y
      BY <3>3 DEF ItemsOf
    <3>5. /\ \A z \in ItemsOf(grey) : z \in ItemsOf(grey')
          /\ \A z \in ItemsOf(grey') : z \in ItemsOf(grey) \/ z = x \/ z = y
      BY <3>1, <3>4, ItemsOfBoth, ItemsOfConcat
    <3>6. QueueDone'
      <4>1. seen = {}
        BY <2>00, <3>1 DEF QueueDone
      <4> QED BY <3>1, <4>1 DEF QueueDone
    <3> QED BY <2>0, <3>1, <3>2, <3>3, <3>5, <3>6, RootsForest DEF Held
  <2> QED BY <1>5, <2>1, <2>2, <2>3, <2>4
<1> QED BY <1>1, <1>2, <1>3, <1>4, <1>5, EarlySteps

\* What the collection has marked or copied.
Reached == {c \in Cells : loc[c] # "free" /\ (c \in fresh \/ soft[c])}

\* With the queue empty, what is reached is followed to the end.
LEMMA ReachedIsClosed ==
  ASSUME Inv, CopyInv, GraphInv, EarlyInv, ForestInv, OldRound, grey = <<>>,
         NEW w \in Reached, NEW i \in Strong(tag[origin[w]]), NEW p \in 1..Objects,
         start[Field(origin[w], i)] = p
  PROVE  mem[Field(w, i)] \in Reached /\ origin[mem[Field(w, i)]] = p
<1>1. /\ w \in Cells /\ loc[w] # "free" /\ tag[w] = tag[origin[w]]
      /\ w \in fresh \/ soft[w]
  BY DEF Reached, EarlyInv, Early, OldRound
<1>2. i \in Fields /\ Field(w, i) \in Slots /\ Field(w, i)[1] = "field"
  BY <1>1, StrongFields, SlotMembers DEF Field
<1>3. Original(mem[Field(w, i)]) = p /\ p # Nil
  BY <1>1, <1>2 DEF GraphInv, GraphHeld, Nil
<1>4. mem[Field(w, i)] # Nil
  BY <1>3 DEF Original, Nil, Cells
<1>5. Field(w, i) \in seen
  <2>1. Followed(w) /\ ItemsOf(grey) = {}
    BY <1>1 DEF ForestInv, OldRound, CellsFollowed, ItemsOf
  <2> QED BY <1>1, <1>4, <2>1 DEF Followed
<1>6. /\ mem[Field(w, i)] \in Cells
      /\ mem[Field(w, i)] \in fresh \/ soft[mem[Field(w, i)]]
  BY <1>2, <1>4, <1>5 DEF ForestInv, OldRound, SlotsFollowed
<1>7. loc[mem[Field(w, i)]] # "free"
  BY <1>2, <1>6 DEF CopyInv, PointInv
<1> QED BY <1>3, <1>6, <1>7 DEF Reached, Original

\* Then no object of a cycle of old objects was reached: of its copies one would be
\* the last, and it refers to a later one.
LEMMA NoCycleReached ==
  ASSUME Inv, CopyInv, GraphInv, EarlyInv, ForestInv, OldRound, grey = <<>>,
         NEW K \in SUBSET (1..Objects), OldCycle(K), NEW w \in Reached
  PROVE  origin[w] \notin K
<1> DEFINE V == {c \in Reached : origin[c] \in K}
<1> SUFFICES ASSUME V # {} PROVE FALSE
  OBVIOUS
<1>1. V \subseteq Cells
  BY DEF Reached
<1>2. \A c \in V : c \in fresh
  <2> SUFFICES ASSUME NEW c \in V PROVE c \in fresh
    OBVIOUS
  <2>1. c \in Reached /\ c \in Cells /\ loc[c] # "free" /\ gen[origin[c]] >= MinOldGen
    BY DEF Reached, OldCycle
  <2>2. gen[c] >= MinOldGen
    BY <2>1 DEF ForestInv, OldRound, GensAgree
  <2>3. Current(c)
    BY <2>2 DEF Current, OldRound
  <2> QED BY <2>1, <2>3 DEF Inv, MarkInv, OldRound, Reached
<1>3. PICK x \in V : \A y \in V : y <= x
  <2> HIDE DEF V
  <2> QED BY <1>1, Greatest
<1>4. x \in Reached /\ origin[x] \in K
  OBVIOUS
<1>5. PICK p \in K : Edge(origin[x], p)
  BY <1>4 DEF OldCycle
<1>6. PICK i \in Strong(tag[origin[x]]) : start[Field(origin[x], i)] = p
  BY <1>5 DEF Edge
<1>7. mem[Field(x, i)] \in V
  BY <1>4, <1>6, ReachedIsClosed
<1>8. mem[Field(x, i)] > x
  BY <1>2, <1>6, <1>7, StrongFields DEF ForestInv, OldRound, Ascending
<1>9. x \in Int /\ mem[Field(x, i)] \in Int
  BY <1>1, <1>7 DEF Cells
<1> HIDE DEF V
<1> QED BY <1>3, <1>7, <1>8, <1>9

\* The roots are done with.
LEMMA RootsAvoidCycles ==
  ASSUME Inv, CopyInv, GraphInv, EarlyInv, ForestInv, OldRound, phase = "scan",
         NEW i \in 1..StackSize, StackSlot(i) \in seen
  PROVE  ~ReachesOldCycle(start[StackSlot(i)])
<1> DEFINE o == start[StackSlot(i)]
           S == {origin[c] : c \in Reached}
<1>1. grey = <<>>
  BY DEF ForestInv, OldRound, QueueDone
<1>2. /\ StackSlot(i) \in Slots /\ StackSlot(i)[1] = "stack"
      /\ mem[StackSlot(i)] \in Cells
      /\ mem[StackSlot(i)] \in fresh \/ soft[mem[StackSlot(i)]]
  BY SlotMembers DEF ForestInv, OldRound, SlotsFollowed, StackSlot
<1>3. mem[StackSlot(i)] \in Reached /\ origin[mem[StackSlot(i)]] = o
  BY <1>2 DEF CopyInv, PointInv, Reached, GraphInv, GraphHeld, Original
<1>4. o \in S
  BY <1>3
<1>5. S \subseteq 1..Objects
  BY DEF GraphInv, OriginInv, Reached
<1>6. ASSUME NEW x \in S, NEW y \in 1..Objects, Edge(x, y) PROVE y \in S
  <2>1. PICK c \in Reached : x = origin[c]
    OBVIOUS
  <2>2. PICK j \in Strong(tag[x]) : start[Field(x, j)] = y
    BY <1>6 DEF Edge
  <2>3. mem[Field(c, j)] \in Reached /\ origin[mem[Field(c, j)]] = y
    BY <1>1, <2>1, <2>2, ReachedIsClosed
  <2> QED BY <2>3
<1>7. ASSUME NEW K \in SUBSET (1..Objects), OldCycle(K) PROVE S \cap K = {}
  BY <1>1, <1>7, NoCycleReached
<1> HIDE DEF S, o
<1>8. ~ReachesOldCycle(o)
  BY <1>4, <1>5, <1>6, <1>7 DEF ReachesOldCycle
<1> QED BY <1>8 DEF o

\* What an object reaches is history.
LEMMA ReachingStays ==
  ASSUME UNCHANGED <<tag, gen, start>>, NEW o
  PROVE  ReachesOldCycle(o)' <=> ReachesOldCycle(o)
BY DEF ReachesOldCycle, OldCycle, Edge

LEMMA StepOldCycle ==
  ASSUME Inv, CopyInv, GraphInv, CycleInv, [Next]_vars
  PROVE  OldCycleNeverCollected'
<1> SUFFICES ASSUME rounds' = 1, gcType' = "OldSpace", ~Marking', phase' # "wild",
                    NEW i \in 1..StackSize, StackSlot(i) \in seen'
             PROVE  ~ReachesOldCycle(start[StackSlot(i)])'
  BY DEF OldCycleNeverCollected, Marking
<1>1. \A v : ~Evacuate(v)
  <2> SUFFICES ASSUME NEW v, Evacuate(v) PROVE FALSE
    OBVIOUS
  <2>1. phase = "grey" /\ phase' \in {"grey", "wild"}
    BY Evacuated DEF Take, CopyTo
  <2> QED BY <2>1 DEF Marking
<1>2. UNCHANGED <<tag, gen, start>>
  BY <1>1, CellsStay, StartStays
<1>3. CASE Marking
  <2>1. StackScanned
    <3>1. ~UNCHANGED vars
      BY <1>3 DEF vars, Marking
    <3> QED BY <1>1, <1>3, <3>1 DEF Next, Collection, DropRoot, SetNeedsGC, Allocate, Program,
         CollectGarbage, ColourHandle, HandlesColoured, ScanWord, ScanStray, ProcessGrey,
         SkipUnboxed, ReadUnmapped, MarkSoft, SkipMarked, Take, GreyEmpty, DrainBlack,
         RelocateWeakHandles, HandleWeakRef, WeakRefsHandled, Swap, Marking
  <2>2. OldRound
    <3>1. MarkingStep
      BY <2>1 DEF MarkingStep
    <3> QED BY <1>3, <3>1, MarkingStays DEF OldRound
  <2>3. phase = "scan" /\ seen' = seen
    BY <2>1 DEF StackScanned, history
  <2>4. ~ReachesOldCycle(start[StackSlot(i)])
    BY <2>2, <2>3, RootsAvoidCycles DEF CycleInv
  <2> QED BY <1>2, <2>4, ReachingStays
<1>4. CASE ~Marking
  <2>1. UNCHANGED <<rounds, gcType, seen>> /\ phase # "wild"
    <3>1. ~ProcessGrey /\ ~CollectGarbage
      BY <1>4 DEF ProcessGrey, SkipUnboxed, ReadUnmapped, MarkSoft, SkipMarked, Evacuate, Take,
         CollectGarbage, Marking
    <3> QED BY <3>1 DEF Next, Collection, DropRoot, SetNeedsGC, Allocate, Program,
         ColourHandle, HandlesColoured, ScanWord, ScanStray, StackScanned, GreyEmpty, DrainBlack,
         RelocateWeakHandles, HandleWeakRef, WeakRefsHandled, Swap, vars, history
  <2>2. ~ReachesOldCycle(start[StackSlot(i)])
    BY <1>4, <2>1 DEF CycleInv, OldCycleNeverCollected, Marking
  <2> QED BY <1>2, <2>2, ReachingStays
<1> QED BY <1>3, <1>4

LEMMA InitCycle == Init => CycleInv
<1> SUFFICES ASSUME Init PROVE CycleInv
  OBVIOUS
<1>1. rounds = 0 /\ phase = "idle" /\ grey = <<>> /\ origin = [c \in Cells |-> c]
  BY DEF Init
<1>2. loc \in [Cells -> {"free", "new", "old"}]
      /\ \A c \in Cells : loc[c] = "free" <=> c \notin 1..Objects
  BY DEF Init
<1>3. FieldsHold
  <2>1. PICK f \in [1..Objects -> [Fields -> 0..Objects]],
             k \in [1..StackSize -> Junk..Objects],
             r \in [Handles -> 0..Objects], v \in [Handles -> (0..Objects) \cup {HNil}],
             w \in [WeakRefs -> 1..Objects] : mem = Contents(f, k, r, v, w)
    BY DEF Init
  <2>2. ASSUME NEW s \in Slots, s[1] = "field" PROVE mem[s] \in 0..Objects
    <3>1. s[3] \in Fields
      BY <2>2 DEF Slots, Field, StackSlot, Reference, ValuePtr, WeakValue
    <3>2. mem[s] = IF s[2] \in 1..Objects THEN f[s[2]][s[3]] ELSE Nil
      BY <2>1, <2>2 DEF Contents
    <3> QED BY <3>1, <3>2, ObjectsAssumption DEF Nil
  <2>3. ASSUME NEW s \in Slots, s[1] = "value" PROVE mem[s] \in (0..Objects) \cup {HNil}
    <3>1. s[2] \in Handles
      BY <2>3 DEF Slots, Field, StackSlot, Reference, ValuePtr, WeakValue
    <3>2. mem[s] = v[s[2]]
      BY <2>1, <2>3 DEF Contents
    <3> QED BY <3>1, <3>2
  <2>4. 0..Objects \subseteq Cells \cup {Nil}
    BY ObjectsAssumption DEF Cells, Nil
  <2> QED BY <2>2, <2>3, <2>4 DEF FieldsHold
<1>4. AllocInv
  BY <1>2, ObjectsAssumption DEF AllocInv, Cells
<1>5. EarlyInv
  BY <1>1, <1>2, <1>3 DEF EarlyInv
<1> QED BY <1>1, <1>4, <1>5 DEF CycleInv, ForestInv, OldCycleNeverCollected

LEMMA StepCycle == Inv /\ CopyInv /\ GraphInv /\ SeenInv /\ CycleInv /\ [Next]_vars => CycleInv'
BY StepAlloc, StepEarly, StepForest, StepOldCycle DEF CycleInv

\* A first collection of the old space that gets past its roots found no cycle of old
\* objects from any of them: an original is never marked as copied (gc.rs 18, 215-236),
\* so that a cycle is copied for ever.  For any number of objects, roots and generations.
THEOREM OldCyclesAreNotCollected == Spec => []OldCycleNeverCollected
<1>1. CycleInv => OldCycleNeverCollected
  BY DEF CycleInv
<1>2. Init => SeenInv
  BY DEF Init, SeenInv, DanglingOnlyPromoted, Promoted, ItemsOf, Active
<1> QED BY <1>1, <1>2, InitInv, StepInv, InitCopies, StepCopies, InitGraph, StepGraph, StepSeen,
           InitCycle, StepCycle, PTL DEF Spec
----------------------------------------------------------------------------
(***************************************************************************)
(* The refinement: Collector implements HeapGraph.                         *)
(*                                                                         *)
(* The argument: whatever can be read, an original or a copy, has the      *)
(* fields of the object it was copied from, so that what a program finds   *)
(* are always edges between the original objects; only a copy writes       *)
(* roots, and it leaves each of them with the same object, save the locals *)
(* of handles.  AskInv says when collect_garbage may end.                  *)
(***************************************************************************)

\* collect_garbage calls itself unless the request is for the new generation by then.
AskInv ==
  /\ phase # "idle" => gcType \in {"NewSpace", "OldSpace"}
  /\ phase = "begin" => gcType = "NewSpace" /\ needsGC # "NewSpace"
  /\ phase \in {"refs", "swap"} =>
       \A h \in handles : kind[h] = "Weak" => mem[ValuePtr(h)] = Nil

Everything == Inv /\ CopyInv /\ GraphInv /\ AskInv

\* What can be followed is an edge between the objects, and what dangles is a root.
SeenWithin ==
  /\ GraphSeen \subseteq Edges
  /\ Dangling \subseteq Promise!Roots
  /\ ValueSeen = [h \in Handles |-> start[ValuePtr(h)]]

LEMMA SeenEdges == GraphInv => SeenWithin
<1> SUFFICES ASSUME OriginInv, GraphHeld PROVE SeenWithin
  BY DEF GraphInv
<1>1. ValueSeen = [h \in Handles |-> start[ValuePtr(h)]]
  BY DEF ValueSeen, GraphHeld
<1>2. ASSUME NEW c \in Cells, NEW i \in Fields, Readable(c)
      PROVE  <<origin[c], i, Original(mem[Field(c, i)])>> \in Edges
  <2>1. origin[c] \in 1..Objects /\ Original(mem[Field(c, i)]) = start[Field(origin[c], i)]
    BY <1>2 DEF Readable, OriginInv, GraphHeld
  <2> QED BY <2>1 DEF Edges
<1>3. GraphSeen \subseteq Edges
  <2> SUFFICES ASSUME NEW s \in Followable
               PROVE  <<origin[s[1]], s[2], Original(mem[Field(s[1], s[2])])>> \in Edges
    BY DEF GraphSeen
  <2>1. s[1] \in Cells /\ s[2] \in Fields /\ Readable(s[1])
    BY DEF Followable
  <2> QED BY <1>2, <2>1
<1>4. Dangling \subseteq Promise!Roots
  BY DEF Dangling, Promise!Roots, Promise!StackRoot, Slots, StackSlot, Reference, ValuePtr,
         WeakValue, Field
<1> QED BY <1>1, <1>3, <1>4 DEF SeenWithin

LEMMA SeenEdgesNext == GraphInv' => SeenWithin'
BY SeenEdges, PTL

\* A step keeps the edges there are and what the handles designate, and leads to a state
\* in which only edges are followed.
Covered ==
  /\ UNCHANGED <<Edges, ValueSeen>>
  /\ GraphSeen' \subseteq Edges
  /\ Dangling' \subseteq Promise!Roots

LEMMA EdgesStay ==
  ASSUME GraphInv, GraphInv', start' = start
  PROVE  Covered
<1>1. SeenWithin /\ SeenWithin'
  BY SeenEdges, SeenEdgesNext
<1>2. Edges' = Edges
  BY DEF Edges
<1> QED BY <1>1, <1>2 DEF SeenWithin, Covered

\* A word stands for no object exactly if it is no pointer.
LEMMA NilSeen ==
  ASSUME Inv, CopyInv, GraphInv, NEW s \in Slots
  PROVE  /\ Original(mem[s]) = Nil <=> mem[s] = Nil
         /\ Original(mem[s]) \in (1..Objects) \cup {Nil, HNil, Null, Junk}
<1>1. mem[s] \in Address
  BY DEF Inv, TypeOK
<1>2. mem[s] \in Cells => origin[mem[s]] \in 1..Objects
  BY DEF GraphInv, OriginInv, CopyInv, PointInv
<1>3. Nil \notin Cells /\ Nil \notin 1..Objects
  BY ObjectsAssumption DEF Nil, Cells
<1> QED BY <1>1, <1>2, <1>3 DEF Original, Address

----------------------------------------------------------------------------
(***************************************************************************)
(* AskInv.                                                                 *)
(***************************************************************************)

LEMMA StepAsk == Everything /\ [Next]_vars => AskInv'
<1> SUFFICES ASSUME Everything, [Next]_vars PROVE AskInv'
  OBVIOUS
<1> USE DEF Everything, AskInv
<1>1. CASE \/ \E i \in 1..StackSize, x \in {Nil, Null} : DropRoot(i, x)
           \/ \E t \in {"NewSpace", "OldSpace"} : SetNeedsGC(t)
           \/ \E sp \in {"new", "old"} : Allocate(sp)
  BY <1>1 DEF DropRoot, Program, SetNeedsGC, Allocate
<1>2. CASE CollectGarbage
  BY <1>2 DEF CollectGarbage, Inv, TypeOK, GCType
<1>3. CASE MarkingStep
  BY <1>3, MarkingStays
<1>4. CASE RelocateWeakHandles
  <2>1. /\ phase = "weak" /\ UNCHANGED <<kind, gcType, needsGC, mem>>
        /\ phase' = "wild" \/ (phase' = "refs" /\ handles' = handles \ WeakBoxed)
    BY <1>4, WeakHandlesGo DEF RelocateWeakHandles
  <2> QED BY <2>1 DEF WeakBoxed
<1>5. ASSUME NEW w \in WeakRefs, HandleWeakRef(w) PROVE AskInv'
  <2>1. /\ phase = "refs" /\ phase' \in {"refs", "wild"} /\ UNCHANGED <<kind, handles, gcType>>
    BY <1>5 DEF HandleWeakRef
  <2>2. \A h \in Handles : mem'[ValuePtr(h)] = mem[ValuePtr(h)]
    <3>1. \A h \in Handles : /\ ValuePtr(h) \in Slots /\ ValuePtr(h) # WeakValue(w)
                             /\ \A i \in 1..StackSize : ValuePtr(h) # StackSlot(i)
      BY SlotMembers DEF ValuePtr, WeakValue, StackSlot
    <3> QED BY <1>5, <3>1 DEF HandleWeakRef, Callback, Inv, TypeOK
  <2> QED BY <2>1, <2>2 DEF Inv, TypeOK
<1>6. CASE WeakRefsHandled
  BY <1>6 DEF WeakRefsHandled, roots
<1>7. CASE Swap
  BY <1>7 DEF Swap, roots
<1>8. CASE UNCHANGED vars
  BY <1>8 DEF vars, roots
<1> QED BY <1>1, <1>2, <1>3, <1>4, <1>5, <1>6, <1>7, <1>8 DEF Next, Collection, MarkingStep

LEMMA EverythingHolds == Spec => []Everything
<1>1. Init => AskInv
  BY DEF Init, AskInv
<1> QED BY <1>1, InitInv, StepInv, InitCopies, StepCopies, InitGraph, StepGraph, StepAsk, PTL
        DEF Spec, Everything

----------------------------------------------------------------------------
(***************************************************************************)
(* Every step is a step of HeapGraph, or changes nothing a program sees.   *)
(***************************************************************************)

\* What only copies, drops of roots and weak references write.
LEMMA MemSeen ==
  ASSUME UNCHANGED <<mem, origin>>
  PROVE  UNCHANGED <<StackSeen, LocalSeen, WatchedSeen>>
BY DEF StackSeen, LocalSeen, WatchedSeen, Original

\* What is found stays the same where neither the fields nor the objects change.
LEMMA FieldsSeen ==
  ASSUME UNCHANGED <<origin, loc, lost>>,
         \A c \in Cells, i \in Fields : mem'[Field(c, i)] = mem[Field(c, i)]
  PROVE  GraphSeen' = GraphSeen
<1>1. Followable' = Followable
  BY DEF Followable, Readable, Unreadable
<1>2. \A s \in Followable : s[1] \in Cells /\ s[2] \in Fields
  BY DEF Followable
<1> QED BY <1>1, <1>2 DEF GraphSeen, Original

LEMMA FoundSeen ==
  ASSUME UNCHANGED <<mem, origin, loc, lost>>
  PROVE  UNCHANGED <<GraphSeen, Dangling>>
BY FieldsSeen DEF Dangling, Readable, Unreadable

\* A step of a collection of which only the comings and goings of objects are seen.
LEMMA MoveSeen ==
  ASSUME Covered, Collecting # "None", UNCHANGED <<mem, origin, roots, needsGC, Collecting>>
  PROVE  Promise!Move
BY MemSeen DEF Covered, Promise!Move, Promise!Collecting, Promise!fixed, roots

\* One word written, which is a root: the others keep what they designate.
LEMMA WriteSeen ==
  ASSUME Inv, NEW s \in Slots, NEW x, mem' = [mem EXCEPT ![s] = x], origin' = origin
  PROVE  \A r \in Slots : Original(mem[r])' = IF r = s THEN Original(x) ELSE Original(mem[r])
BY DEF Original, Inv, TypeOK

LEMMA ProgramRefines ==
  ASSUME Everything, Covered
  PROVE  /\ \A i \in 1..StackSize, x \in {Nil, Null} :
              DropRoot(i, x) => Promise!DropRoot(i, x)
         /\ \A t \in {"NewSpace", "OldSpace"} : SetNeedsGC(t) => Promise!Ask(t)
         /\ \A sp \in {"new", "old"} : Allocate(sp) => Promise!Allocate
         /\ CollectGarbage => Promise!Collect
<1> USE DEF Everything
<1>1. ASSUME NEW i \in 1..StackSize, NEW x \in {Nil, Null}, DropRoot(i, x)
      PROVE  Promise!DropRoot(i, x)
  <2>1. /\ phase = "idle" /\ UNCHANGED <<origin, loc, lost, roots, needsGC, phase, gcType>>
        /\ mem' = [mem EXCEPT ![StackSlot(i)] = x] /\ mem \in [Slots -> Address]
    BY <1>1 DEF DropRoot, Program, history, copies, headers, Inv, TypeOK
  <2>2. \A r \in Slots :
          Original(mem[r])' = IF r = StackSlot(i) THEN Original(x) ELSE Original(mem[r])
    BY <2>1, SlotMembers, WriteSeen
  <2>3. Original(x) = x /\ x \notin Cells
    BY DEF Original, Nil, Null, Cells
  <2>4. StackSeen' = [StackSeen EXCEPT ![i] = x]
    <3>1. ASSUME NEW j \in 1..StackSize
          PROVE  Original(mem[StackSlot(j)])' = IF j = i THEN x ELSE Original(mem[StackSlot(j)])
      BY <2>2, <2>3, SlotMembers DEF StackSlot
    <3> QED BY <3>1 DEF StackSeen
  <2>5. UNCHANGED <<LocalSeen, WatchedSeen>>
    <3>1. \A h \in Handles : Original(mem[Reference(h)])' = Original(mem[Reference(h)])
      BY <2>2, SlotMembers DEF Reference, StackSlot
    <3>2. \A w \in WeakRefs : Original(mem[WeakValue(w)])' = Original(mem[WeakValue(w)])
      BY <2>2, SlotMembers DEF WeakValue, StackSlot
    <3> QED BY <3>1, <3>2 DEF LocalSeen, WatchedSeen
  <2>6. GraphSeen' = GraphSeen
    <3>1. \A c \in Cells, j \in Fields : Field(c, j) \in Slots /\ Field(c, j) # StackSlot(i)
      BY SlotMembers DEF Field, StackSlot
    <3> QED BY <2>1, <3>1, FieldsSeen
  <2>7. Dangling' = Dangling \ {Promise!StackRoot(i)}
    <3>1. Promise!StackRoot(i) = StackSlot(i)
      BY DEF Promise!StackRoot, StackSlot
    <3>2. ASSUME NEW s \in Slots, s # StackSlot(i)
          PROVE  Unreadable(mem[s])' <=> Unreadable(mem[s])
      BY <2>1, <3>2 DEF Unreadable, Readable
    <3>3. ~Unreadable(mem[StackSlot(i)])'
      BY <2>1, <2>3, SlotMembers DEF Unreadable
    <3> QED BY <3>1, <3>2, <3>3 DEF Dangling
  <2> QED BY <2>1, <2>4, <2>5, <2>6, <2>7
          DEF Promise!DropRoot, Promise!fixed, Collecting, roots, Covered
<1>2. ASSUME NEW t \in {"NewSpace", "OldSpace"}, SetNeedsGC(t) PROVE Promise!Ask(t)
  <2>1. /\ UNCHANGED <<StackSeen, LocalSeen, WatchedSeen, GraphSeen, Dangling>>
        /\ phase = "idle" /\ phase' = "idle" /\ UNCHANGED roots
    BY <1>2, MemSeen, FoundSeen DEF SetNeedsGC, Program, history, copies, headers
  <2> QED BY <1>2, <2>1 DEF SetNeedsGC, Promise!Ask, Promise!fixed, Promise!found, Collecting,
                            roots, Covered
<1>3. ASSUME CollectGarbage PROVE Promise!Collect
  <2>1. UNCHANGED <<StackSeen, LocalSeen, WatchedSeen, GraphSeen, Dangling>>
    BY <1>3, MemSeen, FoundSeen DEF CollectGarbage, copies, headers
  <2>2. Collecting = "None" \/ (Collecting = "NewSpace" /\ needsGC # "NewSpace")
    BY <1>3 DEF CollectGarbage, Collecting, AskInv
  <2>3. Collecting' = needsGC'
    BY <1>3 DEF CollectGarbage, Collecting
  <2> QED BY <1>3, <2>1, <2>2, <2>3 DEF CollectGarbage, Promise!Collect, Promise!fixed,
                                        Promise!found, roots, Covered
<1>4. ASSUME NEW sp \in {"new", "old"}, Allocate(sp) PROVE Promise!Allocate
  <2>1. /\ UNCHANGED <<mem, origin, loc, roots, needsGC, phase, gcType>> /\ phase = "idle"
        /\ lost \subseteq lost'
    BY <1>4 DEF Allocate, Overwrite, Program, history, copies
  <2>2. \A v : Unreadable(v) => Unreadable(v)'
    BY <2>1 DEF Unreadable, Readable
  <2>3. Dangling \subseteq Dangling'
    <3>1. ASSUME NEW s \in Dangling PROVE s \in Dangling'
      <4>1. s \in Slots /\ s[1] # "field" /\ Unreadable(mem[s])
        BY DEF Dangling
      <4>2. Unreadable(mem[s])'
        BY <2>1, <4>1 DEF Unreadable, Readable
      <4> QED BY <4>1, <4>2 DEF Dangling
    <3> QED BY <3>1
  <2>4. Followable' \subseteq Followable
    <3>1. ASSUME NEW c \in Cells, NEW i \in Fields, Readable(c)', ~Unreadable(mem[Field(c, i)])'
          PROVE  Readable(c) /\ ~Unreadable(mem[Field(c, i)])
      BY <2>1, <3>1 DEF Readable, Unreadable
    <3> QED BY <2>1, <3>1 DEF Followable
  <2>5. GraphSeen' \subseteq GraphSeen
    BY <2>1, <2>4 DEF GraphSeen, Original
  <2>6. UNCHANGED <<StackSeen, LocalSeen, WatchedSeen>>
    BY <2>1, MemSeen
  <2> QED BY <2>1, <2>3, <2>5, <2>6 DEF Promise!Allocate, Promise!fixed, Collecting, roots, Covered
<1> QED BY <1>1, <1>2, <1>3, <1>4

\* Only a copy can be seen, and only through the local of a handle.
LEMMA MarkingRefines ==
  ASSUME Everything, MarkingStep, Covered
  PROVE  (\E h \in Handles : Promise!ResetLocal(h)) \/ Promise!Move
<1> USE DEF Everything
<1>1. Collecting' = Collecting /\ Collecting # "None" /\ UNCHANGED <<needsGC, roots>>
  BY MarkingStays DEF Collecting, AskInv
<1>2. CASE UNCHANGED <<mem, origin>>
  BY <1>1, <1>2, MoveSeen
<1>3. ASSUME NEW v, Evacuate(v), ~UNCHANGED <<mem, origin>>
      PROVE  (\E h \in Handles : Promise!ResetLocal(h)) \/ Promise!Move
  <2> DEFINE s == Head(grey).slot
  <2>1. v \in Cells /\ Take(v) /\ Readable(v) /\ CopyTo(v)
    BY <1>3 DEF Evacuate, Readable, CopyInv, NotForwarded, AssertFails, copies
  <2>2. /\ \A i \in 1..StackSize : StackSlot(i) \in Slots /\ StackSlot(i)[1] = "stack"
        /\ \A w \in WeakRefs : WeakValue(w) \in Slots /\ WeakValue(w)[1] = "weak"
        /\ \A h \in Handles : /\ Reference(h) \in Slots /\ Reference(h)[1] = "reference"
                               /\ Reference(h)[2] = h
    BY SlotMembers DEF StackSlot, WeakValue, Reference
  <2>3. \A r \in Slots : r[1] \notin {"field", "reference"} =>
          Original(mem[r])' = Original(mem[r])
    BY <2>1, CopyToSeen
  <2>4. UNCHANGED <<StackSeen, WatchedSeen>>
    BY <2>2, <2>3 DEF StackSeen, WatchedSeen
  <2>5. \A r \in Slots : r[1] = "reference" =>
          \/ Original(mem[r])' = Original(mem[r])
          \/ s = r /\ Original(mem[r])' = start[ValuePtr(r[2])]
    BY <2>1, CopyToSeen
  <2>6. \A h \in Handles : start[ValuePtr(h)] = ValueSeen[h]
    BY SeenEdges DEF SeenWithin
  <2>7. \A h \in Handles :
          \/ Original(mem[Reference(h)])' = Original(mem[Reference(h)])
          \/ s = Reference(h) /\ Original(mem[Reference(h)])' = ValueSeen[h]
    BY <2>2, <2>5, <2>6
  <2>8. CASE \A h \in Handles : Original(mem[Reference(h)])' = Original(mem[Reference(h)])
    <3>1. LocalSeen' = LocalSeen
      BY <2>8 DEF LocalSeen
    <3> QED BY <1>1, <2>4, <3>1 DEF Promise!Move, Promise!Collecting, Promise!fixed, roots, Covered
  <2>9. ASSUME NEW h \in Handles, Original(mem[Reference(h)])' # Original(mem[Reference(h)])
        PROVE  Promise!ResetLocal(h)
    <3>1. s = Reference(h) /\ Original(mem[Reference(h)])' = ValueSeen[h]
      BY <2>7, <2>9
    <3>2. \A k \in Handles \ {h} :
            Original(mem[Reference(k)])' = Original(mem[Reference(k)])
      BY <2>2, <2>7, <3>1
    <3>3. LocalSeen' = [LocalSeen EXCEPT ![h] = ValueSeen[h]]
      BY <3>1, <3>2 DEF LocalSeen
    <3> QED BY <1>1, <2>4, <3>3
            DEF Promise!ResetLocal, Promise!Collecting, Promise!fixed, roots, Covered
  <2> QED BY <2>8, <2>9
<1>4. (\E v : Evacuate(v)) \/ UNCHANGED <<mem, origin>>
  <2>1. CASE ProcessGrey
    BY <2>1 DEF ProcessGrey, SkipUnboxed, ReadUnmapped, MarkSoft, SkipMarked, copies
  <2>2. CASE ~ProcessGrey
    BY <2>2 DEF MarkingStep, ColourHandle, HandlesColoured, ScanWord, ScanStray, StackScanned, GreyEmpty,
                DrainBlack, history, copies
  <2> QED BY <2>1, <2>2
<1> QED BY <1>2, <1>3, <1>4

LEMMA HandlesRefine ==
  ASSUME Everything, RelocateWeakHandles, Covered
  PROVE  Promise!DropWeakHandles \/ Promise!Move
<1> USE DEF Everything
<1>1. /\ phase = "weak" /\ UNCHANGED <<mem, origin, kind, weakRefs, needsGC, gcType>>
      /\ \/ handles' = handles \ WeakBoxed /\ phase' = "refs"
         \/ handles' = handles /\ phase' = "wild"
  BY WeakHandlesGo DEF RelocateWeakHandles, history, copies
<1>2. UNCHANGED <<StackSeen, LocalSeen, WatchedSeen>>
  BY <1>1, MemSeen
<1>3. Collecting' = Collecting /\ Collecting # "None"
  BY <1>1 DEF Collecting, AskInv
<1>4. WeakBoxed = Promise!WeakHandles
  <2>1. \A h \in handles : ValueSeen[h] = Nil <=> mem[ValuePtr(h)] = Nil
    BY NilSeen, SlotMembers DEF ValueSeen, Inv, TypeOK
  <2> QED BY <2>1 DEF WeakBoxed, Promise!WeakHandles
<1> QED BY <1>1, <1>2, <1>3, <1>4 DEF Promise!DropWeakHandles, Promise!Move, Promise!Collecting,
        Promise!fixed, Covered

LEMMA RefsRefine ==
  ASSUME Everything, NEW w \in WeakRefs, HandleWeakRef(w), Covered
  PROVE  \/ Promise!DropWeakRef(w)
         \/ \E x \in Promise!Target : Promise!SpoilWeakRef(w, x)
         \/ Promise!Move
<1> USE DEF Everything
<1> DEFINE v == mem[WeakValue(w)]
<1>1. /\ phase = "refs" /\ phase' \in {"refs", "wild"}
      /\ UNCHANGED <<origin, kind, handles, gcType>>
  BY DEF HandleWeakRef, history, copies
<1>2. Collecting' = Collecting /\ Collecting # "None"
  BY <1>1 DEF Collecting, AskInv
<1>3. Readable(v) => forward[v] = Nil
  BY DEF Readable, CopyInv, NotForwarded
<1>4. CASE UNCHANGED <<mem, weakRefs, needsGC>>
  BY <1>1, <1>2, <1>4, MoveSeen DEF roots
<1>5. ASSUME weakRefs' = weakRefs \ {w}, Callback PROVE Promise!DropWeakRef(w)
  <2>1. mem \in [Slots -> Address] /\ needsGC' \in {"None", "NewSpace", "OldSpace"}
    BY <1>5 DEF Callback, GCType, Inv, TypeOK
  <2>2. CASE mem' = mem
    BY <1>1, <1>2, <1>5, <2>1, <2>2, MemSeen
       DEF Promise!DropWeakRef, Promise!Collecting, Promise!fixed, Covered
  <2>3. ASSUME NEW i \in 1..StackSize, NEW x \in {Nil, Null}, mem' = [mem EXCEPT ![StackSlot(i)] = x]
        PROVE  Promise!DropWeakRef(w)
    <3>1. \A r \in Slots :
            Original(mem[r])' = IF r = StackSlot(i) THEN Original(x) ELSE Original(mem[r])
      BY <1>1, <2>3, SlotMembers, WriteSeen
    <3>2. Original(x) = x
      BY DEF Original, Nil, Null, Cells
    <3>3. StackSeen' = [StackSeen EXCEPT ![i] = x]
      <4>1. ASSUME NEW j \in 1..StackSize
            PROVE  Original(mem[StackSlot(j)])' = IF j = i THEN x ELSE Original(mem[StackSlot(j)])
        BY <3>1, <3>2, SlotMembers DEF StackSlot
      <4> QED BY <4>1 DEF StackSeen
    <3>4. UNCHANGED <<LocalSeen, WatchedSeen>>
      <4>1. \A h \in Handles : Original(mem[Reference(h)])' = Original(mem[Reference(h)])
        BY <3>1, SlotMembers DEF Reference, StackSlot
      <4>2. \A u \in WeakRefs : Original(mem[WeakValue(u)])' = Original(mem[WeakValue(u)])
        BY <3>1, SlotMembers DEF WeakValue, StackSlot
      <4> QED BY <4>1, <4>2 DEF LocalSeen, WatchedSeen
    <3> QED BY <1>1, <1>2, <1>5, <2>1, <3>3, <3>4
            DEF Promise!DropWeakRef, Promise!Collecting, Promise!fixed, Covered
  <2> QED BY <1>5, <2>2, <2>3 DEF Callback
<1>6. CASE Readable(v) /\ mem' = [mem EXCEPT ![WeakValue(w)] = FirstWord(v)]
           /\ UNCHANGED <<weakRefs, needsGC>>
  <2>1. loc[v] # "free" /\ v \in Cells /\ WeakValue(w) \in Slots /\ Field(v, 1) \in Slots
    BY <1>6, SlotMembers DEF Readable, Fields
  <2> DEFINE x == Original(FirstWord(v))
  <2>2. \A r \in Slots : Original(mem[r])' = IF r = WeakValue(w) THEN x ELSE Original(mem[r])
    BY <1>1, <1>6, <2>1, WriteSeen
  <2>3. x = Junk \/ (x = Original(mem[Field(v, 1)]) /\ <<WatchedSeen[w], 1, x>> \in Edges)
    <3>1. Original(Junk) = Junk /\ Original(v) = origin[v]
      BY <2>1 DEF Original, Junk, Cells
    <3>2. WatchedSeen[w] = origin[v]
      BY <3>1 DEF WatchedSeen
    <3>3. <<origin[v], 1, Original(mem[Field(v, 1)])>> \in Edges
      <4>1. /\ origin[v] \in 1..Objects /\ 1 \in Fields
            /\ Original(mem[Field(v, 1)]) = start[Field(origin[v], 1)]
        BY <2>1 DEF GraphInv, OriginInv, GraphHeld, Fields
      <4> QED BY <4>1 DEF Edges
    <3> QED BY <3>1, <3>2, <3>3 DEF FirstWord
  <2>4. x \in Promise!Target
    BY <2>1, <2>3, NilSeen DEF Promise!Target
  <2> HIDE DEF x
  <2>5. WatchedSeen' = [WatchedSeen EXCEPT ![w] = x]
    <3>1. ASSUME NEW u \in WeakRefs
          PROVE  Original(mem[WeakValue(u)])' = IF u = w THEN x ELSE Original(mem[WeakValue(u)])
      BY <2>2, SlotMembers DEF WeakValue
    <3> QED BY <3>1 DEF WatchedSeen
  <2>6. UNCHANGED <<StackSeen, LocalSeen>>
    <3>1. \A h \in Handles : Original(mem[Reference(h)])' = Original(mem[Reference(h)])
      BY <2>2, SlotMembers DEF Reference, WeakValue
    <3>2. \A i \in 1..StackSize : Original(mem[StackSlot(i)])' = Original(mem[StackSlot(i)])
      BY <2>2, SlotMembers DEF StackSlot, WeakValue
    <3> QED BY <3>1, <3>2 DEF LocalSeen, StackSeen
  <2>7. Promise!SpoilWeakRef(w, x)
    BY <1>1, <1>2, <1>6, <2>3, <2>5, <2>6 
       DEF Promise!SpoilWeakRef, Promise!Collecting, Promise!fixed, Covered
  <2> QED BY <2>4, <2>7
<1> QED BY <1>3, <1>4, <1>5, <1>6 DEF HandleWeakRef

LEMMA EndRefines ==
  ASSUME Everything, Swap, Covered
  PROVE  Promise!Finish \/ Promise!Move
<1> USE DEF Everything
<1>1. phase = "swap" /\ UNCHANGED <<mem, origin, roots, gcType>>
  BY DEF Swap
<1>2. UNCHANGED <<StackSeen, LocalSeen, WatchedSeen>>
  BY <1>1, MemSeen
<1>3. Collecting = gcType /\ Collecting # "None"
  BY <1>1 DEF Collecting, AskInv
<1>4. CASE phase' = "idle" /\ needsGC' = "None" /\ (gcType # "NewSpace" \/ needsGC = "NewSpace")
  <2>1. Collecting = "OldSpace" \/ needsGC = "NewSpace"
    BY <1>1, <1>3, <1>4 DEF AskInv
  <2>2. Promise!WeakHandles = {}
    <3>1. \A h \in handles : kind[h] = "Weak" => ValueSeen[h] = Nil
      BY <1>1, NilSeen, SlotMembers DEF AskInv, ValueSeen, Inv, TypeOK
    <3> QED BY <3>1 DEF Promise!WeakHandles
  <2>3. Collecting' = "None"
    BY <1>4 DEF Collecting
  <2> QED BY <1>1, <1>2, <1>3, <1>4, <2>1, <2>2, <2>3 
          DEF Promise!Finish, Promise!Collecting, Promise!fixed, roots, Covered
<1>5. CASE phase' = "begin" /\ needsGC' = needsGC
  BY <1>1, <1>3, <1>5, MoveSeen DEF Collecting
<1> QED BY <1>4, <1>5 DEF Swap

LEMMA StutterSeen ==
  ASSUME Covered, UNCHANGED <<mem, origin, loc, lost, roots, needsGC, Collecting>>
  PROVE  UNCHANGED Promise!vars
BY MemSeen, FoundSeen DEF Covered, Promise!vars, Promise!fixed, Promise!found, roots

LEMMA StepRefines ==
  Everything /\ GraphInv' /\ [Next]_vars => [Promise!Next]_(Promise!vars)
<1> SUFFICES ASSUME Everything, GraphInv', [Next]_vars
             PROVE  Promise!Next \/ UNCHANGED Promise!vars
  OBVIOUS
<1>1. Covered
  BY StartStays, EdgesStay DEF Everything
<1>2. CASE \/ \E i \in 1..StackSize, x \in {Nil, Null} : DropRoot(i, x)
           \/ \E t \in {"NewSpace", "OldSpace"} : SetNeedsGC(t)
           \/ \E sp \in {"new", "old"} : Allocate(sp)
           \/ CollectGarbage
  BY <1>1, <1>2, ProgramRefines DEF Promise!Next
<1>3. CASE MarkingStep
  BY <1>1, <1>3, MarkingRefines DEF Promise!Next
<1>4. CASE RelocateWeakHandles
  BY <1>1, <1>4, HandlesRefine DEF Promise!Next
<1>5. CASE \E w \in WeakRefs : HandleWeakRef(w)
  BY <1>1, <1>5, RefsRefine DEF Promise!Next
<1>6. CASE WeakRefsHandled
  <2>1. UNCHANGED <<mem, origin, roots, needsGC, Collecting>> /\ Collecting # "None"
    BY <1>6 DEF WeakRefsHandled, history, copies, Collecting, Everything, AskInv
  <2> QED BY <1>1, <2>1, MoveSeen DEF Promise!Next
<1>7. CASE Swap
  BY <1>1, <1>7, EndRefines DEF Promise!Next
<1>8. CASE UNCHANGED vars
  <2>1. UNCHANGED <<mem, origin, loc, lost, roots, needsGC, Collecting>>
    BY <1>8 DEF vars, history, copies, Collecting, roots, headers
  <2> QED BY <1>1, <2>1, StutterSeen
<1> QED BY <1>2, <1>3, <1>4, <1>5, <1>6, <1>7, <1>8 DEF Next, Collection, MarkingStep

LEMMA InitRefines == Init => Promise!Init
<1> SUFFICES ASSUME Init PROVE Promise!Init
  OBVIOUS
<1>1. /\ origin = [c \in Cells |-> c] /\ handles = Handles /\ weakRefs = WeakRefs
      /\ phase = "idle" /\ needsGC = "None" /\ kind \in [Handles -> {"Weak", "Persistent"}]
  BY DEF Init
<1>2. PICK f \in [1..Objects -> [Fields -> 0..Objects]],
           k \in [1..StackSize -> Junk..Objects],
           r \in [Handles -> 0..Objects], v \in [Handles -> (0..Objects) \cup {HNil}],
           w \in [WeakRefs -> 1..Objects] :
        mem = Contents(f, k, r, v, w)
  BY DEF Init
<1>3. \A u : Original(u) = u
  BY <1>1 DEF Original
<1>4. 0..Objects = (1..Objects) \cup {Nil} /\ Junk..Objects = (1..Objects) \cup {Nil, Null, Junk}
  BY ObjectsAssumption DEF Nil, Null, Junk
<1>5. StackSeen \in [1..StackSize -> Promise!Target]
  <2>1. ASSUME NEW i \in 1..StackSize PROVE Original(mem[StackSlot(i)]) \in Promise!Target
    <3>1. mem[StackSlot(i)] = k[i]
      BY <1>2, SlotMembers DEF Contents, StackSlot
    <3> QED BY <1>3, <1>4, <3>1 DEF Promise!Target
  <2> QED BY <2>1 DEF StackSeen
<1>6. ValueSeen \in [Handles -> Promise!Target] /\ LocalSeen \in [Handles -> Promise!Target]
  <2>1. ASSUME NEW h \in Handles
        PROVE  /\ Original(mem[ValuePtr(h)]) \in Promise!Target
               /\ Original(mem[Reference(h)]) \in Promise!Target
    <3>1. mem[ValuePtr(h)] = v[h] /\ mem[Reference(h)] = r[h]
      BY <1>2, SlotMembers DEF Contents, ValuePtr, Reference
    <3> QED BY <1>3, <1>4, <3>1 DEF Promise!Target
  <2> QED BY <2>1 DEF ValueSeen, LocalSeen
<1>7. WatchedSeen \in [WeakRefs -> 1..Objects]
  <2>1. ASSUME NEW u \in WeakRefs PROVE Original(mem[WeakValue(u)]) \in 1..Objects
    <3>1. mem[WeakValue(u)] = w[u]
      BY <1>2, SlotMembers DEF Contents, WeakValue
    <3> QED BY <1>3, <1>4, <3>1
  <2> QED BY <2>1 DEF WatchedSeen
<1>8. Edges = Promise!EdgesOf(f)
  <2>1. start = mem
    BY DEF Init
  <2>2. ASSUME NEW o \in 1..Objects, NEW i \in Fields PROVE start[Field(o, i)] = f[o][i]
    <3>1. o \in Cells
      BY ObjectsAssumption DEF Cells
    <3>2. mem[Field(o, i)] = IF o \in 1..Objects THEN f[o][i] ELSE Nil
      BY <1>2, <3>1, SlotMembers DEF Contents, Field
    <3> QED BY <2>1, <3>2
  <2>3. ASSUME NEW e PROVE e \in Edges <=> e \in Promise!EdgesOf(f)
    <3>1. e \in Edges <=> \E o \in 1..Objects, i \in Fields : e = <<o, i, start[Field(o, i)]>>
      BY DEF Edges
    <3>2. e \in Promise!EdgesOf(f) <=> \E o \in 1..Objects, i \in Fields : e = <<o, i, f[o][i]>>
      BY DEF Promise!EdgesOf
    <3>3. ASSUME e \in Edges PROVE e \in Promise!EdgesOf(f)
      <4>1. PICK o \in 1..Objects, i \in Fields : e = <<o, i, start[Field(o, i)]>>
        BY <3>1, <3>3
      <4>2. e = <<o, i, f[o][i]>>
        BY <2>2, <4>1
      <4> QED BY <3>2, <4>2
    <3>4. ASSUME e \in Promise!EdgesOf(f) PROVE e \in Edges
      <4>1. PICK o \in 1..Objects, i \in Fields : e = <<o, i, f[o][i]>>
        BY <3>2, <3>4
      <4>2. e = <<o, i, start[Field(o, i)]>>
        BY <2>2, <4>1
      <4> QED BY <3>1, <4>2
    <3> QED BY <3>3, <3>4
  <2> QED BY <2>3
<1>9. f \in [1..Objects -> [Fields -> (1..Objects) \cup {Nil}]]
  BY <1>4
<1>10. Collecting = "None"
  BY <1>1 DEF Collecting
<1>11. \A c \in Cells : Readable(c) <=> c \in 1..Objects
  <2>1. PICK g \in [1..Objects -> 0..MinOldGen] :
          loc = [c \in Cells |-> IF c \notin 1..Objects THEN "free"
                                 ELSE IF g[c] = MinOldGen THEN "old" ELSE "new"]
    BY Zenon DEF Init
  <2>2. lost = {}
    BY DEF Init
  <2> QED BY <2>1, <2>2 DEF Readable
<1>12. \A s \in Slots : ~Unreadable(mem[s])
  <2>1. \A s \in Slots : mem[s] \in Cells => loc[mem[s]] # "free"
    BY InitCopies DEF CopyInv, PointInv
  <2>2. \A c \in Cells : loc[c] # "free" => c \in 1..Objects
    BY Zenon DEF Init
  <2> QED BY <1>11, <2>1, <2>2 DEF Unreadable
<1>13. Dangling = {}
  BY <1>12 DEF Dangling
<1>14. GraphSeen = Edges
  <2>1. 1..Objects \subseteq Cells /\ start = mem
    BY ObjectsAssumption DEF Cells, Init
  <2>2. Followable = {<<o, i>> : o \in 1..Objects, i \in Fields}
    <3>1. \A c \in Cells, i \in Fields : ~Unreadable(mem[Field(c, i)])
      BY <1>12, SlotMembers
    <3>2. ASSUME NEW s PROVE s \in Followable <=> \E o \in 1..Objects, i \in Fields : s = <<o, i>>
      <4>1. s \in Followable =>
              \E o \in 1..Objects, i \in Fields : s = <<o, i>>
        <5>1. ASSUME NEW o \in Cells, NEW i \in Fields, s = <<o, i>>, s \in Followable
              PROVE  o \in 1..Objects
          BY <1>11, <5>1 DEF Followable
        <5> QED BY <5>1 DEF Followable
      <4>2. ASSUME NEW o \in 1..Objects, NEW i \in Fields, s = <<o, i>> PROVE s \in Followable
        BY <1>11, <2>1, <3>1, <4>2 DEF Followable
      <4> QED BY <4>1, <4>2
    <3> QED BY <3>2
  <2>3. ASSUME NEW s \in Followable
        PROVE  <<origin[s[1]], s[2], Original(mem[Field(s[1], s[2])])>> \in Edges
    <3>1. PICK o \in 1..Objects, i \in Fields : s = <<o, i>>
      BY <2>2
    <3>2. s[1] = o /\ s[2] = i /\ origin[o] = o /\ Original(mem[Field(o, i)]) = start[Field(o, i)]
      BY <1>1, <1>3, <2>1, <3>1
    <3> QED BY <3>2 DEF Edges
  <2>4. ASSUME NEW o \in 1..Objects, NEW i \in Fields
        PROVE  <<o, i, start[Field(o, i)]>> \in GraphSeen
    <3>1. /\ <<o, i>> \in Followable /\ <<o, i>>[1] = o /\ <<o, i>>[2] = i
          /\ origin[o] = o /\ Original(mem[Field(o, i)]) = start[Field(o, i)]
      <4>1. <<o, i>> \in Followable /\ o \in Cells
        BY <2>1, <2>2
      <4> QED BY <1>1, <1>3, <2>1, <4>1
    <3>2. <<origin[<<o, i>>[1]], <<o, i>>[2], Original(mem[Field(<<o, i>>[1], <<o, i>>[2])])>>
            \in GraphSeen
      BY <3>1 DEF GraphSeen
    <3> QED BY <3>1, <3>2
  <2>5. GraphSeen \subseteq Edges
    BY <2>3 DEF GraphSeen
  <2>6. Edges \subseteq GraphSeen
    BY <2>4 DEF Edges
  <2> QED BY <2>5, <2>6
<1> QED BY <1>1, <1>5, <1>6, <1>7, <1>8, <1>9, <1>10, <1>13, <1>14 DEF Promise!Init

\* The collector keeps what HeapGraph promises (gc.rs 63-143, 199-241), for any number of
\* objects, roots, handles, weak references and collections, whatever allocation
\* overwrites and whatever the callbacks of weak references ask for: no step makes an edge
\* or a root designate another object, and collect_garbage ends as asked.  Which objects
\* can still be found is no part of the promise.
THEOREM CollectorKeepsPromise == Spec => KeepsPromise
<1>1. Everything /\ Everything' /\ [Next]_vars => [Promise!Next]_(Promise!vars)
  BY StepRefines DEF Everything
<1> QED BY <1>1, InitRefines, EverythingHolds, PTL DEF Spec, KeepsPromise, Promise!Spec
=============================================================================
