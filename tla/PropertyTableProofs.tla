------------------------ MODULE PropertyTableProofs ------------------------
(***************************************************************************)
(* For every size, bound and hash: an array keeps its elements through any  *)
(* nesting of growths as long as its sizes keep indices apart, and a hash   *)
(* map never takes a key.                                                   *)
(*                                                                          *)
(* While maps grow, the elements are spread over the current map and those  *)
(* on the stack that are being moved out of.  No two of them disagree about *)
(* an element, and each element is in the current map or still to be moved  *)
(* out of another.                                                          *)
(***************************************************************************)
EXTENDS PropertyTable, SequenceTheorems, TLAPS

\* Every map there is: the current one and those being moved out of.
Growing == {k \in DOMAIN stack : stack[k].fn = "grow"}
Maps == {map} \cup {stack[k].old : k \in Growing}

Map == UNION {[size : {n}, slots : [0..(2 * n - 1) -> Contents]] : n \in 1..MaxSize}

LookupFrame ==
  [fn : {"lookup"}, key : Contents \cup Numbers, insert : BOOLEAN, at : NoSlot..(MaxSize - 1)]

GrowFrame ==
  [fn : {"grow"}, old : Map, dense : BOOLEAN, i : Nat, limit : Nat, value : Contents]

Frame == LookupFrame \cup GrowFrame

Callable == (IF isArray THEN Indices ELSE Names) \cup {Nil}

Typed ==
  /\ isArray \in BOOLEAN /\ proto \in BOOLEAN /\ apart \in BOOLEAN
  /\ map \in Map
  /\ length \in Nat
  /\ stack \in Seq(Frame)
  /\ phase \in {"idle", "running", "returned", "exhausted"}
  /\ result \in NoSlot..(2 * MaxSize)
  /\ call \in [key : Callable, insert : BOOLEAN]
  /\ written \in [{i \in Indices : i >= 0} \cup {0} -> Values \cup {Nil}]
  /\ call.insert => Number(call.key) \in inserted
  /\ foreign \in 0..MaxForeign

\* The two functions call each other, starting with a lookup.
Alternates ==
  /\ phase \in {"running", "exhausted"} <=> stack # <<>>
  /\ \A k \in DOMAIN stack : stack[k].fn = IF k % 2 = 1 THEN "lookup" ELSE "grow"

\* A lookup that is not the caller's inserts what is not nil; only the last one searches.
LookupInv(k) ==
  LET f == stack[k] IN
  /\ k > 1 => f.insert /\ f.key # Nil
  /\ k = 1 => f.insert = call.insert /\ f.key \in {call.key, Number(call.key)}
  /\ f.at # NoSlot =>
       /\ k = Len(stack) /\ ~Dense(map)
       /\ f.at < map.size /\ (isArray => Number(f.key) >= 0)
       /\ f.key = Nil => f.at = Start(Nil)

\* What is being moved out of frame k, in a lookup above it: a dense array's element or
\* a foreign word, under its index.
Moving(k) ==
  LET f == stack[k] IN
  /\ f.i < f.limit
  /\ f.dense => /\ stack[k + 1].key = f.i /\ f.value # Nil
                /\ f.i < 2 * f.old.size => f.value = f.old.slots[f.i]
                /\ f.i >= 2 * f.old.size => f.value = Foreign /\ foreign > 0

\* The map has grown since, and so have those of the growths started meanwhile.
GrowInv(k) ==
  LET f == stack[k] IN
  /\ f.limit = (IF f.dense THEN 4 * f.old.size ELSE 2 * f.old.size) /\ f.i <= f.limit
  /\ 2 * f.old.size <= map.size
  /\ stack[2].old.size <= f.old.size
  /\ f.dense => isArray
  /\ ~f.dense => ~Dense(map)
  /\ k < Len(stack) => Moving(k)

FramesInv ==
  /\ Alternates
  /\ \A k \in DOMAIN stack : stack[k].fn = "lookup" => LookupInv(k)
  /\ \A k \in Growing : GrowInv(k)

\* A dense map has no values and a hash map no keys.
HalfEmpty(m) ==
  \A i \in 0..(m.size - 1) : m.slots[IF Dense(m) THEN m.size + i ELSE i] = Nil

MapsInv ==
  /\ \A m \in Maps : HalfEmpty(m) /\ \E s \in Sizes : s <= m.size
  /\ apart => \A m \in Maps : KeepsApart(m.size)

\* Element e is where a lookup finds it, or still to be moved there.
Found(e) == e < map.size /\ map.slots[e] = written[e]

Waits(e, k) ==
  e < stack[k].old.size /\ stack[k].old.slots[e] = written[e] /\ stack[k].i <= e

\* What slot i of a dense map may hold.
Holds(m, i) ==
  m.slots[i] # Nil =>
    IF i \in Elements THEN m.slots[i] = written[i]
    ELSE m.slots[i] = Foreign /\ \E s \in Sizes : i >= 2 * s

ElementsInv ==
  Dense(map) /\ apart =>
    /\ \A e \in Elements :
         /\ Found(e) \/ \E k \in Growing : Waits(e, k)
         /\ Len(stack) > 1 => e < stack[2].old.size
    /\ \A m \in Maps : \A i \in 0..(m.size - 1) : Holds(m, i)

ReturnInv ==
  phase = "returned" /\ result # NoSlot =>
    LET n == Number(call.key) IN
    IF Dense(map)
    THEN n \in 0..(map.size - 1) /\ result = BitAnd(n, map.size - 1) /\ (call.insert => n < length)
    ELSE /\ call.insert => call.key = Nil
         /\ result = map.size + Start(call.key) /\ result \in map.size..(2 * map.size - 1)

LengthInv ==
  /\ \A e \in Elements : e < length
  /\ Dense(map) =>
       /\ \A m \in Maps : \A i \in 0..(m.size - 1) : m.slots[i] # Nil => i < length
       /\ foreign = 0 /\ length > 0 => length - 1 \in inserted

\* All but what is said of the length.
MovesInv == FramesInv /\ MapsInv /\ ElementsInv

IInv == Typed /\ MovesInv /\ ReturnInv /\ LengthInv

(***************************************************************************)
(* Sizes, numbers and slots.                                                *)
(***************************************************************************)

LEMMA MapTypes ==
  ASSUME NEW m \in Map
  PROVE  /\ m.size \in 1..MaxSize /\ m.size \in Nat /\ MaxSize \in Nat
         /\ m.slots \in [0..(2 * m.size - 1) -> Contents]
  BY BoundsAssumption DEF Map

LEMMA MapMade ==
  ASSUME NEW n \in 1..MaxSize, NEW f \in [0..(2 * n - 1) -> Contents]
  PROVE  [size |-> n, slots |-> f] \in Map
  BY DEF Map

LEMMA MapChanged ==
  ASSUME NEW m \in Map, NEW x \in 0..(2 * m.size - 1), NEW v \in Contents
  PROVE  /\ [m EXCEPT !.slots[x] = v] \in Map
         /\ [m EXCEPT !.slots[x] = v].size = m.size
         /\ \A y \in 0..(2 * m.size - 1) :
              [m EXCEPT !.slots[x] = v].slots[y] = IF y = x THEN v ELSE m.slots[y]
  BY DEF Map

LEMMA MapEmpty ==
  ASSUME NEW n \in 1..MaxSize
  PROVE  /\ NewEmpty(n) \in Map
         /\ NewEmpty(n).size = n
         /\ \A x \in 0..(2 * n - 1) : NewEmpty(n).slots[x] = Nil
  BY DEF Map, NewEmpty, Contents

LEMMA NumberTypes ==
  ASSUME NEW x
  PROVE  /\ Number(x) \in Numbers /\ Number(x) \in -1..(4 * MaxSize)
         /\ Number(Number(x)) = Number(x)
         /\ Number(x) # Nil
         /\ MaxSize \in Nat
  BY BoundsAssumption, NilAssumption DEF Number, Numbers

LEMMA StartTypes ==
  ASSUME NEW x, map \in Map, isArray => Number(x) >= 0
  PROVE  Start(x) \in 0..(map.size - 1)
<1>1. map.size - 1 \in 0..MaxSize /\ map.size \in Nat /\ map.size >= 1
  BY MapTypes
<1>2. CASE isArray
  <2>1. Number(x) \in 0..(4 * MaxSize)
    BY <1>2, NumberTypes
  <2>2. Hash(Number(x)) \in 0..(4 * MaxSize)
    BY <2>1, HashAssumption
  <2> QED
    BY <1>1, <1>2, <2>2, AndAssumption DEF Start
<1>3. CASE ~isArray
  BY <1>1, <1>3 DEF Start
<1> QED
  BY <1>2, <1>3

LEMMA FollowingTypes ==
  ASSUME NEW x \in 0..(map.size - 1), map \in Map
  PROVE  Following(x) \in 0..(map.size - 1)
<1>1. map.size - 1 \in 0..MaxSize /\ map.size \in 1..MaxSize /\ MaxSize \in Nat
  BY MapTypes
<1>2. x + 1 \in 0..(4 * MaxSize)
  BY <1>1
<1> QED
  BY <1>1, <1>2, AndAssumption DEF Following

LEMMA GrowSizeTypes ==
  ASSUME NEW min \in Nat, map \in Map
  PROVE  GrowSize(min) \in Nat /\ GrowSize(min) >= 2 * map.size
<1>1. map.size \in Nat /\ map.size >= 1
  BY MapTypes
<1>2. ASSUME min > 2 * map.size
      PROVE  min * min >= 2 * map.size /\ min * min \in Nat
  <2>1. \A a, b \in Nat : b > a /\ a >= 1 => b * b >= a /\ b * b \in Nat
    BY SMT
  <2> QED
    BY <1>1, <1>2, <2>1
<1> QED
  BY <1>1, <1>2 DEF GrowSize

(***************************************************************************)
(* The stack.                                                               *)
(***************************************************************************)

LEMMA FrameTypes ==
  ASSUME NEW f \in Frame
  PROVE  /\ f.fn \in {"lookup", "grow"}
         /\ f.fn = "lookup" <=> f \in LookupFrame
         /\ f.fn = "grow" <=> f \in GrowFrame
  BY DEF Frame, LookupFrame, GrowFrame

LEMMA StackTypes ==
  ASSUME Typed
  PROVE  /\ Len(stack) \in Nat /\ DOMAIN stack = 1..Len(stack)
         /\ \A k \in 1..Len(stack) : stack[k] \in Frame
         /\ stack = <<>> <=> Len(stack) = 0
  BY LenProperties, EmptySeq, ElementOfSeq DEF Typed

LEMMA TopTypes ==
  ASSUME Typed, FramesInv, phase = "running"
  PROVE  /\ Len(stack) \in Nat /\ Len(stack) >= 1 /\ Top = stack[Len(stack)] /\ Top \in Frame
         /\ Top.fn = "lookup" => Len(stack) % 2 = 1
         /\ Top.fn = "grow" => Len(stack) % 2 = 0 /\ Len(stack) >= 2
<1>1. stack # <<>>
  BY DEF FramesInv, Alternates
<1>2. Len(stack) \in Nat /\ Len(stack) >= 1 /\ Len(stack) \in DOMAIN stack
  BY <1>1, StackTypes
<1>3. stack[Len(stack)].fn = IF Len(stack) % 2 = 1 THEN "lookup" ELSE "grow"
  BY <1>2 DEF FramesInv, Alternates
<1> QED
  BY <1>2, <1>3, StackTypes DEF Top

LEMMA Shorter ==
  ASSUME NEW S, NEW s \in Seq(S), Len(s) \in Nat, Len(s) >= 1
  PROVE  /\ SubSeq(s, 1, Len(s) - 1) \in Seq(S) /\ Len(SubSeq(s, 1, Len(s) - 1)) = Len(s) - 1
         /\ \A k \in 1..(Len(s) - 1) : SubSeq(s, 1, Len(s) - 1)[k] = s[k]
<1>1. SubSeq(s, 1, Len(s) - 1) \in Seq(S) /\ Len(SubSeq(s, 1, Len(s) - 1)) = Len(s) - 1
  OBVIOUS
<1>2. \A k \in 1..(Len(s) - 1) : SubSeq(s, 1, Len(s) - 1)[k] = s[k]
  OBVIOUS
<1> QED
  BY <1>1, <1>2

LEMMA BelowTypes ==
  ASSUME Typed, Len(stack) >= 1
  PROVE  /\ Below \in Seq(Frame) /\ Len(Below) = Len(stack) - 1 /\ DOMAIN Below = 1..(Len(stack) - 1)
         /\ \A k \in 1..(Len(stack) - 1) : Below[k] = stack[k]
         /\ Below = <<>> <=> Len(stack) = 1
<1>1. stack \in Seq(Frame) /\ Len(stack) \in Nat
  BY StackTypes DEF Typed
<1>2. /\ Below \in Seq(Frame) /\ Len(Below) = Len(stack) - 1
      /\ \A k \in 1..(Len(stack) - 1) : Below[k] = stack[k]
  BY <1>1, Shorter DEF Below
<1>3. DOMAIN Below = 1..Len(Below) /\ (Below = <<>> <=> Len(Below) = 0)
  BY <1>2, EmptySeq, LenProperties
<1> QED
  BY <1>1, <1>2, <1>3

LEMMA Changed ==
  ASSUME NEW t \in Seq(Frame), NEW i \in 1..Len(t), NEW f \in Frame, NEW s, s = [t EXCEPT ![i] = f]
  PROVE  /\ s \in Seq(Frame) /\ Len(s) = Len(t) /\ DOMAIN s = 1..Len(t)
         /\ s[i] = f
         /\ \A k \in 1..Len(t) : k # i => s[k] = t[k]
  BY ExceptSeq, LenProperties

LEMMA TopChanged ==
  ASSUME Typed, Len(stack) >= 1, NEW f \in Frame, NEW s, s = [stack EXCEPT ![Len(stack)] = f]
  PROVE  /\ s \in Seq(Frame) /\ Len(s) = Len(stack) /\ DOMAIN s = 1..Len(stack)
         /\ s[Len(stack)] = f
         /\ \A k \in 1..(Len(stack) - 1) : s[k] = stack[k]
<1>1. stack \in Seq(Frame) /\ Len(stack) \in 1..Len(stack)
  BY StackTypes DEF Typed
<1> QED
  BY <1>1, ExceptSeq, LenProperties

LEMMA Pushed ==
  ASSUME NEW t \in Seq(Frame), NEW f \in Frame
  PROVE  /\ Append(t, f) \in Seq(Frame) /\ Len(Append(t, f)) = Len(t) + 1
         /\ DOMAIN Append(t, f) = 1..(Len(t) + 1)
         /\ Append(t, f)[Len(t) + 1] = f
         /\ \A k \in 1..Len(t) : Append(t, f)[k] = t[k]
  BY AppendProperties, LenProperties

(***************************************************************************)
(* One lemma for each way the stack changes.                                *)
(***************************************************************************)

LEMMA SearchKeeps ==
  ASSUME Typed, MovesInv, Running("lookup"), NEW x \in 0..(map.size - 1), ~Dense(map),
         isArray => Number(Top.key) >= 0, Top.key = Nil => x = Start(Nil),
         stack' = [stack EXCEPT ![Len(stack)].at = x],
         UNCHANGED <<isArray, map, phase, call, written, inserted, foreign, apart>>
  PROVE  stack' \in Seq(Frame) /\ MovesInv'
<1> DEFINE n == Len(stack)
           f == [stack[n] EXCEPT !.at = x]
<1>1. n \in Nat /\ n >= 1 /\ Top = stack[n] /\ DOMAIN stack = 1..n /\ stack[n] \in LookupFrame /\ n % 2 = 1
      /\ stack[n].fn = "lookup"
  BY TopTypes, StackTypes, FrameTypes DEF Running, MovesInv
<1>2. x \in NoSlot..(MaxSize - 1)
  BY MapTypes DEF NoSlot, Typed
<1>3. f \in LookupFrame /\ f.fn = "lookup" /\ f.key = Top.key /\ f.insert = Top.insert /\ f.at = x
  BY <1>1, <1>2 DEF LookupFrame
<1>4. /\ stack' \in Seq(Frame) /\ Len(stack') = n /\ DOMAIN stack' = 1..n
      /\ stack'[n] = f
      /\ \A k \in 1..(n - 1) : stack'[k] = stack[k]
  <2>1. f \in Frame /\ stack' = [stack EXCEPT ![n] = f]
    BY <1>3 DEF Frame
  <2> HIDE DEF f
  <2> QED
    BY <1>1, <2>1, TopChanged
<1> HIDE DEF n, f
<1>5. \A k \in 1..n : k = n \/ k \in 1..(n - 1)
  BY <1>1
<1>6. /\ Growing' = Growing /\ n \notin Growing
      /\ \A k \in Growing : k \in 1..(n - 1) /\ stack'[k] = stack[k]
  BY <1>1, <1>3, <1>4, <1>5, FrameTypes DEF Growing, Frame
<1>7. Alternates'
  BY <1>1, <1>3, <1>4, <1>5, EmptySeq DEF Alternates, MovesInv, FramesInv
<1>8. ASSUME NEW k \in DOMAIN stack', stack'[k].fn = "lookup" 
      PROVE  LookupInv(k)'
  <2>1. CASE k = n
    <3>1. LookupInv(n)
      BY <1>1, n \in 1..n DEF MovesInv, FramesInv
    <3>2. Start(Nil)' = Start(Nil) /\ Dense(map)' = Dense(map) /\ isArray' = isArray /\ map' = map /\ call' = call
      BY DEF Start, Dense
    <3>3. x \in Nat /\ x < map.size
      BY MapTypes DEF Typed
    <3> QED
      BY <1>1, <1>3, <1>4, <2>1, <3>1, <3>2, <3>3 DEF LookupInv
  <2>2. CASE k \in 1..(n - 1)
    <3>1. LookupInv(k) /\ k # Len(stack)
      BY <1>1, <1>4, <1>8, <2>2 DEF MovesInv, FramesInv, n
    <3>2. stack'[k].at = NoSlot
      BY <1>4, <2>2, <3>1 DEF LookupInv
    <3> QED
      BY <1>1, <1>4, <2>2, <3>1, <3>2 DEF LookupInv
  <2> QED
    BY <1>4, <1>5, <2>1, <2>2
<1>9. ASSUME NEW k \in Growing PROVE GrowInv(k)'
  <2>1. GrowInv(k) /\ k \in 1..(n - 1) /\ 2 \in 1..(n - 1) /\ k + 1 \in 1..n
    BY <1>1, <1>6 DEF MovesInv, FramesInv, Alternates, Growing
  <2>2. stack'[k] = stack[k] /\ stack'[2] = stack[2] /\ stack'[k + 1].key = stack[k + 1].key
    BY <1>1, <1>3, <1>4, <1>5, <2>1
  <2> QED
    BY <1>4, <2>1, <2>2 DEF GrowInv, Moving, Dense, n
<1>10. FramesInv'
  BY <1>6, <1>7, <1>8, <1>9 DEF FramesInv
<1>11. Maps' = Maps
  BY <1>6 DEF Maps
<1>12. MapsInv'
  BY <1>11 DEF MapsInv, MovesInv, HalfEmpty, Dense
<1>13. ElementsInv'
  BY <1>1, <1>4, <1>6, <1>11 DEF ElementsInv, MovesInv, Dense
<1> QED
  BY <1>4, <1>10, <1>12, <1>13 DEF MovesInv

\* What every step leaves behind it finds again.
LEMMA LowerFrames ==
  ASSUME Typed, MovesInv, phase = "running"
  PROVE  /\ \A k \in 1..Len(stack) : stack[k].fn = "lookup" =>
              LookupInv(k) /\ (k # Len(stack) => stack[k].at = NoSlot)
         /\ \A k \in Growing : /\ GrowInv(k) /\ k \in 2..Len(stack) /\ 2 \in Growing /\ stack[2] \in GrowFrame
                               /\ stack[k] \in GrowFrame
         /\ Len(stack) > 1 => 2 \in Growing
         /\ Len(stack) = 1 => Growing = {}
<1>1. Len(stack) \in Nat /\ DOMAIN stack = 1..Len(stack) /\ \A k \in 1..Len(stack) : stack[k] \in Frame
  BY StackTypes
<1>2. \A k \in 1..Len(stack) : stack[k].fn = "lookup" => LookupInv(k)
  BY <1>1 DEF MovesInv, FramesInv
<1>3. \A k \in Growing : GrowInv(k) /\ stack[k] \in GrowFrame
  BY <1>1, FrameTypes DEF MovesInv, FramesInv, Growing
<1>4. \A k \in 1..Len(stack) : stack[k].fn = IF k % 2 = 1 THEN "lookup" ELSE "grow"
  BY <1>1 DEF MovesInv, FramesInv, Alternates
<1>5. \A k \in Growing : k \in 2..Len(stack)
  BY <1>1, <1>4 DEF Growing
<1>6. Len(stack) > 1 => 2 \in Growing
  BY <1>1, <1>4 DEF Growing
<1>7. Growing # {} => Len(stack) > 1
  BY <1>1, <1>5
<1>8. \A k \in 1..Len(stack) : stack[k].fn = "lookup" /\ k # Len(stack) => stack[k].at = NoSlot
  BY <1>2 DEF LookupInv
<1>9. \A k \in Growing : /\ GrowInv(k) /\ k \in 2..Len(stack) /\ 2 \in Growing /\ stack[2] \in GrowFrame
                         /\ stack[k] \in GrowFrame
  BY <1>3, <1>5, <1>6, <1>7
<1>10. Len(stack) = 1 => Growing = {}
  BY <1>7
<1> QED
  BY <1>2, <1>6, <1>8, <1>9, <1>10

LEMMA GrowKeeps ==
  ASSUME Typed, MovesInv, Running("lookup"), NEW min \in Nat, GrowSize(min) <= MaxSize, GrowObject(min),
         UNCHANGED <<isArray, call, written, inserted, foreign>>
  PROVE  /\ stack' \in Seq(Frame) /\ map' \in Map /\ apart' \in BOOLEAN /\ phase' = phase /\ MovesInv'
         /\ Maps' \subseteq Maps \cup {map'} /\ map'.size >= map.size
         /\ \A x \in 0..(2 * map'.size - 1) : map'.slots[x] = Nil
<1> DEFINE n == Len(stack)
           size == GrowSize(min)
           dense == isArray /\ size <= DenseMax
           f == [stack[n] EXCEPT !.key = IF isArray THEN Number(@) ELSE @, !.at = NoSlot]
           g == [fn |-> "grow", old |-> map, dense |-> dense, i |-> 0, limit |-> Limit(dense), value |-> Nil]
<1>1. n \in Nat /\ n >= 1 /\ Top = stack[n] /\ DOMAIN stack = 1..n /\ stack[n] \in LookupFrame /\ n % 2 = 1
      /\ stack[n].fn = "lookup" /\ phase = "running"
  BY TopTypes, StackTypes, FrameTypes DEF Running, MovesInv
<1>2. map \in Map /\ map.size \in Nat /\ map.size >= 1 /\ map.size <= MaxSize /\ MaxSize \in Nat
  BY MapTypes DEF Typed
<1>3. size \in Nat /\ size >= 2 * map.size /\ size \in 1..MaxSize
  BY <1>2, GrowSizeTypes
<1>4. /\ map' = NewEmpty(size) /\ apart' = (apart /\ KeepsApart(size)) /\ phase' = phase
      /\ stack' = Append([stack EXCEPT ![n].key = IF isArray THEN Number(@) ELSE @, ![n].at = NoSlot], g)
  <2>1. ~(GrowSize(min) > MaxSize)
    BY <1>2, <1>3
  <2> QED
    BY <2>1, Zenon DEF GrowObject
<1>5. /\ f \in LookupFrame /\ f.fn = "lookup" /\ f.insert = stack[n].insert /\ f.at = NoSlot
      /\ f.key = IF isArray THEN Number(stack[n].key) ELSE stack[n].key
  <2>1. NoSlot \in NoSlot..(MaxSize - 1)
    BY <1>2 DEF NoSlot
  <2> QED
    BY <1>1, <2>1, NumberTypes DEF LookupFrame
<1>6. g \in GrowFrame
  BY <1>2 DEF GrowFrame, Limit, Contents, Typed
<1>7. [stack EXCEPT ![n].key = IF isArray THEN Number(@) ELSE @, ![n].at = NoSlot] = [stack EXCEPT ![n] = f]
  BY <1>1
<1>8. /\ stack' \in Seq(Frame) /\ Len(stack') = n + 1 /\ DOMAIN stack' = 1..(n + 1)
      /\ stack'[n] = f /\ stack'[n + 1] = g
      /\ \A k \in 1..(n - 1) : stack'[k] = stack[k]
  <2>1. f \in Frame /\ g \in Frame
    BY <1>5, <1>6 DEF Frame
  <2> DEFINE t == [stack EXCEPT ![n] = f]
  <2>0. t = [stack EXCEPT ![n] = f]
    OBVIOUS
  <2> HIDE DEF f, g, t
  <2>2. t \in Seq(Frame) /\ Len(t) = n /\ t[n] = f /\ \A k \in 1..(n - 1) : t[k] = stack[k]
    <3>1. Len(stack) >= 1
      BY <1>1
    <3>2. /\ t \in Seq(Frame) /\ Len(t) = Len(stack) /\ t[Len(stack)] = f
          /\ \A k \in 1..(Len(stack) - 1) : t[k] = stack[k]
      BY <2>0, <2>1, <3>1, TopChanged, ZenonT(30)
    <3> QED
      BY <3>2
  <2>3. stack' = Append(t, g)
    BY <1>4, <1>7, <2>0
  <2>4. /\ stack' \in Seq(Frame) /\ Len(stack') = n + 1 /\ DOMAIN stack' = 1..(n + 1)
        /\ stack'[n + 1] = g /\ \A k \in 1..n : stack'[k] = t[k]
    BY <2>1, <2>2, <2>3, Pushed
  <2> QED
    BY <1>1, <2>2, <2>4
<1>9. /\ g.fn = "grow" /\ g.old = map /\ g.dense = dense /\ g.i = 0 /\ g.limit = Limit(dense)
  OBVIOUS
<1>10. Dense(map)' = dense /\ map'.size = size /\ map' \in Map
      /\ \A x \in 0..(2 * map'.size - 1) : map'.slots[x] = Nil
  BY <1>3, <1>4, MapEmpty DEF Dense
<1>11. dense => Dense(map)
  BY <1>3, <1>2, BoundsAssumption DEF Dense
<1>12. Limit(dense) = IF dense THEN 4 * map.size ELSE 2 * map.size
  BY DEF Limit
<1>13. dense = (isArray /\ size <= DenseMax)
  OBVIOUS
<1> HIDE DEF n, size, dense, f, g
<1>14. \A k \in 1..(n + 1) : k = n + 1 \/ k = n \/ k \in 1..(n - 1)
  BY <1>1
<1>15. \A k \in Growing : /\ k \in 2..(n - 1) /\ stack'[k] = stack[k] /\ GrowInv(k) /\ 2 \in Growing
                          /\ stack'[2] = stack[2] /\ stack[k] \in GrowFrame /\ stack[2] \in GrowFrame
  <2>1. \A k \in Growing : k # n
    BY <1>1 DEF Growing
  <2>2. \A k \in Growing : GrowInv(k) /\ k \in 2..n /\ 2 \in Growing /\ stack[2] \in GrowFrame /\ stack[k] \in GrowFrame
    BY <1>1, LowerFrames DEF n
  <2>3. \A k \in Growing : k \in 2..(n - 1) /\ k \in 1..(n - 1) /\ 2 \in 1..(n - 1)
    BY <1>1, <2>1, <2>2
  <2> QED
    BY <1>8, <2>2, <2>3
<1>16. Growing' = Growing \cup {n + 1}
  BY <1>1, <1>5, <1>8, <1>9, <1>14 DEF Growing
<1>17. Alternates'
  <2>1. stack' # <<>> /\ phase' = "running"
    BY <1>1, <1>4, <1>8, EmptySeq
  <2>2. \A k \in 1..(n - 1) : stack[k].fn = IF k % 2 = 1 THEN "lookup" ELSE "grow"
    BY <1>1 DEF Alternates, MovesInv, FramesInv
  <2>3. stack'[n].fn = IF n % 2 = 1 THEN "lookup" ELSE "grow"
    BY <1>1, <1>5, <1>8
  <2>4. stack'[n + 1].fn = IF (n + 1) % 2 = 1 THEN "lookup" ELSE "grow"
    BY <1>1, <1>8, <1>9
  <2>5. \A k \in DOMAIN stack' : stack'[k].fn = IF k % 2 = 1 THEN "lookup" ELSE "grow"
    BY <1>8, <1>14, <2>2, <2>3, <2>4
  <2> QED
    BY <2>1, <2>5 DEF Alternates
<1>18. ASSUME NEW k \in DOMAIN stack', stack'[k].fn = "lookup"
       PROVE  LookupInv(k)'
  <2>1. CASE k = n
    <3>1. LookupInv(n)
      BY <1>1, n \in 1..n DEF MovesInv, FramesInv
    <3>2. stack'[n].key \in {stack[n].key, Number(stack[n].key)} /\ stack'[n].insert = stack[n].insert /\ stack'[n].at = NoSlot
      BY <1>5, <1>8
    <3>3. n > 1 => stack'[n].key # Nil
      BY <3>1, <3>2, NumberTypes DEF LookupInv
    <3>4. n = 1 => stack'[n].key \in {call.key, Number(call.key)}
      BY <3>1, <3>2, NumberTypes DEF LookupInv
    <3> QED
      BY <2>1, <3>1, <3>2, <3>3, <3>4 DEF LookupInv
  <2>2. CASE k \in 1..(n - 1)
    <3>1. LookupInv(k) /\ stack[k].at = NoSlot
      <4>1. k \in 1..n /\ stack[k].fn = "lookup" /\ k # n
        BY <1>1, <1>8, <1>18, <2>2
      <4> QED
        BY <1>1, <4>1, LowerFrames DEF n
    <3> QED
      BY <1>8, <2>2, <3>1 DEF LookupInv
  <2> QED
    BY <1>8, <1>9, <1>14, <1>18, <2>1, <2>2
<1>19. ASSUME NEW k \in Growing PROVE GrowInv(k)'
  <2>1. /\ k \in 2..(n - 1) /\ stack'[k] = stack[k] /\ stack'[2] = stack[2] /\ GrowInv(k)
        /\ stack[k] \in GrowFrame /\ stack[k].old \in Map /\ stack[k].i \in Nat /\ Moving(k)
    BY <1>1, <1>15 DEF GrowFrame, GrowInv, n
  <2>2. stack[k].old.size \in 1..MaxSize
    BY <2>1, MapTypes
  <2>3. stack[k].dense => stack'[k + 1].key = stack[k].i
    <3>1. CASE k + 1 = n
      <4> SUFFICES ASSUME stack[k].dense PROVE stack'[n].key = stack[k].i
        BY <3>1
      <4>1. stack[n].key = stack[k].i /\ isArray
        BY <2>1, <3>1 DEF GrowInv, Moving
      <4>2. stack[k].i \in Numbers
        BY <1>2, <2>1, <2>2 DEF GrowInv, Moving, Numbers
      <4> QED
        BY <1>5, <1>8, <4>1, <4>2 DEF Number
    <3>2. CASE k + 1 # n
      BY <1>1, <1>8, <2>1, <3>2 DEF Moving
    <3> QED
      BY <3>1, <3>2
  <2>4. Moving(k)'
    BY <2>1, <2>3 DEF Moving
  <2>5. 2 * stack[k].old.size <= map'.size
    BY <1>2, <1>3, <1>10, <2>1, <2>2 DEF GrowInv
  <2>6. ~stack[k].dense => ~Dense(map)'
    BY <1>10, <1>11, <2>1 DEF GrowInv
  <2> QED
    BY <2>1, <2>4, <2>5, <2>6 DEF GrowInv
<1>20. ASSUME NEW k, k = n + 1 PROVE GrowInv(k)'
  <2>1. stack'[2].old.size <= map.size
    <3>1. CASE n = 1
      BY <1>2, <1>8, <1>9, <3>1
    <3>2. CASE n # 1
      <4>1. 2 \in Growing
        <5>1. Len(stack) > 1 /\ phase = "running"
          BY <1>1, <3>2 DEF n
        <5> QED
          BY <5>1, LowerFrames
      <4>2. 2 * stack[2].old.size <= map.size /\ stack[2] \in GrowFrame
        BY <1>15, <4>1 DEF GrowInv
      <4>3. stack[2].old.size \in Nat
        BY <4>2, MapTypes DEF GrowFrame
      <4> QED
        BY <1>2, <1>15, <4>1, <4>2, <4>3
    <3> QED
      BY <3>1, <3>2
  <2>2. ~(k < Len(stack')) /\ stack'[k] = g
    BY <1>1, <1>8, <1>20
  <2>3. 0 <= g.limit /\ 2 * g.old.size <= map'.size
    BY <1>2, <1>3, <1>9, <1>10, <1>12
  <2> QED
    BY <1>9, <1>10, <1>12, <1>13, <2>1, <2>2, <2>3 DEF GrowInv
<1>21. FramesInv'
  BY <1>16, <1>17, <1>18, <1>19, <1>20 DEF FramesInv
<1>22. Maps' = Maps \cup {map'}
  BY <1>8, <1>9, <1>15, <1>16 DEF Maps
<1>23. MapsInv'
  <2>1. ASSUME NEW m, m = map' PROVE HalfEmpty(m)'
    <3>1. m.size \in Nat /\ \A x \in 0..(2 * m.size - 1) : m.slots[x] = Nil
      BY <1>3, <1>10, <2>1
    <3>2. \A x \in 0..(m.size - 1) : x \in 0..(2 * m.size - 1) /\ m.size + x \in 0..(2 * m.size - 1)
      BY <3>1
    <3> QED
      BY <3>1, <3>2 DEF HalfEmpty
  <2>2. ASSUME NEW m \in Maps PROVE HalfEmpty(m)'
    BY DEF MovesInv, MapsInv, HalfEmpty, Dense
  <2>3. \E s \in Sizes : s <= map'.size
    <3>1. PICK s \in Sizes : s <= map.size
      BY DEF MovesInv, MapsInv, Maps
    <3> QED
      BY <1>2, <1>3, <1>10, <3>1, BoundsAssumption
  <2>4. apart' => KeepsApart(map'.size) /\ apart
    BY <1>4, <1>10
  <2>5. \A m \in Maps : \E s \in Sizes : s <= m.size
    BY DEF MovesInv, MapsInv
  <2>6. apart => \A m \in Maps : KeepsApart(m.size)
    BY DEF MovesInv, MapsInv
  <2> QED
    BY <1>22, <2>1, <2>2, <2>3, <2>4, <2>5, <2>6 DEF MapsInv
<1>24. ElementsInv'
  <2> SUFFICES ASSUME dense, apart
               PROVE  /\ \A e \in Elements :
                           /\ Found(e)' \/ \E k \in Growing' : Waits(e, k)'
                           /\ e < stack'[2].old.size
                      /\ \A m \in Maps' : \A i \in 0..(m.size - 1) : Holds(m, i)'
    BY <1>4, <1>10 DEF ElementsInv, Elements
  <2>1. Dense(map)
    BY <1>11
  <2>2. ASSUME NEW e \in Elements PROVE \E k \in Growing' : Waits(e, k)'
    <3>1. CASE Found(e)
      <4>1. e \in Nat
        BY BoundsAssumption DEF Elements, Typed
      <4> QED
        BY <1>8, <1>9, <1>16, <3>1, <4>1 DEF Found, Waits
    <3>2. CASE \E k \in Growing : Waits(e, k)
      BY <1>15, <1>16, <3>2 DEF Waits
    <3> QED
      BY <2>1, <3>1, <3>2 DEF MovesInv, ElementsInv
  <2>3. ASSUME NEW e \in Elements PROVE e < stack'[2].old.size
    <3>1. CASE n = 1
      <4>1. Growing = {}
        BY <1>1, <3>1, LowerFrames DEF n
      <4> QED
        BY <1>8, <1>9, <2>1, <3>1, <4>1 DEF MovesInv, ElementsInv, Found
    <3>2. CASE n # 1
      <4>1. n > 1 /\ 2 \in Growing
        <5>1. Len(stack) > 1 /\ phase = "running"
          BY <1>1, <3>2 DEF n
        <5> QED
          BY <5>1, LowerFrames DEF n
      <4> QED
        BY <1>15, <2>1, <4>1 DEF MovesInv, ElementsInv, n
    <3> QED
      BY <3>1, <3>2
  <2>4. ASSUME NEW m \in Maps', NEW i \in 0..(m.size - 1) PROVE Holds(m, i)'
    <3>1. CASE m = map'
      BY <1>3, <1>10, <3>1 DEF Holds
    <3>2. CASE m \in Maps
      BY <2>1, <3>2 DEF MovesInv, ElementsInv, Holds, Elements
    <3> QED
      BY <1>22, <3>1, <3>2
  <2> QED
    BY <2>2, <2>3, <2>4
<1>25. apart' \in BOOLEAN
  BY <1>4 DEF Typed, KeepsApart
<1>26. map'.size >= map.size
  BY <1>2, <1>3, <1>10
<1> QED
  BY <1>4, <1>8, <1>10, <1>21, <1>22, <1>23, <1>24, <1>25, <1>26 DEF MovesInv

\* The growth below gets its element stored, or nothing if it is not of a dense array.
Received(slot) ==
  \/ slot = NoSlot /\ ~stack[Len(stack) - 1].dense
  \/ /\ Dense(map) /\ Number(Top.key) \in 0..(map.size - 1)
     /\ slot = BitAnd(Number(Top.key), map.size - 1)

LEMMA ReturnKeeps ==
  ASSUME Typed, MovesInv, Running("lookup"), Len(stack) > 1, NEW slot, Return(slot, map), Received(slot),
         UNCHANGED <<isArray, call, written, inserted, foreign, apart>>
  PROVE  /\ stack' \in Seq(Frame) /\ map' \in Map /\ phase' = phase /\ result' = result /\ MovesInv'
         /\ \A m \in Maps' : m = map' \/ m \in Maps
         /\ map'.size = map.size
         /\ \A x \in 0..(2 * map.size - 1) :
              map'.slots[x] = map.slots[x] \/ (Dense(map) /\ x = slot /\ x <= Number(Top.key))
<1> DEFINE n == Len(stack)
           b == stack[n - 1]
           g == [b EXCEPT !.i = @ + 1]
<1>1. n \in Nat /\ n >= 3 /\ Top = stack[n] /\ DOMAIN stack = 1..n /\ stack[n].fn = "lookup" /\ n % 2 = 1
      /\ phase = "running"
  BY TopTypes, StackTypes, FrameTypes DEF Running, MovesInv
<1>2. map \in Map /\ map.size \in Nat /\ map.size >= 1 /\ map.size <= MaxSize /\ MaxSize \in Nat
      /\ isArray' = isArray /\ foreign' = foreign
  BY MapTypes DEF Typed
<1>3. \A k \in 1..n : stack[k].fn = IF k % 2 = 1 THEN "lookup" ELSE "grow"
  BY <1>1 DEF Alternates, MovesInv, FramesInv
<1>4. n - 1 \in Growing /\ b.fn = "grow" /\ n - 1 \in 1..n
  BY <1>1, <1>3 DEF Growing
<1>5. b \in GrowFrame /\ GrowInv(n - 1) /\ Moving(n - 1) /\ b.i \in Nat /\ b.old \in Map
  <2>1. b \in GrowFrame /\ GrowInv(n - 1)
    BY <1>1, <1>4, LowerFrames
  <2>2. n - 1 < Len(stack)
    BY <1>1
  <2> QED
    BY <2>1, <2>2 DEF GrowInv, GrowFrame
<1>6. b.old.size \in Nat /\ b.old.size >= 1 /\ b.old.size <= MaxSize
  BY <1>5, MapTypes
<1>7. /\ g \in GrowFrame /\ g.fn = "grow" /\ g.old = b.old /\ g.dense = b.dense /\ g.limit = b.limit
      /\ g.value = b.value /\ g.i = b.i + 1
  BY <1>5 DEF GrowFrame
<1>8. /\ stack' = [Below EXCEPT ![n - 1] = g]
      /\ map' = IF slot = NoSlot THEN map ELSE [map EXCEPT !.slots[slot] = b.value]
      /\ phase' = phase /\ result' = result
  <2>0. /\ Len(Below) = n - 1 /\ DOMAIN Below = 1..(n - 1)
        /\ \A k \in 1..(n - 1) : Below[k] = stack[k]
        /\ Below = <<>> <=> n = 1
    <3>1. Len(stack) >= 1
      BY <1>1
    <3> QED
      BY <3>1, BelowTypes
  <2>1. Below # <<>> /\ Len(Below) = n - 1 /\ Below[n - 1] = b /\ n - 1 \in DOMAIN Below
    BY <1>1, <2>0
  <2>2. /\ stack' = [Below EXCEPT ![Len(Below)].i = @ + 1]
        /\ map' = IF slot = NoSlot THEN map ELSE [map EXCEPT !.slots[slot] = Below[Len(Below)].value]
        /\ phase' = phase /\ result' = result
    BY <2>1 DEF Return
  <2>3. [Below EXCEPT ![n - 1].i = @ + 1] = [Below EXCEPT ![n - 1] = g]
    BY <2>1
  <2> QED
    BY <2>1, <2>2, <2>3
<1>9. /\ stack' \in Seq(Frame) /\ Len(stack') = n - 1 /\ DOMAIN stack' = 1..(n - 1)
      /\ stack'[n - 1] = g
      /\ \A k \in 1..(n - 2) : stack'[k] = stack[k]
  <2>1. Below \in Seq(Frame) /\ Len(Below) = n - 1 /\ \A k \in 1..(n - 1) : Below[k] = stack[k]
    <3>1. Len(stack) >= 1
      BY <1>1
    <3> QED
      BY <3>1, BelowTypes
  <2>2. g \in Frame /\ n - 1 \in 1..Len(Below)
    BY <1>1, <1>7, <2>1 DEF Frame
  <2> HIDE DEF g
  <2> HIDE DEF n
  <2>3. /\ stack' \in Seq(Frame) /\ Len(stack') = Len(Below) /\ DOMAIN stack' = 1..Len(Below)
        /\ stack'[n - 1] = g
        /\ \A k \in 1..Len(Below) : k # n - 1 => stack'[k] = Below[k]
    BY <1>8, <2>1, <2>2, Changed
  <2>4. \A k \in 1..(n - 2) : k \in 1..(n - 1) /\ k # n - 1
    BY <1>1
  <2> QED
    BY <2>1, <2>3, <2>4
<1> HIDE DEF n, b, g
<1>10. \A k \in Growing : k = n - 1 \/ k \in 2..(n - 3)
  <2> SUFFICES ASSUME NEW k \in 1..n, stack[k].fn = "grow" PROVE k = n - 1 \/ k \in 2..(n - 3)
    BY <1>1 DEF Growing
  <2>1. k % 2 # 1
    BY <1>3
  <2> QED
    BY <1>1, <2>1
<1>11. \A k \in 1..(n - 1) : k = n - 1 \/ k \in 1..(n - 2)
  BY <1>1
<1>12. \A k \in Growing : /\ stack'[k].fn = "grow" /\ stack'[k].old = stack[k].old /\ stack'[k].dense = stack[k].dense
                          /\ stack'[k].limit = stack[k].limit /\ stack'[k].value = stack[k].value
                          /\ stack'[k].i = IF k = n - 1 THEN b.i + 1 ELSE stack[k].i
  <2> SUFFICES ASSUME NEW k \in Growing
               PROVE  /\ stack'[k].fn = "grow" /\ stack'[k].old = stack[k].old /\ stack'[k].dense = stack[k].dense
                      /\ stack'[k].limit = stack[k].limit /\ stack'[k].value = stack[k].value
                      /\ stack'[k].i = IF k = n - 1 THEN b.i + 1 ELSE stack[k].i
    OBVIOUS
  <2>1. CASE k = n - 1
    BY <1>4, <1>7, <1>9, <2>1 DEF b
  <2>2. CASE k \in 2..(n - 3)
    BY <1>1, <1>9, <2>2 DEF Growing
  <2> QED
    BY <1>10, <2>1, <2>2
<1>13. Growing' = Growing
  <2>1. \A k \in Growing : k \in 1..(n - 1)
    BY <1>1, <1>10
  <2>2. \A k \in 1..(n - 1) : stack'[k].fn = stack[k].fn
    BY <1>1, <1>4, <1>7, <1>9, <1>11 DEF b
  <2>3. \A k \in 1..(n - 1) : k \in DOMAIN stack
    BY <1>1
  <2> QED
    BY <1>9, <2>1, <2>2, <2>3 DEF Growing
<1>14. map' \in Map /\ map'.size = map.size /\ Dense(map)' = Dense(map)
       /\ \A x \in 0..(2 * map.size - 1) : map'.slots[x] = IF slot # NoSlot /\ x = slot THEN b.value ELSE map.slots[x]
  <2>1. CASE slot = NoSlot
    BY <1>2, <1>8, <2>1 DEF Dense
  <2>2. CASE slot # NoSlot
    <3>1. slot \in 0..(map.size - 1)
      <4>1. Number(Top.key) \in 0..(4 * MaxSize) /\ map.size - 1 \in 0..MaxSize
        BY <1>2, <2>2 DEF Received
      <4>2. slot = BitAnd(Number(Top.key), map.size - 1)
        BY <2>2 DEF Received
      <4> QED
        BY <4>1, <4>2, AndAssumption
    <3>2. slot \in 0..(2 * map.size - 1) /\ b.value \in Contents
      BY <1>2, <1>5, <3>1 DEF GrowFrame
    <3>3. map' = [map EXCEPT !.slots[slot] = b.value]
      BY <1>8, <2>2
    <3> QED
      BY <1>2, <2>2, <3>2, <3>3, MapChanged DEF Dense
  <2> QED
    BY <2>1, <2>2
<1>15. slot # NoSlot => /\ slot \in 0..(map.size - 1) /\ slot <= Number(Top.key) /\ Dense(map)
                        /\ Number(Top.key) \in 0..(map.size - 1)
                        /\ KeepsApart(map.size) => slot = Number(Top.key)
  <2> SUFFICES ASSUME slot # NoSlot
               PROVE  /\ slot \in 0..(map.size - 1) /\ slot <= Number(Top.key) /\ Dense(map)
                      /\ Number(Top.key) \in 0..(map.size - 1)
                      /\ KeepsApart(map.size) => slot = Number(Top.key)
    OBVIOUS
  <2>1. Number(Top.key) \in 0..(map.size - 1) /\ map.size - 1 \in 0..MaxSize /\ Dense(map)
    BY <1>2 DEF Received
  <2>2. slot = BitAnd(Number(Top.key), map.size - 1) /\ Number(Top.key) \in 0..(4 * MaxSize)
    BY <1>2, <2>1 DEF Received
  <2> QED
    BY <2>1, <2>2, AndAssumption DEF KeepsApart
<1>16. Alternates'
  <2>1. stack' # <<>> /\ phase' = "running"
    BY <1>1, <1>8, <1>9, EmptySeq
  <2>2. \A k \in DOMAIN stack' : stack'[k].fn = stack[k].fn /\ k \in 1..n
    BY <1>1, <1>4, <1>7, <1>9, <1>11 DEF b
  <2> QED
    BY <1>3, <2>1, <2>2 DEF Alternates
<1>17. ASSUME NEW k \in DOMAIN stack', stack'[k].fn = "lookup"
       PROVE  LookupInv(k)'
  <2>1. k \in 1..(n - 2) /\ k \in 1..n /\ k # n /\ stack'[k] = stack[k] /\ stack[k].fn = "lookup"
    BY <1>1, <1>7, <1>9, <1>11, <1>17
  <2>2. LookupInv(k) /\ stack[k].at = NoSlot
    BY <1>1, <2>1, LowerFrames DEF n
  <2> QED
    BY <2>1, <2>2 DEF LookupInv
<1>18. ASSUME NEW k \in Growing PROVE GrowInv(k)'
  <2>1. GrowInv(k) /\ 2 \in Growing
    BY <1>1, LowerFrames
  <2>2. CASE k = n - 1
    <3>1. ~(k < Len(stack'))
      BY <1>1, <1>9, <2>2
    <3>2. b.i + 1 <= b.limit
      <4>1. b.i < b.limit /\ b.i \in Nat /\ b.limit \in Nat
        BY <1>5 DEF Moving, b, GrowFrame
      <4> QED
        BY <4>1
    <3>3. stack[k] = b
      BY <2>2 DEF b
    <3> QED
      BY <1>2, <1>12, <1>14, <2>1, <2>2, <3>1, <3>2, <3>3 DEF GrowInv
  <2>3. CASE k \in 2..(n - 3)
    <3>1. k < Len(stack) /\ k < Len(stack') /\ k # n - 1 /\ k + 1 \in 1..(n - 2)
      BY <1>1, <1>9, <2>3 DEF n
    <3>2. stack'[k + 1] = stack[k + 1]
      BY <1>9, <3>1
    <3>3. Moving(k)'
      BY <1>2, <1>12, <2>1, <3>1, <3>2 DEF Moving, GrowInv
    <3> QED
      BY <1>2, <1>12, <1>14, <2>1, <3>1, <3>3 DEF GrowInv
  <2> QED
    BY <1>10, <2>2, <2>3
<1>19. FramesInv'
  BY <1>13, <1>16, <1>17, <1>18 DEF FramesInv
<1>20. Maps' = {map'} \cup {stack[k].old : k \in Growing}
  BY <1>12, <1>13 DEF Maps
<1>21. MapsInv'
  <2>1. ASSUME NEW m, m = map' PROVE HalfEmpty(m)'
    <3>1. ASSUME NEW x \in 0..(map.size - 1)
          PROVE  map'.slots[IF Dense(map) THEN map.size + x ELSE x] = Nil
      <4>1. map.slots[IF Dense(map) THEN map.size + x ELSE x] = Nil
        BY DEF MovesInv, MapsInv, Maps, HalfEmpty
      <4>2. CASE Dense(map)
        BY <1>2, <1>14, <1>15, <4>1, <4>2
      <4>3. CASE ~Dense(map)
        BY <1>2, <1>14, <1>15, <4>1, <4>3
      <4> QED
        BY <4>2, <4>3
    <3>2. Dense(m)' = Dense(map)
      BY <1>14, <2>1 DEF Dense
    <3> QED
      BY <1>14, <2>1, <3>1, <3>2 DEF HalfEmpty
  <2>2. ASSUME NEW m \in Maps PROVE HalfEmpty(m)'
    BY DEF MovesInv, MapsInv, HalfEmpty, Dense
  <2>3. \A m \in Maps : \E s \in Sizes : s <= m.size
    BY DEF MovesInv, MapsInv
  <2>4. apart => \A m \in Maps : KeepsApart(m.size)
    BY DEF MovesInv, MapsInv
  <2>5. \A m \in Maps' : m = map' \/ m \in Maps
    BY <1>20 DEF Maps
  <2> QED
    BY <1>14, <2>1, <2>2, <2>3, <2>4, <2>5 DEF MapsInv, Maps
<1>22. ElementsInv'
  <2> SUFFICES ASSUME Dense(map), apart
               PROVE  /\ \A e \in Elements :
                           /\ Found(e)' \/ \E k \in Growing : Waits(e, k)'
                           /\ e < stack'[2].old.size
                      /\ \A m \in Maps' : \A i \in 0..(m.size - 1) : Holds(m, i)'
    BY <1>13, <1>14 DEF ElementsInv, Elements
  <2> DEFINE j == b.i
  <2>1. b.dense /\ isArray /\ Dense(b.old)
    <3>1. b.dense /\ isArray /\ 2 * b.old.size <= map.size
      BY <1>5 DEF GrowInv, b
    <3> QED
      BY <1>2, <1>6, <3>1, BoundsAssumption DEF Dense
  <2>2. /\ Top.key = j /\ b.value # Nil /\ j \in Nat /\ j < 4 * b.old.size
        /\ j < 2 * b.old.size => b.value = b.old.slots[j]
        /\ j >= 2 * b.old.size => b.value = Foreign
    <3>1. stack[n - 1 + 1] = Top
      BY <1>1
    <3> QED
      BY <1>5, <2>1, <3>1 DEF Moving, GrowInv, b
  <2>3. Number(Top.key) = j
    BY <1>2, <1>6, <2>2 DEF Number, Numbers
  <2>4. slot = j /\ slot # NoSlot /\ j < map.size /\ map'.slots[j] = b.value
    <3>1. slot # NoSlot
      <4>1. Number(Top.key) \in 0..(4 * MaxSize) /\ map.size - 1 \in 0..MaxSize
            /\ slot = BitAnd(Number(Top.key), map.size - 1)
        BY <1>2, <2>1 DEF Received, b, n
      <4> QED
        BY <4>1, AndAssumption DEF NoSlot
    <3>2. KeepsApart(map.size)
      BY DEF MovesInv, MapsInv, Maps
    <3> QED
      BY <1>2, <1>14, <1>15, <2>3, <3>1, <3>2
  <2>5. j < b.old.size \/ j >= 2 * b.old.size
    <3> SUFFICES ASSUME j >= b.old.size, j < 2 * b.old.size PROVE FALSE
      BY <1>6, <2>2
    <3>1. b.old \in Maps
      BY <1>4 DEF Maps, b
    <3>2. \A x \in 0..(b.old.size - 1) : b.old.slots[b.old.size + x] = Nil
      BY <2>1, <3>1 DEF MovesInv, MapsInv, HalfEmpty
    <3>3. j - b.old.size \in 0..(b.old.size - 1) /\ b.old.size + (j - b.old.size) = j
      BY <1>6, <2>2
    <3> QED
      BY <2>2, <3>2, <3>3
  <2>6. \A e \in Elements : e < b.old.size /\ e \in Nat
    <3>1. \A e \in Elements : e < stack[2].old.size
      BY <1>1 DEF MovesInv, ElementsInv, n
    <3>0. \A e \in Elements : e \in Nat
      BY BoundsAssumption DEF Elements, Typed
    <3>2. stack[2].old.size <= b.old.size /\ stack[2].old.size \in Nat
      <4>1. 2 \in Growing /\ stack[2] \in GrowFrame
        BY <1>1, <1>4, LowerFrames
      <4> QED
        BY <1>5, <4>1, MapTypes DEF GrowInv, GrowFrame, b
    <3> QED
      BY <1>6, <3>0, <3>1, <3>2
  <2>7. b.old \in Maps /\ \A m \in Maps : \A i \in 0..(m.size - 1) : Holds(m, i)
    BY <1>4 DEF Maps, b, MovesInv, ElementsInv
  <2>8. Elements' = Elements
    BY DEF Elements
  <2>9. j \in Elements => b.value = written[j]
    <3> SUFFICES ASSUME j \in Elements PROVE b.value = written[j]
      OBVIOUS
    <3>1. j < b.old.size /\ j \in 0..(b.old.size - 1) /\ j < 2 * b.old.size
      BY <1>6, <2>2, <2>6
    <3> QED
      BY <2>2, <2>7, <3>1 DEF Holds
  <2>10. ASSUME NEW e \in Elements PROVE Found(e)' \/ \E k \in Growing : Waits(e, k)'
    <3>1. CASE e = j
      BY <1>14, <2>4, <2>9, <3>1 DEF Found
    <3>2. CASE e # j /\ Found(e)
      <4>1. e \in 0..(2 * map.size - 1) /\ e < map.size
        BY <1>2, <2>6, <3>2 DEF Found
      <4> QED
        BY <1>14, <2>4, <3>2, <4>1 DEF Found
    <3>3. CASE e # j /\ \E k \in Growing : Waits(e, k)
      <4> PICK k \in Growing : Waits(e, k)
        BY <3>3
      <4>1. stack'[k].i <= e
        BY <1>12, <2>2, <2>6, <3>3 DEF Waits, b
      <4> QED
        BY <1>12, <4>1 DEF Waits
    <3> QED
      BY <3>1, <3>2, <3>3 DEF MovesInv, ElementsInv
  <2>11. ASSUME NEW e \in Elements PROVE e < stack'[2].old.size
    <3>1. 2 \in Growing /\ Len(stack) > 1
      BY <1>1, <1>4, LowerFrames
    <3> QED
      BY <1>12, <3>1 DEF MovesInv, ElementsInv
  <2>12. ASSUME NEW m \in Maps', NEW i \in 0..(m.size - 1) PROVE Holds(m, i)'
    <3>1. CASE m = map'
      <4>0. i \in 0..(map.size - 1) /\ i \in 0..(2 * map.size - 1)
        BY <1>2, <1>14, <3>1
      <4>1. CASE i # j
        <5>1. map'.slots[i] = map.slots[i] /\ Holds(map, i)
          BY <1>14, <2>4, <2>7, <4>0, <4>1 DEF Maps
        <5> QED
          BY <2>8, <3>1, <5>1 DEF Holds
      <4>2. CASE i = j /\ j < b.old.size
        <5>1. Holds(b.old, j) /\ b.value = b.old.slots[j]
          BY <1>6, <2>2, <2>7, <4>2
        <5> QED
          BY <2>4, <2>8, <3>1, <4>2, <5>1 DEF Holds
      <4>3. CASE i = j /\ j >= 2 * b.old.size
        <5>1. b.value = Foreign /\ j \notin Elements
          BY <1>6, <2>2, <2>6, <4>3
        <5>2. PICK s \in Sizes : s <= b.old.size
          BY <2>7 DEF MovesInv, MapsInv
        <5>3. j >= 2 * s
          BY <1>6, <2>2, <4>3, <5>2, BoundsAssumption
        <5> QED
          BY <2>4, <2>8, <3>1, <4>3, <5>1, <5>2, <5>3 DEF Holds
      <4> QED
        BY <2>5, <4>1, <4>2, <4>3
    <3>2. CASE m \in Maps
      BY <2>7, <2>8, <3>2 DEF Holds
    <3> QED
      BY <1>20, <3>1, <3>2 DEF Maps
  <2> QED
    BY <2>10, <2>11, <2>12
<1>23. \A m \in Maps' : m = map' \/ m \in Maps
  BY <1>20 DEF Maps
<1>24. \A x \in 0..(2 * map.size - 1) :
         map'.slots[x] = map.slots[x] \/ (Dense(map) /\ x = slot /\ x <= Number(Top.key))
  <2> TAKE x \in 0..(2 * map.size - 1)
  <2>1. CASE slot # NoSlot /\ x = slot
    BY <1>15, <2>1
  <2>2. CASE ~(slot # NoSlot /\ x = slot)
    <3>1. map'.slots[x] = map.slots[x]
      BY <1>14, <2>2
    <3> QED
      BY <3>1
  <2> QED
    BY <2>1, <2>2
<1> QED
  BY <1>8, <1>9, <1>14, <1>19, <1>21, <1>22, <1>23, <1>24 DEF MovesInv

LEMMA ElementTypes ==
  ASSUME Typed, NEW e \in Elements
  PROVE  e \in Nat /\ written[e] # Nil
<1>1. written[e] # Nil /\ e \in {i \in Indices : i >= 0} \cup {0}
  BY DEF Elements, Typed
<1> QED
  BY <1>1, BoundsAssumption

LEMMA GrowTop ==
  ASSUME Typed, MovesInv, Running("grow")
  PROVE  /\ Len(stack) \in Nat /\ Len(stack) >= 2 /\ DOMAIN stack = 1..Len(stack)
         /\ Top = stack[Len(stack)] /\ Len(stack) \in Growing /\ 2 \in Growing
         /\ Top.fn = "grow" /\ Top \in GrowFrame /\ GrowInv(Len(stack))
         /\ Top.i \in Nat /\ Top.limit \in Nat /\ Top.old \in Map
         /\ Top.old.size \in Nat /\ Top.old.size >= 1 /\ Top.old.size <= MaxSize
         /\ Top.limit >= 2 * Top.old.size
         /\ phase = "running" /\ MaxSize \in Nat
         /\ \A k \in 1..Len(stack) : stack[k].fn = IF k % 2 = 1 THEN "lookup" ELSE "grow"
         /\ \A k \in Growing : /\ k \in 2..Len(stack) /\ GrowInv(k) /\ stack[k] \in GrowFrame
                               /\ k = Len(stack) \/ k \in 2..(Len(stack) - 2)
         /\ \A k \in 1..Len(stack) : stack[k].fn = "lookup" => LookupInv(k) /\ stack[k].at = NoSlot
<1> DEFINE n == Len(stack)
<1>1. n \in Nat /\ n >= 2 /\ Top = stack[n] /\ DOMAIN stack = 1..n /\ Top.fn = "grow" /\ phase = "running"
      /\ Top \in GrowFrame /\ n % 2 = 0 /\ n \in 1..n
  BY TopTypes, StackTypes, FrameTypes DEF Running, MovesInv
<1>2. n \in Growing
  BY <1>1 DEF Growing
<1>3. \A k \in Growing : k \in 2..n /\ GrowInv(k) /\ 2 \in Growing /\ stack[k] \in GrowFrame
  BY <1>1, LowerFrames
<1>4. \A k \in 1..n : stack[k].fn = IF k % 2 = 1 THEN "lookup" ELSE "grow"
  BY <1>1 DEF Alternates, MovesInv, FramesInv
<1>5. Top.i \in Nat /\ Top.limit \in Nat /\ Top.old \in Map
  BY <1>1 DEF GrowFrame
<1>6. Top.old.size \in Nat /\ Top.old.size >= 1 /\ Top.old.size <= MaxSize /\ MaxSize \in Nat
  BY <1>5, MapTypes
<1>7. Top.limit >= 2 * Top.old.size
  <2>1. Top.limit = IF Top.dense THEN 4 * Top.old.size ELSE 2 * Top.old.size
    BY <1>1, <1>2, <1>3 DEF GrowInv
  <2> QED
    BY <1>6, <2>1
<1>8. ASSUME NEW k \in Growing PROVE k = n \/ k \in 2..(n - 2)
  <2>1. k \in 2..n /\ k % 2 # 1
    BY <1>1, <1>3, <1>4 DEF Growing
  <2>2. (n - 1) % 2 = 1
    BY <1>1
  <2>3. k # n - 1
    BY <2>1, <2>2
  <2>4. n \in Nat /\ n >= 2
    BY <1>1
  <2> HIDE DEF n
  <2> QED
    BY <2>1, <2>3, <2>4
<1>9. ASSUME NEW k \in 1..n, stack[k].fn = "lookup" PROVE LookupInv(k) /\ stack[k].at = NoSlot
  <2>1. k # n
    BY <1>1, <1>9
  <2> QED
    BY <1>1, <1>9, <2>1, LowerFrames
<1> QED
  BY <1>1, <1>2, <1>3, <1>4, <1>5, <1>6, <1>7, <1>8, <1>9

LEMMA SkipKeeps ==
  ASSUME Typed, MovesInv, Running("grow"), Top.i < Top.limit, Skip,
         Top.dense /\ Top.i < Top.old.size => Top.old.slots[Top.i] = Nil,
         foreign > 0 => foreign' > 0,
         UNCHANGED <<isArray, map, phase, call, written, inserted, apart>>
  PROVE  stack' \in Seq(Frame) /\ MovesInv' /\ Maps' = Maps
<1> DEFINE n == Len(stack)
           g == [stack[n] EXCEPT !.i = @ + 1]
<1>1. n \in Nat /\ n >= 2 /\ Top = stack[n] /\ DOMAIN stack = 1..n /\ phase = "running" /\ stack[n] \in GrowFrame
      /\ n \in Growing /\ Top.i \in Nat /\ Top.limit \in Nat /\ Top.fn = "grow" /\ 2 \in Growing
  BY GrowTop
<1>2. /\ g \in GrowFrame /\ g.fn = "grow" /\ g.old = Top.old /\ g.dense = Top.dense /\ g.limit = Top.limit
      /\ g.value = Top.value /\ g.i = Top.i + 1
  BY <1>1 DEF GrowFrame
<1>3. /\ stack' \in Seq(Frame) /\ Len(stack') = n /\ DOMAIN stack' = 1..n
      /\ stack'[n] = g
      /\ \A k \in 1..(n - 1) : stack'[k] = stack[k]
  <2>1. g \in Frame /\ stack' = [stack EXCEPT ![n] = g] /\ Len(stack) >= 1
    BY <1>1, <1>2 DEF Frame, Skip
  <2> HIDE DEF g
  <2> QED
    BY <2>1, TopChanged, ZenonT(30)
<1> HIDE DEF n, g
<1>4. \A k \in 1..n : k = n \/ k \in 1..(n - 1)
  BY <1>1
<1>5. \A k \in 1..n : stack[k].fn = IF k % 2 = 1 THEN "lookup" ELSE "grow"
  BY GrowTop DEF n
<1>6. \A k \in 1..n : stack'[k].fn = stack[k].fn
  BY <1>1, <1>2, <1>3, <1>4
<1>7. Growing' = Growing
  BY <1>1, <1>3, <1>6 DEF Growing
<1>8. \A k \in Growing : /\ k = n \/ k \in 2..(n - 2)
                         /\ k \in 1..n /\ GrowInv(k)
  <2>1. \A k \in Growing : GrowInv(k) /\ (k = Len(stack) \/ k \in 2..(Len(stack) - 2))
    BY GrowTop
  <2> QED
    BY <1>1, <2>1 DEF n
<1>9. \A k \in Growing : /\ stack'[k].fn = "grow" /\ stack'[k].old = stack[k].old /\ stack'[k].dense = stack[k].dense
                         /\ stack'[k].limit = stack[k].limit /\ stack'[k].value = stack[k].value
                         /\ stack'[k].i = IF k = n THEN Top.i + 1 ELSE stack[k].i
  BY <1>1, <1>2, <1>3, <1>4, <1>8 DEF Growing
<1>10. Alternates'
  <2>1. stack' # <<>> /\ phase' = "running"
    BY <1>1, <1>3, EmptySeq
  <2> QED
    BY <1>3, <1>5, <1>6, <2>1 DEF Alternates
<1>11. ASSUME NEW k \in DOMAIN stack', stack'[k].fn = "lookup"
       PROVE  LookupInv(k)'
  <2>1. k \in 1..(n - 1) /\ stack'[k] = stack[k] /\ stack[k].fn = "lookup"
    BY <1>2, <1>3, <1>4, <1>11
  <2>2. LookupInv(k) /\ stack[k].at = NoSlot
    BY <1>3, <1>4, <2>1, <1>11, GrowTop DEF n
  <2> QED
    BY <2>1, <2>2 DEF LookupInv
<1>12. ASSUME NEW k \in Growing PROVE GrowInv(k)'
  <2>1. GrowInv(k)
    BY <1>8
  <2>2. CASE k = n
    <3>1. ~(k < Len(stack')) /\ Top.i + 1 <= Top.limit /\ stack[k] = Top
      BY <1>1, <1>3, <2>2
    <3> QED
      BY <1>1, <1>9, <2>1, <2>2, <3>1 DEF GrowInv, Dense
  <2>3. CASE k \in 2..(n - 2)
    <3>1. k < n /\ n = Len(stack) /\ k # n /\ k + 1 \in 1..(n - 1)
      <4>1. n \in Nat /\ n = Len(stack)
        BY <1>1 DEF n
      <4> HIDE DEF n
      <4> QED
        BY <2>3, <4>1
    <3>2. stack'[k + 1] = stack[k + 1]
      BY <1>3, <3>1
    <3>3. Moving(k)'
      BY <1>9, <2>1, <3>1, <3>2 DEF Moving, GrowInv
    <3> QED
      BY <1>1, <1>9, <2>1, <3>1, <3>3 DEF GrowInv, Dense
  <2> QED
    BY <1>8, <2>2, <2>3
<1>13. FramesInv'
  BY <1>7, <1>10, <1>11, <1>12 DEF FramesInv
<1>14. Maps' = Maps
  BY <1>7, <1>9 DEF Maps
<1>15. MapsInv'
  BY <1>14 DEF MapsInv, MovesInv, HalfEmpty, Dense
<1>16. ElementsInv'
  <2> SUFFICES ASSUME Dense(map), apart
               PROVE  /\ \A e \in Elements :
                           /\ Found(e)' \/ \E k \in Growing : Waits(e, k)'
                           /\ e < stack'[2].old.size
                      /\ \A m \in Maps : \A i \in 0..(m.size - 1) : Holds(m, i)'
    BY <1>7, <1>14 DEF ElementsInv, Elements, Dense
  <2>1. ASSUME NEW e \in Elements PROVE Found(e)' \/ \E k \in Growing : Waits(e, k)'
    <3>1. CASE Found(e)
      BY <3>1 DEF Found
    <3>2. CASE \E k \in Growing : Waits(e, k)
      <4> PICK k \in Growing : Waits(e, k)
        BY <3>2
      <4>1. e \in Nat /\ written[e] # Nil
        BY ElementTypes
      <4>2. CASE k = n
        <5>1. Top.dense
          BY <1>1, <1>8 DEF GrowInv
        <5>2. e # Top.i
          BY <1>1, <4>1, <4>2, <5>1 DEF Waits
        <5>3. Top.i + 1 <= e
          BY <1>1, <4>1, <4>2, <5>2 DEF Waits
        <5> QED
          BY <1>9, <4>2, <5>3 DEF Waits
      <4>3. CASE k # n
        BY <1>9, <4>3 DEF Waits
      <4> QED
        BY <4>2, <4>3
    <3> QED
      BY <3>1, <3>2 DEF MovesInv, ElementsInv
  <2>2. ASSUME NEW e \in Elements PROVE e < stack'[2].old.size
    BY <1>1, <1>9 DEF MovesInv, ElementsInv, n
  <2>3. ASSUME NEW m \in Maps, NEW i \in 0..(m.size - 1) PROVE Holds(m, i)'
    BY DEF MovesInv, ElementsInv, Holds, Elements
  <2> QED
    BY <2>1, <2>2, <2>3
<1> QED
  BY <1>3, <1>13, <1>14, <1>15, <1>16 DEF MovesInv

LEMMA MoveKeeps ==
  ASSUME Typed, MovesInv, Running("grow"), Top.i < Top.limit, NEW key \in Contents \cup Numbers, NEW w \in Contents,
         Move(key, w), key # Nil,
         Top.dense => /\ key = Top.i /\ w # Nil
                      /\ Top.i < 2 * Top.old.size => w = Top.old.slots[Top.i]
                      /\ Top.i >= 2 * Top.old.size => w = Foreign /\ foreign' > 0,
         foreign > 0 => foreign' > 0,
         UNCHANGED <<isArray, map, phase, call, written, inserted, apart>>
  PROVE  stack' \in Seq(Frame) /\ MovesInv' /\ Maps' = Maps
<1> DEFINE n == Len(stack)
           g == [stack[n] EXCEPT !.value = w]
           l == Lookup(key, TRUE)
<1>1. n \in Nat /\ n >= 2 /\ Top = stack[n] /\ DOMAIN stack = 1..n /\ phase = "running" /\ stack[n] \in GrowFrame
      /\ n \in Growing /\ Top.fn = "grow" /\ 2 \in Growing /\ MaxSize \in Nat
  BY GrowTop
<1>2. /\ g \in GrowFrame /\ g.fn = "grow" /\ g.old = Top.old /\ g.dense = Top.dense /\ g.limit = Top.limit
      /\ g.value = w /\ g.i = Top.i
  BY <1>1 DEF GrowFrame
<1>3. l \in LookupFrame /\ l.fn = "lookup" /\ l.key = key /\ l.insert /\ l.at = NoSlot
  <2>1. map.size \in 1..MaxSize
    BY MapTypes DEF Typed
  <2>2. NoSlot \in NoSlot..(MaxSize - 1)
    BY <1>1, <2>1 DEF NoSlot
  <2> QED
    BY <2>2 DEF LookupFrame, Lookup
<1>4. /\ stack' \in Seq(Frame) /\ Len(stack') = n + 1 /\ DOMAIN stack' = 1..(n + 1)
      /\ stack'[n] = g /\ stack'[n + 1] = l
      /\ \A k \in 1..(n - 1) : stack'[k] = stack[k]
  <2> DEFINE t == [stack EXCEPT ![n] = g]
  <2>0. [stack EXCEPT ![Len(stack)].value = w] = t
    OBVIOUS
  <2>1. stack' = Append(t, l)
    BY <2>0, Zenon DEF Move
  <2>2. t = [stack EXCEPT ![Len(stack)] = g]
    OBVIOUS
  <2>5. g \in Frame /\ Len(stack) >= 1
    BY <1>1, <1>2 DEF Frame
  <2>6. l \in Frame
    BY <1>3 DEF Frame
  <2> HIDE DEF g, l, t
  <2>3. /\ t \in Seq(Frame) /\ Len(t) = Len(stack) /\ t[Len(stack)] = g
        /\ \A k \in 1..(Len(stack) - 1) : t[k] = stack[k]
    BY <2>2, <2>5, TopChanged, ZenonT(30)
  <2>4. /\ stack' \in Seq(Frame) /\ Len(stack') = n + 1 /\ DOMAIN stack' = 1..(n + 1)
        /\ stack'[n + 1] = l /\ \A k \in 1..n : stack'[k] = t[k]
    BY <2>1, <2>3, <2>6, Pushed
  <2> QED
    BY <1>1, <2>3, <2>4
<1> HIDE DEF n, g, l
<1>5. \A k \in 1..(n + 1) : k = n + 1 \/ k = n \/ k \in 1..(n - 1)
  BY <1>1
<1>6. \A k \in 1..n : stack[k].fn = IF k % 2 = 1 THEN "lookup" ELSE "grow"
  BY GrowTop DEF n
<1>7. \A k \in 1..n : stack'[k].fn = stack[k].fn
  <2>1. \A k \in 1..n : k = n \/ k \in 1..(n - 1)
    BY <1>1
  <2> QED
    BY <1>1, <1>2, <1>4, <2>1
<1>8. Growing' = Growing
  <2>1. \A k \in 1..(n + 1) : k = n + 1 \/ k \in 1..n
    BY <1>1
  <2>2. \A k \in 1..n : k \in 1..(n + 1)
    BY <1>1
  <2> QED
    BY <1>1, <1>3, <1>4, <1>7, <2>1, <2>2 DEF Growing
<1>9. \A k \in Growing : /\ k = n \/ k \in 2..(n - 2)
                         /\ k \in 1..n /\ GrowInv(k)
  <2>1. \A k \in Growing : GrowInv(k) /\ (k = Len(stack) \/ k \in 2..(Len(stack) - 2))
    BY GrowTop
  <2> QED
    BY <1>1, <2>1 DEF n
<1>10. \A k \in Growing : /\ stack'[k].fn = "grow" /\ stack'[k].old = stack[k].old /\ stack'[k].dense = stack[k].dense
                          /\ stack'[k].limit = stack[k].limit /\ stack'[k].i = stack[k].i
                          /\ stack'[k].value = IF k = n THEN w ELSE stack[k].value
  <2> SUFFICES ASSUME NEW k \in Growing
               PROVE  /\ stack'[k].fn = "grow" /\ stack'[k].old = stack[k].old /\ stack'[k].dense = stack[k].dense
                      /\ stack'[k].limit = stack[k].limit /\ stack'[k].i = stack[k].i
                      /\ stack'[k].value = IF k = n THEN w ELSE stack[k].value
    OBVIOUS
  <2>1. CASE k = n
    BY <1>1, <1>2, <1>4, <2>1
  <2>2. CASE k \in 2..(n - 2)
    BY <1>1, <1>4, <2>2 DEF Growing
  <2> QED
    BY <1>9, <2>1, <2>2
<1>11. Alternates'
  <2>1. stack' # <<>> /\ phase' = "running"
    BY <1>1, <1>4, EmptySeq
  <2>2. n % 2 = 0 /\ (n + 1) % 2 = 1
    <3>1. n % 2 # 1
      BY <1>1, <1>6 DEF Growing
    <3> QED
      BY <1>1, <3>1
  <2>3. stack'[n + 1].fn = "lookup"
    BY <1>3, <1>4
  <2>4. \A k \in 1..(n + 1) : k = n + 1 \/ k \in 1..n
    BY <1>1
  <2> QED
    BY <1>4, <1>6, <1>7, <2>1, <2>2, <2>3, <2>4 DEF Alternates
<1>12. ASSUME NEW k \in DOMAIN stack', stack'[k].fn = "lookup"
       PROVE  LookupInv(k)'
  <2>1. CASE k = n + 1
    BY <1>1, <1>3, <1>4, <2>1 DEF LookupInv
  <2>2. CASE k # n + 1
    <3>1. k \in 1..(n - 1) /\ stack'[k] = stack[k] /\ stack[k].fn = "lookup" /\ k \in 1..n
      BY <1>1, <1>2, <1>4, <1>5, <1>12, <2>2
    <3>2. LookupInv(k) /\ stack[k].at = NoSlot
      BY <3>1, GrowTop DEF n
    <3> QED
      BY <3>1, <3>2 DEF LookupInv
  <2> QED
    BY <2>1, <2>2
<1>13. ASSUME NEW k \in Growing PROVE GrowInv(k)'
  <2>1. GrowInv(k)
    BY <1>9
  <2>2. CASE k = n
    <3>1. stack[k] = Top /\ stack'[k + 1].key = key /\ stack'[k].value = w
      BY <1>1, <1>2, <1>3, <1>4, <2>2
    <3>2. Moving(k)'
      BY <1>10, <3>1 DEF Moving
    <3> QED
      BY <1>1, <1>10, <2>1, <3>2 DEF GrowInv, Dense
  <2>3. CASE k \in 2..(n - 2)
    <3>1. k < n /\ n = Len(stack) /\ k # n /\ k + 1 \in 1..(n - 1)
      <4>1. n \in Nat /\ n = Len(stack)
        BY <1>1 DEF n
      <4> HIDE DEF n
      <4> QED
        BY <2>3, <4>1
    <3>2. stack'[k + 1] = stack[k + 1]
      BY <1>4, <3>1
    <3>3. Moving(k)'
      BY <1>10, <2>1, <3>1, <3>2 DEF Moving, GrowInv
    <3> QED
      BY <1>1, <1>10, <2>1, <3>1, <3>3 DEF GrowInv, Dense
  <2> QED
    BY <1>9, <2>2, <2>3
<1>14. FramesInv'
  BY <1>8, <1>11, <1>12, <1>13 DEF FramesInv
<1>15. Maps' = Maps
  BY <1>8, <1>10 DEF Maps
<1>16. MapsInv'
  BY <1>15 DEF MapsInv, MovesInv, HalfEmpty, Dense
<1>17. ElementsInv'
  <2>1. \A e : Found(e)' = Found(e)
    BY DEF Found
  <2>2. \A e : \A k \in Growing : Waits(e, k)' = Waits(e, k)
    BY <1>10 DEF Waits
  <2>3. Elements' = Elements /\ Dense(map)' = Dense(map) /\ \A m, i : Holds(m, i)' = Holds(m, i)
    BY DEF Elements, Dense, Holds
  <2>4. stack'[2].old = stack[2].old /\ Len(stack) > 1
    BY <1>1, <1>10 DEF n
  <2> QED
    BY <1>8, <1>15, <2>1, <2>2, <2>3, <2>4 DEF ElementsInv, MovesInv
<1> QED
  BY <1>4, <1>14, <1>15, <1>16, <1>17 DEF MovesInv

LEMMA GrowReturnsKeeps ==
  ASSUME Typed, MovesInv, Running("grow"), Top.i = Top.limit, stack' = Below,
         UNCHANGED <<isArray, map, phase, call, written, inserted, foreign, apart>>
  PROVE  stack' \in Seq(Frame) /\ MovesInv' /\ Maps' \subseteq Maps
<1> DEFINE n == Len(stack)
<1>1. n \in Nat /\ n >= 2 /\ Top = stack[n] /\ DOMAIN stack = 1..n /\ phase = "running" /\ stack[n] \in GrowFrame
      /\ n \in Growing /\ Top.fn = "grow" /\ 2 \in Growing /\ Len(stack) >= 1
  BY GrowTop
<1>2. /\ stack' \in Seq(Frame) /\ Len(stack') = n - 1 /\ DOMAIN stack' = 1..(n - 1)
      /\ \A k \in 1..(n - 1) : stack'[k] = stack[k]
  BY <1>1, BelowTypes
<1> HIDE DEF n
<1>3. \A k \in 1..(n - 1) : k \in 1..n /\ k # n
  BY <1>1
<1>4. \A k \in 1..n : stack[k].fn = IF k % 2 = 1 THEN "lookup" ELSE "grow"
  BY GrowTop DEF n
<1>5. \A k \in Growing : /\ k = n \/ k \in 2..(n - 2)
                         /\ k \in 1..n /\ GrowInv(k)
  <2>1. \A k \in Growing : GrowInv(k) /\ (k = Len(stack) \/ k \in 2..(Len(stack) - 2))
    BY GrowTop
  <2> QED
    BY <1>1, <2>1 DEF n
<1>6. Growing' = Growing \ {n}
  <2>1. \A k \in 1..n : k = n \/ k \in 1..(n - 1)
    BY <1>1
  <2> QED
    BY <1>1, <1>2, <1>3, <2>1 DEF Growing
<1>7. \A k \in Growing' : /\ k \in 2..(n - 2) /\ k \in 1..(n - 1) /\ k + 1 \in 1..(n - 1) /\ k \in Growing
                          /\ k < n - 1 /\ k < n /\ GrowInv(k) /\ 2 \in 1..(n - 1)
  <2> SUFFICES ASSUME NEW k \in Growing, k # n
               PROVE  /\ k \in 2..(n - 2) /\ k \in 1..(n - 1) /\ k + 1 \in 1..(n - 1) /\ k \in Growing
                      /\ k < n - 1 /\ k < n /\ GrowInv(k) /\ 2 \in 1..(n - 1)
    BY <1>6
  <2>1. k \in 2..(n - 2) /\ GrowInv(k)
    BY <1>5
  <2> QED
    BY <1>1, <2>1
<1>8. Alternates'
  <2>1. stack' # <<>> /\ phase' = "running"
    BY <1>1, <1>2, EmptySeq
  <2> QED
    BY <1>2, <1>3, <1>4, <2>1 DEF Alternates
<1>9. ASSUME NEW k \in DOMAIN stack', stack'[k].fn = "lookup"
      PROVE  LookupInv(k)'
  <2>1. k \in 1..(n - 1) /\ stack'[k] = stack[k] /\ stack[k].fn = "lookup" /\ k \in 1..n
    BY <1>2, <1>3, <1>9
  <2>2. LookupInv(k) /\ stack[k].at = NoSlot
    BY <2>1, GrowTop DEF n
  <2> QED
    BY <2>1, <2>2 DEF LookupInv
<1>10. ASSUME NEW k \in Growing' PROVE GrowInv(k)'
  <2>1. stack'[k] = stack[k] /\ stack'[k + 1] = stack[k + 1] /\ stack'[2] = stack[2]
    BY <1>2, <1>7
  <2>2. GrowInv(k) /\ k < Len(stack)
    BY <1>7 DEF n
  <2> QED
    BY <2>1, <2>2 DEF GrowInv, Moving, Dense
<1>11. FramesInv'
  BY <1>8, <1>9, <1>10 DEF FramesInv
<1>12. Maps' \subseteq Maps /\ map \in Maps'
  BY <1>2, <1>7 DEF Maps
<1>13. MapsInv'
  BY <1>12 DEF MapsInv, MovesInv, HalfEmpty, Dense
<1>14. ElementsInv'
  <2> SUFFICES ASSUME Dense(map), apart
               PROVE  /\ \A e \in Elements :
                           /\ Found(e)' \/ \E k \in Growing' : Waits(e, k)'
                           /\ Len(stack') > 1 => e < stack'[2].old.size
                      /\ \A m \in Maps' : \A i \in 0..(m.size - 1) : Holds(m, i)'
    BY DEF ElementsInv, Elements, Dense
  <2>1. ASSUME NEW e \in Elements PROVE Found(e)' \/ \E k \in Growing' : Waits(e, k)'
    <3>1. CASE Found(e)
      BY <3>1 DEF Found
    <3>2. CASE \E k \in Growing : Waits(e, k)
      <4> PICK k \in Growing : Waits(e, k)
        BY <3>2
      <4>1. CASE k = n
        <5>1. e \in Nat /\ e < Top.old.size /\ Top.i <= e
          BY <1>1, <4>1, ElementTypes DEF Waits
        <5>2. Top.i >= 2 * Top.old.size /\ Top.old.size \in Nat /\ Top.i \in Nat
          BY GrowTop
        <5> QED
          BY <5>1, <5>2
      <4>2. CASE k # n
        <5>1. k \in Growing'
          BY <1>6, <4>2
        <5>2. stack'[k] = stack[k]
          BY <1>2, <1>7, <5>1
        <5> QED
          BY <5>1, <5>2 DEF Waits
      <4> QED
        BY <4>1, <4>2
    <3> QED
      BY <3>1, <3>2 DEF MovesInv, ElementsInv
  <2>2. ASSUME NEW e \in Elements, Len(stack') > 1 PROVE e < stack'[2].old.size
    <3>1. 2 \in 1..(n - 1) /\ Len(stack) > 1
      BY <1>1, <1>2, <2>2 DEF n
    <3> QED
      BY <1>2, <3>1 DEF MovesInv, ElementsInv
  <2>3. ASSUME NEW m \in Maps', NEW i \in 0..(m.size - 1) PROVE Holds(m, i)'
    BY <1>12 DEF MovesInv, ElementsInv, Holds, Elements
  <2> QED
    BY <2>1, <2>2, <2>3
<1> QED
  BY <1>2, <1>11, <1>12, <1>13, <1>14 DEF MovesInv

LEMMA ReturnsLast ==
  ASSUME Typed, MovesInv, Running("lookup"), Len(stack) = 1, NEW slot, Return(slot, map),
         UNCHANGED <<isArray, call, written, inserted, foreign, apart>>
  PROVE  /\ stack' = <<>> /\ map' = map /\ phase' = "returned" /\ result' = slot
         /\ MovesInv' /\ Maps' \subseteq Maps
<1>1. Below = <<>>
  BY BelowTypes
<1>2. stack' = <<>> /\ map' = map /\ phase' = "returned" /\ result' = slot
  BY <1>1 DEF Return
<1>3. DOMAIN stack' = {} /\ Len(stack') = 0
  BY <1>2
<1>4. phase = "running"
  BY DEF Running
<1>5. Growing = {} /\ Growing' = {}
  BY <1>3, <1>4, LowerFrames DEF Growing
<1>6. FramesInv'
  BY <1>2, <1>3, <1>5 DEF FramesInv, Alternates
<1>7. Maps = {map} /\ Maps' = {map}
  BY <1>2, <1>5 DEF Maps
<1>8. MapsInv'
  BY <1>7 DEF MapsInv, MovesInv, HalfEmpty, Dense
<1>9. ElementsInv'
  BY <1>2, <1>3, <1>5, <1>7 DEF ElementsInv, MovesInv, Dense, Elements, Found, Holds
<1> QED
  BY <1>2, <1>6, <1>7, <1>8, <1>9 DEF MovesInv

LEMMA ExhaustedKeeps ==
  ASSUME Typed, MovesInv, phase = "running", phase' = "exhausted",
         UNCHANGED <<isArray, map, stack, call, written, inserted, foreign, apart>>
  PROVE  MovesInv' /\ Maps' = Maps
<1>1. Growing' = Growing
  BY DEF Growing
<1>2. Maps' = Maps
  BY <1>1 DEF Maps
<1>3. FramesInv'
  <2>1. \A k : GrowInv(k)' = GrowInv(k)
    BY DEF GrowInv, Moving, Dense
  <2>2. \A k : LookupInv(k)' = LookupInv(k)
    BY DEF LookupInv, Dense, Start
  <2>3. Alternates'
    BY DEF Alternates, MovesInv, FramesInv
  <2> QED
    BY <1>1, <2>1, <2>2, <2>3 DEF FramesInv, MovesInv
<1>4. MapsInv'
  BY <1>2 DEF MapsInv, MovesInv, HalfEmpty, Dense
<1>5. ElementsInv'
  BY <1>1, <1>2 DEF ElementsInv, MovesInv, Dense, Elements, Found, Holds, Waits
<1> QED
  BY <1>2, <1>3, <1>4, <1>5 DEF MovesInv

\* What a lookup above a growth is for.
LEMMA NestedKey ==
  ASSUME Typed, MovesInv, Running("lookup"), Len(stack) > 1,
         NEW f, f = stack[Len(stack) - 1]
  PROVE  /\ Dense(map) => f.dense
         /\ f.dense => /\ Number(Top.key) = f.i /\ f.i \in Nat
                       /\ \/ f.old \in Maps /\ f.i \in 0..(f.old.size - 1) /\ f.old.slots[f.i] # Nil
                          \/ foreign > 0
                          \/ ~Dense(map)
         /\ Top.key # Nil /\ Top.insert
<1> DEFINE n == Len(stack)
<1>1. n \in Nat /\ n >= 3 /\ Top = stack[n] /\ DOMAIN stack = 1..n /\ stack[n].fn = "lookup" /\ n % 2 = 1
      /\ phase = "running"
  BY TopTypes, StackTypes, FrameTypes DEF Running, MovesInv
<1>2. LookupInv(n)
  BY <1>1, n \in 1..n DEF MovesInv, FramesInv
<1>3. stack[n - 1].fn = "grow" /\ n - 1 \in Growing /\ n - 1 < Len(stack)
  <2>1. n - 1 \in DOMAIN stack /\ (n - 1) % 2 = 0
    BY <1>1
  <2> QED
    BY <1>1, <2>1 DEF MovesInv, FramesInv, Alternates, Growing
<1>4. f \in GrowFrame /\ GrowInv(n - 1) /\ f.old \in Maps /\ f.i \in Nat /\ f.old \in Map
  <2>1. f \in GrowFrame /\ GrowInv(n - 1)
    BY <1>1, <1>3, LowerFrames
  <2> QED
    BY <1>3, <2>1 DEF Maps, GrowFrame
<1>5. f.old.size \in Nat /\ f.old.size >= 1 /\ f.old.size <= MaxSize /\ MaxSize \in Nat /\ map.size \in Nat
  BY <1>4, MapTypes DEF Typed
<1>6. ASSUME f.dense
      PROVE  /\ Top.key = f.i /\ f.i < 4 * f.old.size /\ f.value # Nil
             /\ f.i < 2 * f.old.size => f.value = f.old.slots[f.i]
             /\ f.i >= 2 * f.old.size => foreign > 0
             /\ 2 * f.old.size <= map.size
  <2>1. stack[n - 1 + 1] = Top
    BY <1>1
  <2> QED
    BY <1>3, <1>4, <1>6, <2>1 DEF GrowInv, Moving
<1>7. ASSUME f.dense PROVE Number(Top.key) = f.i
  <2>1. f.i \in Numbers
    BY <1>4, <1>5, <1>6, <1>7 DEF Numbers
  <2> QED
    BY <1>6, <1>7, <2>1 DEF Number
<1>8. ASSUME f.dense, foreign <= 0, Dense(map)
      PROVE  f.i \in 0..(f.old.size - 1) /\ f.old.slots[f.i] # Nil
  <2>1. f.i < 2 * f.old.size /\ f.old.slots[f.i] # Nil
    <3>1. foreign \in Nat
      BY BoundsAssumption DEF Typed
    <3> QED
      BY <1>4, <1>5, <1>6, <1>8, <3>1
  <2>2. Dense(f.old)
    BY <1>5, <1>6, <1>8, BoundsAssumption DEF Dense
  <2>3. CASE f.i >= f.old.size
    <3>1. f.i - f.old.size \in 0..(f.old.size - 1) /\ f.old.size + (f.i - f.old.size) = f.i
      BY <1>4, <1>5, <2>1, <2>3
    <3>2. \A x \in 0..(f.old.size - 1) : f.old.slots[f.old.size + x] = Nil
      BY <1>4, <2>2 DEF MovesInv, MapsInv, HalfEmpty
    <3> QED
      BY <2>1, <3>1, <3>2
  <2>4. CASE f.i < f.old.size
    BY <1>4, <1>5, <2>1, <2>4
  <2> QED
    BY <1>4, <1>5, <2>3, <2>4
<1>9. foreign > 0 \/ foreign <= 0
  BY BoundsAssumption DEF Typed
<1>10. Dense(map) => f.dense
  BY <1>3, <1>4 DEF GrowInv
<1>11. Top.key # Nil /\ Top.insert
  BY <1>1, <1>2 DEF LookupInv
<1> QED
  BY <1>4, <1>7, <1>8, <1>9, <1>10, <1>11

(***************************************************************************)
(* The length.                                                              *)
(***************************************************************************)

\* Slot i is not empty in some map.
Filled(i) == \E m \in Maps : i \in 0..(m.size - 1) /\ m.slots[i] # Nil

LEMMA LengthStays ==
  ASSUME LengthInv, length' = length, written' = written, inserted \subseteq inserted',
         foreign' = 0 => foreign = 0, Dense(map)' => Dense(map),
         \A m \in Maps' : \A i \in 0..(m.size - 1) : m.slots[i] # Nil => Filled(i)
  PROVE  LengthInv'
  BY DEF LengthInv, Elements, Filled

LEMMA LengthGrows ==
  ASSUME Typed, LengthInv, NEW n \in Nat, SetLength(n),
         written' = written, inserted' = inserted, foreign' = foreign,
         Dense(map)' => Dense(map),
         Dense(map)' => n \in inserted \/ Filled(n) \/ foreign > 0 \/ ~Top.insert,
         Dense(map)' => \A m \in Maps' : \A i \in 0..(m.size - 1) :
                          m.slots[i] # Nil => Filled(i) \/ (Top.insert /\ i <= n)
  PROVE  LengthInv' /\ length' \in Nat /\ (Top.insert => n < length')
<1>1. length \in Nat /\ foreign \in Nat
  BY BoundsAssumption DEF Typed
<1>2. length' \in Nat /\ length' >= length /\ (Top.insert => n < length')
      /\ (length' # length => Top.insert /\ length' = n + 1 /\ length <= n)
  BY <1>1 DEF SetLength
<1>3. \A e \in Elements' : e < length'
  BY <1>1, <1>2, ElementTypes DEF LengthInv, Elements
<1>4. ASSUME Dense(map)', NEW m \in Maps', NEW i \in 0..(m.size - 1), m.slots[i] # Nil
      PROVE  i < length'
  <2>1. CASE Filled(i)
    <3>1. i < length
      BY <1>4, <2>1 DEF LengthInv, Filled
    <3> QED
      BY <1>1, <1>2, <3>1
  <2>2. CASE Top.insert /\ i <= n
    BY <1>2, <2>2
  <2> QED
    BY <1>4, <2>1, <2>2
<1>5. ASSUME Dense(map)', foreign' = 0, length' > 0
      PROVE  length' - 1 \in inserted'
  <2>1. CASE length' = length
    BY <1>5, <2>1 DEF LengthInv
  <2>2. CASE length' # length
    <3>1. Top.insert /\ length' = n + 1 /\ length <= n
      BY <1>2, <2>2
    <3>2. ~Filled(n)
      <4> SUFFICES ASSUME Filled(n) PROVE FALSE
        OBVIOUS
      <4>1. n < length
        BY <1>5 DEF LengthInv, Filled
      <4> QED
        BY <1>1, <3>1, <4>1
    <3>3. n \in inserted
      BY <1>1, <1>5, <3>1, <3>2
    <3> QED
      BY <3>1, <3>3
  <2> QED
    BY <2>1, <2>2
<1> QED
  BY <1>2, <1>3, <1>4, <1>5 DEF LengthInv

(***************************************************************************)
(* The steps.                                                               *)
(***************************************************************************)

LEMMA LookupTop ==
  ASSUME Typed, MovesInv, Running("lookup")
  PROVE  /\ Len(stack) \in Nat /\ Len(stack) >= 1 /\ (Len(stack) = 1 \/ Len(stack) > 1)
         /\ Top = stack[Len(stack)] /\ Top \in LookupFrame /\ phase = "running"
         /\ LookupInv(Len(stack))
<1>1. phase = "running" /\ Top.fn = "lookup" /\ FramesInv
  BY DEF Running, MovesInv
<1>2. Len(stack) \in Nat /\ Len(stack) >= 1 /\ Top = stack[Len(stack)] /\ Top \in Frame
  BY <1>1, TopTypes
<1>3. Len(stack) \in DOMAIN stack /\ (Len(stack) = 1 \/ Len(stack) > 1)
  BY <1>2, StackTypes
<1> QED
  BY <1>1, <1>2, <1>3, FrameTypes DEF FramesInv

LEMMA LookupNegativeStep ==
  ASSUME IInv, LookupNegative
  PROVE  IInv'
<1>1. Typed /\ MovesInv /\ LengthInv
  BY DEF IInv
<1>2. Running("lookup") /\ Return(NoSlot, map) /\ Number(Top.key) < 0
      /\ UNCHANGED <<isArray, length, proto, call, written, inserted, foreign, calls, apart>>
  BY DEF LookupNegative, Entering
<1>3. stack' \in Seq(Frame) /\ map' = map /\ MovesInv' /\ Maps' \subseteq Maps /\ phase' \in {"running", "returned"}
      /\ result' \in {result, NoSlot} /\ (phase' = "returned" => result' = NoSlot)
  <2>1. CASE Len(stack) = 1
    BY <1>1, <1>2, <2>1, ReturnsLast, EmptySeq
  <2>2. CASE Len(stack) > 1
    <3>1. ~stack[Len(stack) - 1].dense
      <4> SUFFICES ASSUME stack[Len(stack) - 1].dense PROVE FALSE
        OBVIOUS
      <4>1. Number(Top.key) \in Nat
        BY <1>1, <1>2, <2>2, NestedKey
      <4> QED
        BY <1>2, <4>1
    <3>2. Received(NoSlot)
      BY <3>1 DEF Received
    <3>3. /\ stack' \in Seq(Frame) /\ phase' = phase /\ result' = result /\ MovesInv'
          /\ \A m \in Maps' : m = map' \/ m \in Maps
      BY <1>1, <1>2, <2>2, <3>2, ReturnKeeps
    <3>4. map' = map
      BY <1>2 DEF Return
    <3> QED
      BY <1>2, <3>3, <3>4 DEF Running, Maps
  <2> QED
    BY <1>1, <1>2, <2>1, <2>2, LookupTop
<1>4. Typed'
  <2>1. result' \in NoSlot..(2 * MaxSize)
    BY <1>1, <1>3, BoundsAssumption DEF Typed, NoSlot
  <2> QED
    BY <1>1, <1>2, <1>3, <2>1 DEF Typed, Callable
<1>5. ReturnInv'
  BY <1>3 DEF ReturnInv
<1>6. LengthInv'
  BY <1>1, <1>2, <1>3, LengthStays DEF Filled, Dense
<1> QED
  BY <1>3, <1>4, <1>5, <1>6 DEF IInv

LEMMA LookupHashStep ==
  ASSUME IInv, LookupHash
  PROVE  IInv'
<1>1. Typed /\ MovesInv /\ LengthInv
  BY DEF IInv
<1>2. /\ Running("lookup") /\ ~Dense(map) /\ (isArray => Number(Top.key) >= 0)
      /\ IF isArray THEN SetLength(Number(Top.key)) ELSE UNCHANGED length
      /\ stack' = [stack EXCEPT ![Len(stack)].at = Start(Top.key)]
      /\ UNCHANGED <<isArray, map, proto, phase, result, call, written, inserted, foreign, calls, apart>>
  BY DEF LookupHash, Entering
<1>3. Start(Top.key) \in 0..(map.size - 1)
  BY <1>1, <1>2, StartTypes DEF Typed
<1>4. Top.key = Nil => Start(Top.key) = Start(Nil)
  OBVIOUS
<1>5. stack' \in Seq(Frame) /\ MovesInv'
  BY <1>1, <1>2, <1>3, <1>4, SearchKeeps
<1>6. LengthInv' /\ length' \in Nat
  <2>1. ~Dense(map)'
    BY <1>2 DEF Dense
  <2>2. CASE isArray
    <3>1. Number(Top.key) \in Nat
      BY <1>2, <2>2, NumberTypes
    <3> QED
      BY <1>1, <1>2, <2>1, <2>2, <3>1, LengthGrows
  <2>3. CASE ~isArray
    BY <1>1, <1>2, <2>1, <2>3 DEF LengthInv, Elements, Typed
  <2> QED
    BY <2>2, <2>3
<1>7. Typed'
  BY <1>1, <1>2, <1>5, <1>6 DEF Typed, Callable
<1>8. ReturnInv'
  BY <1>2 DEF ReturnInv, Running
<1> QED
  BY <1>5, <1>6, <1>7, <1>8 DEF IInv

LEMMA GrowStep ==
  ASSUME Typed, MovesInv, Running("lookup"), NEW min \in Nat, GrowObject(min), length' \in Nat,
         UNCHANGED <<isArray, call, written, inserted, foreign, calls, result, proto>>
  PROVE  /\ Typed' /\ MovesInv' /\ ReturnInv' /\ (Dense(map)' => Dense(map))
         /\ \A m \in Maps' : \A i \in 0..(m.size - 1) : m.slots[i] # Nil => Filled(i)
<1>1. map \in Map /\ map.size \in Nat /\ MaxSize \in Nat /\ GrowSize(min) \in Nat /\ phase = "running"
  BY MapTypes, GrowSizeTypes DEF Typed, Running
<1>2. CASE GrowSize(min) <= MaxSize
  <2>1. /\ stack' \in Seq(Frame) /\ map' \in Map /\ apart' \in BOOLEAN /\ phase' = phase /\ MovesInv'
        /\ Maps' \subseteq Maps \cup {map'} /\ map'.size >= map.size
        /\ \A x \in 0..(2 * map'.size - 1) : map'.slots[x] = Nil
    BY <1>2, GrowKeeps
  <2>2. map'.size \in Nat
    BY <2>1, MapTypes
  <2>3. Typed'
    BY <2>1 DEF Typed, Callable
  <2>4. ReturnInv'
    BY <1>1, <2>1 DEF ReturnInv
  <2>5. Dense(map)' => Dense(map)
    BY <1>1, <2>1, <2>2, BoundsAssumption DEF Dense
  <2>6. ASSUME NEW m \in Maps', NEW i \in 0..(m.size - 1), m.slots[i] # Nil PROVE Filled(i)
    <3>1. m # map'
      BY <2>1, <2>2, <2>6
    <3> QED
      BY <2>1, <2>6, <3>1 DEF Filled
  <2> QED
    BY <2>1, <2>3, <2>4, <2>5, <2>6
<1>3. CASE GrowSize(min) > MaxSize
  <2>1. phase' = "exhausted" /\ UNCHANGED <<map, stack, apart>>
    BY <1>3 DEF GrowObject
  <2>2. MovesInv' /\ Maps' = Maps
    BY <1>1, <2>1, ExhaustedKeeps
  <2>3. Typed'
    BY <2>1 DEF Typed, Callable
  <2>4. ReturnInv'
    BY <2>1 DEF ReturnInv
  <2> QED
    BY <2>1, <2>2, <2>3, <2>4 DEF Dense, Filled
<1> QED
  BY <1>1, <1>2, <1>3

LEMMA ProbeStep ==
  ASSUME IInv, Probe
  PROVE  IInv'
<1>1. Typed /\ MovesInv /\ LengthInv
  BY DEF IInv
<1>2. /\ Running("lookup") /\ Top.at # NoSlot
      /\ IF Matches(Top.key, Top.at) THEN Answer(Top.at)
         ELSE IF Following(Top.at) # Start(Top.key)
         THEN /\ stack' = [stack EXCEPT ![Len(stack)].at = Following(@)]
              /\ UNCHANGED <<map, proto, phase, result, apart>>
         ELSE IF Top.insert THEN GrowObject(0) /\ UNCHANGED <<result, proto>>
         ELSE Answer(Start(Top.key))
      /\ UNCHANGED <<isArray, length, call, written, inserted, foreign, calls>>
  BY DEF Probe
<1>3. /\ Len(stack) \in Nat /\ Len(stack) >= 1 /\ Top = stack[Len(stack)] /\ Top \in LookupFrame
      /\ LookupInv(Len(stack)) /\ phase = "running"
  BY <1>1, <1>2, LookupTop
<1>4. /\ ~Dense(map) /\ Top.at < map.size /\ (isArray => Number(Top.key) >= 0)
      /\ Top.key = Nil => Top.at = Start(Nil)
      /\ Len(stack) > 1 => Top.insert /\ Top.key # Nil
      /\ Len(stack) = 1 => Top.insert = call.insert /\ Top.key \in {call.key, Number(call.key)}
  BY <1>2, <1>3 DEF LookupInv
<1>5. map \in Map /\ map.size \in Nat /\ map.size >= 1 /\ map.size <= MaxSize /\ MaxSize \in Nat
  BY <1>1, MapTypes DEF Typed
<1>6. Top.at \in 0..(map.size - 1) /\ Start(Top.key) \in 0..(map.size - 1) /\ Following(Top.at) \in 0..(map.size - 1)
  <2>1. Top.at \in 0..(map.size - 1)
    BY <1>2, <1>3, <1>4, <1>5 DEF LookupFrame, NoSlot
  <2> QED
    BY <1>4, <1>5, <2>1, StartTypes, FollowingTypes
<1>7. map.slots[Top.at] = Nil
  BY <1>1, <1>4, <1>6 DEF MovesInv, MapsInv, Maps, HalfEmpty
<1>8. \/ Matches(Top.key, Top.at) /\ Top.key = Nil
      \/ Top.key # Nil /\ ~Matches(Top.key, Top.at)
  BY <1>7 DEF Matches
<1>9. ASSUME NEW i, i = Start(Top.key), Answer(i), Top.key = Nil \/ ~Top.insert
      PROVE  IInv'
  <2>1. Len(stack) = 1
    BY <1>1, <1>2, <1>4, <1>9, LookupTop
  <2>2. /\ Return(map.size + i, map) /\ proto' = (proto /\ map.slots[Top.at] # Nil)
        /\ UNCHANGED <<isArray, length, call, written, inserted, foreign, calls, apart>>
    BY <1>2, <1>9 DEF Answer, ValueSlot
  <2>3. /\ stack' = <<>> /\ map' = map /\ phase' = "returned" /\ result' = map.size + i
        /\ MovesInv' /\ Maps' \subseteq Maps
    BY <1>1, <1>2, <2>1, <2>2, ReturnsLast
  <2>4. result' \in NoSlot..(2 * MaxSize) /\ result' = map.size + i /\ result' \in map.size..(2 * map.size - 1)
    BY <1>5, <1>6, <1>9, <2>3 DEF NoSlot
  <2>5. Typed'
    BY <1>1, <2>2, <2>3, <2>4, EmptySeq DEF Typed, Callable
  <2>6. LengthInv'
    BY <1>1, <1>2, <2>3, LengthStays DEF Filled, Dense
  <2>7. Start(call.key)' = i
    <3>1. Start(call.key) = Start(Top.key)
      BY <1>4, <2>1, NumberTypes DEF Start
    <3> QED
      BY <1>9, <2>2, <2>3, <3>1 DEF Start
  <2>8. call.insert => call.key = Nil
    BY <1>4, <1>9, <2>1, NumberTypes
  <2>9. ReturnInv'
    BY <1>4, <2>2, <2>3, <2>4, <2>7, <2>8 DEF ReturnInv, Dense
  <2> QED
    BY <2>3, <2>5, <2>6, <2>9 DEF IInv
<1>10. CASE Matches(Top.key, Top.at)
  BY <1>2, <1>4, <1>8, <1>9, <1>10
<1>11. CASE ~Matches(Top.key, Top.at) /\ Following(Top.at) # Start(Top.key)
  <2>1. /\ stack' = [stack EXCEPT ![Len(stack)].at = Following(@)]
        /\ UNCHANGED <<isArray, length, map, proto, phase, result, call, written, inserted, foreign, calls, apart>>
    BY <1>2, <1>11
  <2>2. stack' = [stack EXCEPT ![Len(stack)].at = Following(Top.at)]
    BY <1>1, <1>3, <2>1, StackTypes
  <2>3. Top.key # Nil
    BY <1>8, <1>11
  <2>4. stack' \in Seq(Frame) /\ MovesInv'
    BY <1>1, <1>2, <1>4, <1>6, <2>1, <2>2, <2>3, SearchKeeps
  <2>5. LengthInv'
    BY <1>1, <1>4, <2>1 DEF LengthInv, Elements, Dense
  <2>6. Typed'
    BY <1>1, <2>1, <2>4 DEF Typed, Callable
  <2>7. ReturnInv'
    BY <1>3, <2>1 DEF ReturnInv
  <2> QED
    BY <2>4, <2>5, <2>6, <2>7 DEF IInv
<1>12. CASE /\ ~Matches(Top.key, Top.at) /\ Following(Top.at) = Start(Top.key) /\ Top.insert
  <2>1. GrowObject(0) /\ UNCHANGED <<isArray, length, call, written, inserted, foreign, calls, result, proto>>
    BY <1>2, <1>12
  <2>2. /\ Typed' /\ MovesInv' /\ ReturnInv' /\ (Dense(map)' => Dense(map))
        /\ \A m \in Maps' : \A i \in 0..(m.size - 1) : m.slots[i] # Nil => Filled(i)
    BY <1>1, <1>2, <2>1, 0 \in Nat, GrowStep DEF Typed
  <2>3. LengthInv'
    BY <1>1, <2>1, <2>2, LengthStays
  <2> QED
    BY <2>2, <2>3 DEF IInv
<1>13. CASE ~Matches(Top.key, Top.at) /\ Following(Top.at) = Start(Top.key) /\ ~Top.insert
  BY <1>2, <1>9, <1>13
<1> QED
  BY <1>10, <1>11, <1>12, <1>13

LEMMA CallTypes ==
  ASSUME Typed, isArray, Number(call.key) >= 0
  PROVE  Number(call.key) \in DOMAIN written
<1>1. call.key \in Indices \cup {Nil} /\ DOMAIN written = {i \in Indices : i >= 0} \cup {0}
  BY DEF Typed, Callable
<1>2. CASE call.key \in Indices
  <2>1. call.key \in Numbers
    <3>1. call.key \in -1..MaxSize /\ MaxSize \in Nat
      BY <1>2, BoundsAssumption
    <3> QED
      BY <3>1 DEF Numbers
  <2> QED
    BY <1>1, <1>2, <2>1 DEF Number
<1>3. CASE call.key = Nil
  BY <1>1, <1>3, NilAssumption DEF Number
<1> QED
  BY <1>1, <1>2, <1>3

LEMMA KeyCounts ==
  ASSUME Typed, MovesInv, Running("lookup"), Dense(map), NEW n, n = Number(Top.key), n >= 0
  PROVE  n \in inserted \/ Filled(n) \/ foreign > 0 \/ ~Top.insert
<1>1. CASE Len(stack) = 1
  <2>1. Top.key \in {call.key, Number(call.key)}
    BY <1>1, LookupTop DEF LookupInv
  <2>2. n = Number(call.key)
    BY <2>1, NumberTypes
  <2>3. Top.insert = call.insert
    BY <1>1, LookupTop DEF LookupInv
  <2> QED
    BY <2>2, <2>3 DEF Typed
<1>2. CASE Len(stack) > 1
  <2> DEFINE f == stack[Len(stack) - 1]
  <2>1. f.dense
    BY <1>2, NestedKey
  <2>2. /\ n = f.i
        /\ \/ f.old \in Maps /\ f.i \in 0..(f.old.size - 1) /\ f.old.slots[f.i] # Nil
           \/ foreign > 0
    BY <1>2, <2>1, NestedKey
  <2> QED
    BY <2>2 DEF Filled
<1> QED
  BY <1>1, <1>2, LookupTop

LEMMA LookupDenseStep ==
  ASSUME IInv, LookupDense
  PROVE  IInv'
<1> DEFINE n == Number(Top.key)
<1>1. Typed /\ MovesInv /\ LengthInv
  BY DEF IInv
<1>2. /\ Running("lookup") /\ Dense(map) /\ n >= 0 /\ SetLength(n)
      /\ IF n <= map.size - 1
         THEN Return(BitAnd(n, map.size - 1), map) /\ UNCHANGED apart
         ELSE IF Top.insert
         THEN GrowObject(n) /\ UNCHANGED result
         ELSE Return(NoSlot, map) /\ UNCHANGED apart
      /\ UNCHANGED <<isArray, proto, call, written, inserted, foreign, calls>>
  BY DEF LookupDense, Entering
<1>3. /\ Len(stack) \in Nat /\ Len(stack) >= 1 /\ (Len(stack) = 1 \/ Len(stack) > 1)
      /\ phase = "running" /\ LookupInv(Len(stack))
  BY <1>1, <1>2, LookupTop
<1>4. /\ Len(stack) > 1 => Top.insert
      /\ Len(stack) = 1 => Top.insert = call.insert /\ Top.key \in {call.key, Number(call.key)}
  BY <1>1, <1>2, LookupTop DEF LookupInv
<1>5. map \in Map /\ map.size \in Nat /\ map.size >= 1 /\ map.size <= MaxSize /\ MaxSize \in Nat
  BY <1>1, MapTypes DEF Typed
<1>6. n \in Nat /\ n \in 0..(4 * MaxSize)
  BY <1>2, NumberTypes
<1>7. n \in inserted \/ Filled(n) \/ foreign > 0 \/ ~Top.insert
  BY <1>1, <1>2, KeyCounts
<1>8. CASE n <= map.size - 1
  <2> DEFINE slot == BitAnd(n, map.size - 1)
  <2>1. Return(slot, map) /\ UNCHANGED <<isArray, proto, call, written, inserted, foreign, calls, apart>>
    BY <1>2, <1>8
  <2>2. n \in 0..(map.size - 1) /\ slot \in 0..(map.size - 1) /\ slot <= n
    BY <1>5, <1>6, <1>8, AndAssumption
  <2>3. CASE Len(stack) = 1
    <3>1. /\ stack' = <<>> /\ map' = map /\ phase' = "returned" /\ result' = slot
          /\ MovesInv' /\ Maps' \subseteq Maps
      BY <1>1, <1>2, <2>1, <2>3, ReturnsLast
    <3>2. LengthInv' /\ length' \in Nat /\ (Top.insert => n < length')
      BY <1>1, <1>2, <1>6, <1>7, <2>1, <3>1, LengthGrows DEF Filled, Dense
    <3>3. result' \in NoSlot..(2 * MaxSize)
      BY <1>5, <2>2, <3>1 DEF NoSlot
    <3>4. Typed'
      BY <1>1, <2>1, <3>1, <3>2, <3>3, EmptySeq DEF Typed, Callable
    <3>5. Number(call.key) = n
      BY <1>4, <2>3, NumberTypes
    <3>6. ReturnInv'
      BY <1>2, <1>4, <2>1, <2>2, <2>3, <3>1, <3>2, <3>5 DEF ReturnInv, Dense
    <3> QED
      BY <3>1, <3>2, <3>4, <3>6 DEF IInv
  <2>4. CASE Len(stack) > 1
    <3>1. Received(slot)
      BY <1>2, <2>2 DEF Received
    <3>2. /\ stack' \in Seq(Frame) /\ map' \in Map /\ phase' = phase /\ result' = result /\ MovesInv'
          /\ \A m \in Maps' : m = map' \/ m \in Maps
          /\ map'.size = map.size
          /\ \A x \in 0..(2 * map.size - 1) :
               map'.slots[x] = map.slots[x] \/ (Dense(map) /\ x = slot /\ x <= n)
      BY <1>1, <1>2, <2>1, <2>4, <3>1, ReturnKeeps
    <3>3. ASSUME NEW m \in Maps', NEW i \in 0..(m.size - 1), m.slots[i] # Nil
          PROVE  Filled(i) \/ (Top.insert /\ i <= n)
      <4>1. CASE m = map'
        <5>1. i \in 0..(map.size - 1) /\ i \in 0..(2 * map.size - 1)
          BY <1>5, <3>2, <4>1
        <5>2. CASE map'.slots[i] = map.slots[i]
          BY <3>3, <4>1, <5>1, <5>2 DEF Filled, Maps
        <5>3. CASE i <= n
          BY <1>4, <2>4, <5>3
        <5> QED
          BY <3>2, <5>1, <5>2, <5>3
      <4>2. CASE m \in Maps
        BY <3>3, <4>2 DEF Filled
      <4> QED
        BY <3>2, <4>1, <4>2
    <3>4. LengthInv' /\ length' \in Nat
      BY <1>1, <1>2, <1>6, <1>7, <2>1, <3>3, LengthGrows
    <3>5. Typed'
      BY <1>1, <2>1, <3>2, <3>4 DEF Typed, Callable
    <3>6. ReturnInv'
      BY <1>3, <3>2 DEF ReturnInv
    <3> QED
      BY <3>2, <3>4, <3>5, <3>6 DEF IInv
  <2> QED
    BY <1>3, <2>3, <2>4
<1>9. CASE ~(n <= map.size - 1) /\ Top.insert
  <2>1. GrowObject(n) /\ UNCHANGED <<isArray, call, written, inserted, foreign, calls, result, proto>>
    BY <1>2, <1>9
  <2>2. length' \in Nat
    BY <1>1, <1>2, <1>6 DEF SetLength, Typed
  <2>3. /\ Typed' /\ MovesInv' /\ ReturnInv' /\ (Dense(map)' => Dense(map))
        /\ \A m \in Maps' : \A i \in 0..(m.size - 1) : m.slots[i] # Nil => Filled(i)
    BY <1>1, <1>2, <1>6, <2>1, <2>2, GrowStep
  <2>4. LengthInv'
    BY <1>1, <1>2, <1>6, <1>7, <2>1, <2>3, LengthGrows
  <2> QED
    BY <2>3, <2>4 DEF IInv
<1>10. CASE ~(n <= map.size - 1) /\ ~Top.insert
  <2>1. /\ Return(NoSlot, map) /\ UNCHANGED <<isArray, proto, call, written, inserted, foreign, calls, apart>>
        /\ length' = length /\ Len(stack) = 1
    BY <1>2, <1>3, <1>4, <1>10 DEF SetLength
  <2>2. /\ stack' = <<>> /\ map' = map /\ phase' = "returned" /\ result' = NoSlot
        /\ MovesInv' /\ Maps' \subseteq Maps
    BY <1>1, <1>2, <2>1, ReturnsLast
  <2>3. LengthInv'
    BY <1>1, <2>1, <2>2, LengthStays DEF Filled, Dense
  <2>4. result' \in NoSlot..(2 * MaxSize)
    BY <1>5, <2>2 DEF NoSlot
  <2>5. Typed'
    BY <1>1, <2>1, <2>2, <2>4, EmptySeq DEF Typed, Callable
  <2>6. ReturnInv'
    BY <2>2 DEF ReturnInv
  <2> QED
    BY <2>2, <2>3, <2>5, <2>6 DEF IInv
<1> QED
  BY <1>8, <1>9, <1>10

LEMMA WordTypes ==
  ASSUME Typed, MovesInv, Running("grow"), NEW i \in Nat, NEW w \in Words(Top.old, i)
  PROVE  /\ w \in Contents
         /\ i < 2 * Top.old.size => w = Top.old.slots[i]
         /\ ~(i < 2 * Top.old.size) => /\ w \in {Nil, Foreign}
                                       /\ w = Foreign => foreign < MaxForeign
<1>1. Top.old \in Map /\ Top.old.size \in Nat /\ Top.old.slots \in [0..(2 * Top.old.size - 1) -> Contents]
  BY GrowTop, MapTypes
<1>2. CASE i < 2 * Top.old.size
  BY <1>1, <1>2 DEF Words
<1>3. CASE ~(i < 2 * Top.old.size)
  BY <1>1, <1>3, NilAssumption DEF Words, Contents
<1> QED
  BY <1>2, <1>3

LEMMA GrowDenseStep ==
  ASSUME IInv, GrowDense
  PROVE  IInv'
<1>1. Typed /\ MovesInv /\ LengthInv
  BY DEF IInv
<1>2. /\ Running("grow") /\ Top.dense /\ Top.i < Top.limit
      /\ UNCHANGED <<isArray, map, length, proto, phase, result, call, written, inserted, calls, apart>>
  BY DEF GrowDense
<1>3. PICK w \in Words(Top.old, Top.i) : /\ IF w = Nil THEN Skip ELSE Move(Top.i, w)
                                        /\ Count(w, Top.i)
  BY DEF GrowDense
<1>4. /\ Top.i \in Nat /\ Top.old.size \in Nat /\ Top.old.size >= 1 /\ Top.old.size <= MaxSize
      /\ MaxSize \in Nat /\ phase = "running"
  BY <1>1, <1>2, GrowTop
<1>5. /\ w \in Contents
      /\ Top.i < 2 * Top.old.size => w = Top.old.slots[Top.i]
      /\ ~(Top.i < 2 * Top.old.size) => /\ w \in {Nil, Foreign}
                                        /\ w = Foreign => foreign < MaxForeign
  BY <1>1, <1>2, <1>3, <1>4, WordTypes
<1>6. foreign \in Nat /\ foreign <= MaxForeign /\ MaxForeign \in Nat
  BY <1>1, BoundsAssumption DEF Typed
<1>7. /\ foreign' \in 0..MaxForeign /\ (foreign > 0 => foreign' > 0) /\ (foreign' = 0 => foreign = 0)
      /\ ~(Top.i < 2 * Top.old.size) /\ w # Nil => w = Foreign /\ foreign' > 0
  BY <1>3, <1>4, <1>5, <1>6 DEF Count
<1>8. stack' \in Seq(Frame) /\ MovesInv' /\ Maps' = Maps
  <2>1. CASE w = Nil
    <3>1. Top.dense /\ Top.i < Top.old.size => Top.old.slots[Top.i] = Nil
      BY <1>4, <1>5, <2>1
    <3> QED
      BY <1>1, <1>2, <1>3, <1>7, <2>1, <3>1, SkipKeeps
  <2>2. CASE w # Nil
    <3>1. Top.i \in Numbers
      <4>1. Top.limit = 4 * Top.old.size
        BY <1>1, <1>2, GrowTop DEF GrowInv
      <4> QED
        BY <1>2, <1>4, <4>1 DEF Numbers
    <3>2. Top.i # Nil /\ Top.i \in Contents \cup Numbers
      BY <3>1, NilAssumption
    <3>3. /\ Top.i < 2 * Top.old.size => w = Top.old.slots[Top.i]
          /\ Top.i >= 2 * Top.old.size => w = Foreign /\ foreign' > 0
      BY <1>4, <1>5, <1>7, <2>2
    <3>4. Move(Top.i, w)
      BY <1>3, <2>2
    <3> QED
      BY <1>1, <1>2, <1>5, <1>7, <2>2, <3>2, <3>3, <3>4, MoveKeeps
  <2> QED
    BY <2>1, <2>2
<1>9. Typed'
  BY <1>1, <1>2, <1>7, <1>8 DEF Typed, Callable
<1>10. ReturnInv'
  BY <1>2, <1>4 DEF ReturnInv
<1>11. LengthInv'
  BY <1>1, <1>2, <1>7, <1>8, LengthStays DEF Filled, Dense
<1> QED
  BY <1>8, <1>9, <1>10, <1>11 DEF IInv

LEMMA GrowHashStep ==
  ASSUME IInv, GrowHash
  PROVE  IInv'
<1> DEFINE key == Top.old.slots[Top.i]
<1>1. Typed /\ MovesInv /\ LengthInv
  BY DEF IInv
<1>2. /\ Running("grow") /\ ~Top.dense /\ Top.i < Top.limit
      /\ UNCHANGED <<isArray, map, length, proto, phase, result, call, written, inserted, calls, apart>>
  BY DEF GrowHash
<1>3. PICK w \in Words(Top.old, Top.i + Top.limit) :
         IF key = Nil THEN w = Nil /\ Skip /\ UNCHANGED foreign
                      ELSE Move(key, w) /\ Count(w, Top.i + Top.limit)
  BY DEF GrowHash
<1>4. /\ Top.i \in Nat /\ Top.limit \in Nat /\ Top.old.size \in Nat /\ Top.old.size >= 1 /\ Top.old \in Map
      /\ phase = "running" /\ Top.limit = 2 * Top.old.size
  BY <1>1, <1>2, GrowTop DEF GrowInv
<1>5. /\ w \in Contents
      /\ w = Foreign => foreign < MaxForeign
  <2>1. Top.i + Top.limit \in Nat /\ ~(Top.i + Top.limit < 2 * Top.old.size)
    BY <1>4
  <2> QED
    BY <1>1, <1>2, <1>3, <2>1, WordTypes
<1>6. foreign \in Nat /\ foreign <= MaxForeign /\ MaxForeign \in Nat
  BY <1>1, BoundsAssumption DEF Typed
<1>7. foreign' \in 0..MaxForeign /\ (foreign > 0 => foreign' > 0) /\ (foreign' = 0 => foreign = 0)
  BY <1>3, <1>4, <1>5, <1>6 DEF Count
<1>8. key \in Contents
  <2>1. Top.i \in 0..(2 * Top.old.size - 1)
    BY <1>2, <1>4
  <2> QED
    BY <1>4, <2>1, MapTypes
<1>9. stack' \in Seq(Frame) /\ MovesInv' /\ Maps' = Maps
  <2>1. CASE key = Nil
    <3>1. Skip
      BY <1>3, <2>1
    <3> QED
      BY <1>1, <1>2, <1>7, <3>1, SkipKeeps
  <2>2. CASE key # Nil
    <3>1. Move(key, w) /\ key \in Contents \cup Numbers
      BY <1>3, <1>8, <2>2
    <3> HIDE DEF key
    <3> QED
      BY <1>1, <1>2, <1>5, <1>7, <2>2, <3>1, MoveKeeps
  <2> QED
    BY <2>1, <2>2
<1>10. Typed'
  BY <1>1, <1>2, <1>7, <1>9 DEF Typed, Callable
<1>11. ReturnInv'
  BY <1>2, <1>4 DEF ReturnInv
<1>12. LengthInv'
  BY <1>1, <1>2, <1>7, <1>9, LengthStays DEF Filled, Dense
<1> QED
  BY <1>9, <1>10, <1>11, <1>12 DEF IInv

LEMMA GrowReturnsStep ==
  ASSUME IInv, GrowReturns
  PROVE  IInv'
<1>1. Typed /\ MovesInv /\ LengthInv
  BY DEF IInv
<1>2. /\ Running("grow") /\ Top.i = Top.limit /\ stack' = Below /\ phase = "running"
      /\ UNCHANGED <<isArray, map, length, proto, phase, result, call, written, inserted, foreign, calls, apart>>
  BY DEF GrowReturns, Running
<1>3. stack' \in Seq(Frame) /\ MovesInv' /\ Maps' \subseteq Maps
  BY <1>1, <1>2, GrowReturnsKeeps
<1>4. Typed'
  BY <1>1, <1>2, <1>3 DEF Typed, Callable
<1>5. ReturnInv'
  BY <1>2 DEF ReturnInv
<1>6. LengthInv'
  BY <1>1, <1>2, <1>3, LengthStays DEF Filled, Dense
<1> QED
  BY <1>3, <1>4, <1>5, <1>6 DEF IInv

\* With nothing running the only map is the object's.
LEMMA NothingRuns ==
  ASSUME Typed, MovesInv, phase \in {"idle", "returned"}
  PROVE  /\ stack = <<>> /\ Len(stack) = 0 /\ DOMAIN stack = {} /\ Growing = {} /\ Maps = {map}
         /\ Dense(map) /\ apart => \A e \in Elements : Found(e)
<1>1. stack = <<>>
  BY DEF MovesInv, FramesInv, Alternates
<1>2. DOMAIN stack = {} /\ Len(stack) = 0
  BY <1>1
<1>3. Growing = {} /\ Maps = {map}
  BY <1>2 DEF Growing, Maps
<1> QED
  BY <1>1, <1>2, <1>3 DEF MovesInv, ElementsInv

LEMMA CallStep ==
  ASSUME IInv, NEW key \in Callable, NEW insert \in BOOLEAN, Call(key, insert)
  PROVE  IInv'
<1> DEFINE l == Lookup(key, insert)
<1>1. Typed /\ MovesInv /\ LengthInv /\ phase = "idle"
  BY DEF IInv, Call
<1>2. /\ phase' = "running" /\ stack' = <<l>> /\ call' = [key |-> key, insert |-> insert]
      /\ inserted' = IF insert THEN inserted \cup {Number(key)} ELSE inserted
      /\ UNCHANGED <<isArray, map, length, proto, result, written, foreign, apart>>
  BY DEF Call
<1>3. /\ Growing = {} /\ Maps = {map}
      /\ Dense(map) /\ apart => \A e \in Elements : Found(e)
  BY <1>1, NothingRuns
<1>4. l \in LookupFrame /\ l.fn = "lookup" /\ l.key = key /\ l.insert = insert /\ l.at = NoSlot
  <2>1. map.size \in 1..MaxSize /\ MaxSize \in Nat
    BY <1>1, MapTypes DEF Typed
  <2>2. NoSlot \in NoSlot..(MaxSize - 1)
    BY <2>1 DEF NoSlot
  <2>3. key \in Contents \cup Numbers
    <3>1. Indices \subseteq Numbers
      BY <2>1, BoundsAssumption DEF Numbers
    <3> QED
      BY <3>1 DEF Callable, Contents
  <2> QED
    BY <2>2, <2>3 DEF LookupFrame, Lookup
<1> HIDE DEF l
<1>5. stack' \in Seq(Frame) /\ Len(stack') = 1 /\ DOMAIN stack' = {1} /\ stack'[1] = l /\ stack' # <<>>
  BY <1>2, <1>4 DEF Frame
<1>6. Growing' = {}
  BY <1>4, <1>5 DEF Growing
<1>7. Maps' = {map}
  BY <1>2, <1>6 DEF Maps
<1>8. FramesInv'
  BY <1>2, <1>4, <1>5, <1>6 DEF FramesInv, Alternates, LookupInv
<1>9. MapsInv'
  BY <1>1, <1>2, <1>3, <1>7 DEF MapsInv, MovesInv, HalfEmpty, Dense
<1>10. ElementsInv'
  BY <1>1, <1>2, <1>3, <1>5, <1>6, <1>7 DEF ElementsInv, MovesInv, Dense, Elements, Found, Holds
<1>11. Typed'
  BY <1>1, <1>2, <1>5 DEF Typed, Callable
<1>12. ReturnInv'
  BY <1>2 DEF ReturnInv
<1>13. LengthInv'
  BY <1>1, <1>2, <1>3, <1>7, LengthStays DEF Filled, Dense
<1> QED
  BY <1>8, <1>9, <1>10, <1>11, <1>12, <1>13 DEF IInv, MovesInv

LEMMA StoreStep ==
  ASSUME IInv, NEW v \in Values, Store(v)
  PROVE  IInv'
<1>1. Typed /\ MovesInv /\ LengthInv /\ ReturnInv /\ phase = "returned"
  BY DEF IInv, Store
<1>2. /\ call.insert /\ result # NoSlot
      /\ map' = [map EXCEPT !.slots[result] = v]
      /\ written' = IF Dense(map) THEN [written EXCEPT ![Number(call.key)] = v] ELSE written
      /\ phase' = "idle"
      /\ UNCHANGED <<isArray, length, proto, stack, result, call, inserted, foreign, calls, apart>>
  BY DEF Store
<1>3. /\ stack = <<>> /\ Len(stack) = 0 /\ DOMAIN stack = {} /\ Growing = {} /\ Maps = {map}
      /\ Dense(map) /\ apart => \A e \in Elements : Found(e)
  BY <1>1, NothingRuns
<1>4. map \in Map /\ map.size \in Nat /\ map.size >= 1 /\ map.size <= MaxSize /\ MaxSize \in Nat
  BY <1>1, MapTypes DEF Typed
<1>5. v # Nil /\ v \in Contents
  BY NilAssumption DEF Contents
<1>6. HalfEmpty(map) /\ (\E s \in Sizes : s <= map.size) /\ (apart => KeepsApart(map.size))
  BY <1>1, <1>3 DEF MovesInv, MapsInv
<1> DEFINE n == Number(call.key)
<1>7. ASSUME Dense(map)
      PROVE  /\ n \in 0..(map.size - 1) /\ result \in 0..(map.size - 1) /\ result <= n /\ n < length
             /\ apart => result = n
             /\ n \in DOMAIN written
  <2>1. n \in 0..(map.size - 1) /\ result = BitAnd(n, map.size - 1) /\ n < length
    BY <1>1, <1>2, <1>7 DEF ReturnInv
  <2>2. n \in 0..(4 * MaxSize) /\ map.size - 1 \in 0..MaxSize
    BY <1>4, <2>1
  <2>3. result \in 0..(map.size - 1) /\ result <= n
    BY <2>1, <2>2, AndAssumption
  <2>4. apart => result = n
    BY <1>6, <2>1 DEF KeepsApart
  <2>5. n \in DOMAIN written
    BY <1>1, <1>7, <2>1, CallTypes DEF Dense
  <2> QED
    BY <2>1, <2>3, <2>4, <2>5
<1>8. ASSUME ~Dense(map)
      PROVE  result \in map.size..(2 * map.size - 1)
  BY <1>1, <1>2, <1>8 DEF ReturnInv
<1>9. result \in 0..(2 * map.size - 1)
  BY <1>4, <1>7, <1>8
<1>10. /\ map' \in Map /\ map'.size = map.size /\ Dense(map)' = Dense(map)
       /\ \A x \in 0..(2 * map.size - 1) : map'.slots[x] = IF x = result THEN v ELSE map.slots[x]
  BY <1>2, <1>4, <1>5, <1>9, MapChanged DEF Dense
<1>11. DOMAIN stack' = {} /\ Growing' = {} /\ Maps' = {map'}
  BY <1>2, <1>3 DEF Growing, Maps
<1>12. written \in [DOMAIN written -> Values \cup {Nil}] /\ DOMAIN written = {i \in Indices : i >= 0} \cup {0}
  BY <1>1 DEF Typed
<1>13. /\ written' \in [DOMAIN written -> Values \cup {Nil}] /\ DOMAIN written' = DOMAIN written
       /\ Dense(map) => \A i \in DOMAIN written : written'[i] = IF i = n THEN v ELSE written[i]
       /\ ~Dense(map) => written' = written
  BY <1>2, <1>7, <1>12
<1>14. Typed'
  BY <1>1, <1>2, <1>10, <1>12, <1>13 DEF Typed, Callable
<1> HIDE DEF n
<1>15. Dense(map) => Elements' = Elements \cup {n}
  BY <1>5, <1>7, <1>13 DEF Elements
<1>16. FramesInv'
  BY <1>2, <1>3, <1>11 DEF FramesInv, Alternates
<1>17. MapsInv'
  <2>1. ASSUME NEW m, m = map' PROVE HalfEmpty(m)'
    <3>1. ASSUME NEW x \in 0..(map.size - 1)
          PROVE  map'.slots[IF Dense(map) THEN map.size + x ELSE x] = Nil
      <4>1. CASE Dense(map)
        <5>1. map.size + x # result /\ map.size + x \in 0..(2 * map.size - 1)
          BY <1>4, <1>7, <4>1
        <5> QED
          BY <1>6, <1>10, <4>1, <5>1 DEF HalfEmpty
      <4>2. CASE ~Dense(map)
        <5>1. x # result /\ x \in 0..(2 * map.size - 1)
          BY <1>4, <1>8, <4>2
        <5> QED
          BY <1>6, <1>10, <4>2, <5>1 DEF HalfEmpty
      <4> QED
        BY <4>1, <4>2
    <3>2. Dense(m)' = Dense(map)
      BY <1>10, <2>1 DEF Dense
    <3> QED
      BY <1>10, <2>1, <3>1, <3>2 DEF HalfEmpty
  <2> QED
    BY <1>2, <1>6, <1>10, <1>11, <2>1 DEF MapsInv
<1>18. ElementsInv'
  <2> SUFFICES ASSUME Dense(map), apart
               PROVE  /\ \A e \in Elements' : Found(e)'
                      /\ \A i \in 0..(map.size - 1) : Holds(map, i)'
    BY <1>2, <1>3, <1>10, <1>11 DEF ElementsInv, Holds
  <2>1. ASSUME NEW e \in Elements' PROVE Found(e)'
    <3>1. CASE e = n
      <4>1. result = n /\ n < map.size /\ n \in DOMAIN written
        BY <1>4, <1>7
      <4> QED
        BY <1>9, <1>10, <1>13, <3>1, <4>1 DEF Found
    <3>2. CASE e # n
      <4>1. e \in Elements /\ Found(e) /\ e \in Nat /\ e \in DOMAIN written
        BY <1>1, <1>3, <1>15, <3>2, ElementTypes DEF Elements
      <4>2. e < map.size /\ e \in 0..(2 * map.size - 1) /\ e # result
        BY <1>4, <1>7, <3>2, <4>1 DEF Found
      <4> QED
        BY <1>10, <1>13, <3>2, <4>1, <4>2 DEF Found
    <3> QED
      BY <3>1, <3>2
  <2>2. ASSUME NEW i \in 0..(map.size - 1) PROVE Holds(map, i)'
    <3>0. i \in 0..(2 * map.size - 1)
      BY <1>4
    <3>1. CASE i = n
      BY <1>7, <1>10, <1>13, <1>15, <3>0, <3>1 DEF Holds
    <3>2. CASE i # n
      <4>1. Holds(map, i)
        BY <1>1, <1>3 DEF MovesInv, ElementsInv
      <4>2. map'.slots[i] = map.slots[i] /\ (i \in Elements' <=> i \in Elements)
        BY <1>7, <1>10, <1>15, <3>0, <3>2
      <4>3. i \in Elements => written'[i] = written[i]
        BY <1>13, <3>2 DEF Elements
      <4> QED
        BY <4>1, <4>2, <4>3 DEF Holds
    <3> QED
      BY <3>1, <3>2
  <2> QED
    BY <2>1, <2>2
<1>19. LengthInv'
  <2>1. ASSUME NEW e \in Elements' PROVE e < length
    <3>1. CASE Dense(map)
      BY <1>1, <1>7, <1>15, <3>1 DEF LengthInv
    <3>2. CASE ~Dense(map)
      BY <1>1, <1>13, <3>2 DEF LengthInv, Elements
    <3> QED
      BY <3>1, <3>2
  <2>2. ASSUME Dense(map), NEW i \in 0..(map.size - 1), map'.slots[i] # Nil
        PROVE  i < length
    <3>1. i \in 0..(2 * map.size - 1) /\ length \in Nat
      BY <1>1, <1>4 DEF Typed
    <3>2. CASE i = result
      <4>1. result <= n /\ n < length /\ n \in 0..(map.size - 1)
        BY <1>7, <2>2
      <4> QED
        BY <1>4, <3>1, <3>2, <4>1
    <3>3. CASE i # result
      BY <1>1, <1>3, <1>10, <2>2, <3>1, <3>3 DEF LengthInv
    <3> QED
      BY <3>2, <3>3
  <2>3. Dense(map) /\ foreign = 0 /\ length > 0 => length - 1 \in inserted
    BY <1>1 DEF LengthInv
  <2> QED
    BY <1>2, <1>10, <1>11, <1>13, <2>1, <2>2, <2>3 DEF LengthInv
<1>20. ReturnInv'
  BY <1>2 DEF ReturnInv
<1> QED
  BY <1>14, <1>16, <1>17, <1>18, <1>19, <1>20 DEF IInv, MovesInv

LEMMA LoadStep ==
  ASSUME IInv, Load
  PROVE  IInv'
<1>1. Typed /\ MovesInv /\ LengthInv /\ phase = "returned"
  BY DEF IInv, Load
<1>2. /\ phase' = "idle"
      /\ UNCHANGED <<isArray, map, length, proto, stack, result, call, written, inserted, foreign, calls, apart>>
  BY DEF Load
<1>3. /\ stack = <<>> /\ Len(stack) = 0 /\ DOMAIN stack = {} /\ Growing = {} /\ Maps = {map}
  BY <1>1, NothingRuns
<1>4. Growing' = {} /\ Maps' = {map}
  BY <1>2, <1>3 DEF Growing, Maps
<1>5. FramesInv'
  BY <1>2, <1>3, <1>4 DEF FramesInv, Alternates
<1>6. MapsInv'
  BY <1>1, <1>2, <1>3, <1>4 DEF MapsInv, MovesInv, HalfEmpty, Dense
<1>7. ElementsInv'
  BY <1>1, <1>2, <1>3, <1>4 DEF ElementsInv, MovesInv, Dense, Elements, Found, Holds
<1>8. Typed'
  BY <1>1, <1>2 DEF Typed, Callable
<1>9. ReturnInv'
  BY <1>2 DEF ReturnInv
<1>10. LengthInv'
  BY <1>1, <1>2, <1>3, <1>4, LengthStays DEF Filled, Dense
<1> QED
  BY <1>5, <1>6, <1>7, <1>8, <1>9, <1>10 DEF IInv, MovesInv

LEMMA InitHolds == Init => IInv
<1> SUFFICES ASSUME Init PROVE IInv
  OBVIOUS
<1>1. PICK size \in Sizes : map = NewEmpty(size)
  BY DEF Init
<1>2. size \in 1..MaxSize /\ MaxSize \in Nat
  BY BoundsAssumption
<1>3. map \in Map /\ map.size = size /\ \A x \in 0..(2 * size - 1) : map.slots[x] = Nil
  BY <1>1, <1>2, MapEmpty
<1>4. stack = <<>> /\ DOMAIN stack = {} /\ phase = "idle"
  BY DEF Init
<1>5. Growing = {} /\ Maps = {map}
  BY <1>4 DEF Growing, Maps
<1>6. Elements = {}
  BY DEF Init, Elements
<1>7. FramesInv
  BY <1>4, <1>5 DEF FramesInv, Alternates
<1>8. MapsInv
  <2>1. \A x \in 0..(size - 1) : x \in 0..(2 * size - 1) /\ size + x \in 0..(2 * size - 1)
    BY <1>2
  <2>2. HalfEmpty(map)
    BY <1>3, <2>1 DEF HalfEmpty
  <2>3. apart => KeepsApart(map.size)
    BY DEF Init
  <2> QED
    BY <1>2, <1>3, <1>5, <2>2, <2>3 DEF MapsInv
<1>9. \A x \in 0..(map.size - 1) : map.slots[x] = Nil
  BY <1>2, <1>3
<1>10. ElementsInv
  BY <1>5, <1>6, <1>9 DEF ElementsInv, Holds
<1>11. Typed
  <2>1. NoSlot \in NoSlot..(2 * MaxSize)
    BY <1>2 DEF NoSlot
  <2>2. stack \in Seq(Frame)
    BY <1>4, EmptySeq
  <2> QED
    BY <1>2, <1>3, <1>4, <2>1, <2>2, BoundsAssumption DEF Typed, Init, Callable, KeepsApart
<1>12. ReturnInv
  BY <1>4 DEF ReturnInv
<1>13. LengthInv
  BY <1>5, <1>6, <1>9 DEF LengthInv, Init
<1> QED
  BY <1>7, <1>8, <1>10, <1>11, <1>12, <1>13 DEF IInv, MovesInv

\* The invariant all of them follow from: whatever the nesting of growths, what the
\* current map has not got is still to be moved into it (runtime.rs 3-118).
THEOREM Inductive == Spec => []IInv
<1>1. Init => IInv
  BY InitHolds
<1>2. IInv /\ [Next]_vars => IInv'
  <2> SUFFICES ASSUME IInv, [Next]_vars PROVE IInv'
    OBVIOUS
  <2>1. ASSUME NEW key \in Callable, NEW insert \in BOOLEAN, Call(key, insert) PROVE IInv'
    BY <2>1, CallStep
  <2>2. ASSUME NEW v \in Values, Store(v) PROVE IInv'
    BY <2>2, StoreStep
  <2>3. CASE Load
    BY <2>3, LoadStep
  <2>4. CASE LookupNegative
    BY <2>4, LookupNegativeStep
  <2>5. CASE LookupDense
    BY <2>5, LookupDenseStep
  <2>6. CASE LookupHash
    BY <2>6, LookupHashStep
  <2>7. CASE Probe
    BY <2>7, ProbeStep
  <2>8. CASE GrowDense
    BY <2>8, GrowDenseStep
  <2>9. CASE GrowHash
    BY <2>9, GrowHashStep
  <2>10. CASE GrowReturns
    BY <2>10, GrowReturnsStep
  <2>11. CASE UNCHANGED vars
    <3>1. MovesInv'
      <4>1. Growing' = Growing
        BY <2>11 DEF vars, Growing
      <4>2. Maps' = Maps
        BY <2>11, <4>1 DEF vars, Maps
      <4>3. /\ \A k : GrowInv(k)' = GrowInv(k)
            /\ \A k : LookupInv(k)' = LookupInv(k)
            /\ \A m : HalfEmpty(m)' = HalfEmpty(m)
        BY <2>11 DEF vars, GrowInv, Moving, Dense, LookupInv, Start, HalfEmpty
      <4>4. FramesInv'
        BY <2>11, <4>1, <4>3 DEF vars, IInv, MovesInv, FramesInv, Alternates
      <4>5. MapsInv'
        BY <2>11, <4>2, <4>3 DEF vars, IInv, MovesInv, MapsInv
      <4>6. ElementsInv'
        BY <2>11, <4>1, <4>2 DEF vars, IInv, MovesInv, ElementsInv, Dense, Elements, Found, Waits, Holds
      <4> QED
        BY <4>4, <4>5, <4>6 DEF MovesInv
    <3>2. Typed'
      BY <2>11 DEF vars, IInv, Typed, Callable
    <3>3. ReturnInv'
      BY <2>11 DEF vars, IInv, ReturnInv, Dense, Start
    <3>4. LengthInv'
      <4>1. Maps' = Maps
        BY <2>11 DEF vars, Maps, Growing
      <4> QED
        BY <2>11, <4>1 DEF vars, IInv, LengthInv, Elements, Dense
    <3> QED
      BY <3>1, <3>2, <3>3, <3>4 DEF IInv
  <2> QED
    BY <2>1, <2>2, <2>3, <2>4, <2>5, <2>6, <2>7, <2>8, <2>9, <2>10, <2>11 DEF Next, Callable
<1> QED
  BY <1>1, <1>2, PTL DEF Spec

\* A map, its slots and the two alternating functions keep their types
\* (runtime.rs 3-118).
THEOREM TypesHold == Spec => []TypeOK
<1>1. IInv => TypeOK
  <2> SUFFICES ASSUME IInv PROVE TypeOK
    OBVIOUS
  <2>1. map.size \in 1..MaxSize /\ map.slots \in [0..(2 * map.size - 1) -> Contents]
    BY MapTypes DEF IInv, Typed
  <2>2. phase = "idle" => stack = <<>>
    BY DEF IInv, MovesInv, FramesInv, Alternates
  <2>3. \A k \in DOMAIN stack : stack[k].fn = IF k % 2 = 1 THEN "lookup" ELSE "grow"
    BY DEF IInv, MovesInv, FramesInv, Alternates
  <2> QED
    BY <2>1, <2>2, <2>3 DEF IInv, Typed, TypeOK
<1> QED
  BY <1>1, Inductive, PTL

\* Growth loses no element of an array (runtime.rs 93-118).
THEOREM Kept == Spec => []ElementsKept
<1>1. IInv => ElementsKept
  <2> SUFFICES ASSUME IInv, phase = "idle", Dense(map), apart, NEW e \in Elements
               PROVE  e < map.size /\ map.slots[e] = written[e]
    BY DEF ElementsKept
  <2>1. Found(e)
    BY NothingRuns DEF IInv
  <2> QED
    BY <2>1 DEF Found
<1> QED
  BY <1>1, Inductive, PTL

\* Growth adds to an array nothing but the foreign words it reads behind the old map,
\* and the length stays behind the last element (runtime.rs 97-107, heap.rs 979-990).
THEOREM OnlyForeign == Spec => []OnlyForeignElements
<1>1. IInv => OnlyForeignElements
  <2> SUFFICES ASSUME IInv, phase = "idle", Dense(map)
               PROVE  /\ \A i \in 0..(map.size - 1) :
                           apart /\ i \notin Elements /\ map.slots[i] # Nil =>
                             map.slots[i] = Foreign /\ \E s \in Sizes : i >= 2 * s
                      /\ \A i \in Elements : i < length
                      /\ foreign = 0 /\ length > 0 => length - 1 \in inserted
    BY DEF OnlyForeignElements
  <2>1. apart => \A i \in 0..(map.size - 1) : Holds(map, i)
    BY DEF IInv, MovesInv, ElementsInv, Maps
  <2>2. \A i \in Elements : i < length
    BY DEF IInv, LengthInv
  <2>3. foreign = 0 /\ length > 0 => length - 1 \in inserted
    BY DEF IInv, LengthInv
  <2> QED
    BY <2>1, <2>2, <2>3 DEF Holds
<1> QED
  BY <1>1, Inductive, PTL

\* No key ever enters a hash map, so every search of one ends where it began
\* (runtime.rs 47-90).
THEOREM NeverFills == Spec => []HashNeverFills
<1>1. IInv => HashNeverFills
  BY DEF IInv, MovesInv, MapsInv, Maps, HalfEmpty, ReturnInv, HashNeverFills
<1> QED
  BY <1>1, Inductive, PTL
=============================================================================
