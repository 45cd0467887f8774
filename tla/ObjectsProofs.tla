---------------------------- MODULE ObjectsProofs ----------------------------
(***************************************************************************)
(* What TLAPS proves about Objects, for any number of objects, slots,      *)
(* characters and writes: objects read as they were written, copies read   *)
(* what their objects own, and the text of a string comes out, each with   *)
(* the exceptions its property names.                                      *)
(*                                                                         *)
(* The argument: objects do not reach into each other, but for copies that *)
(* were given too few words (HeapInv), so that a write into one that is    *)
(* alone changes no other.  Strings are made of older ones, or of one that *)
(* holds characters (StructInv): by this rank the recursive definitions of *)
(* Objects have values (Solution), and what they compute is shown by       *)
(* induction.  Flattening puts every character in its place unless a half  *)
(* is written too early (Placed, FlattenPlaces), and then a word of the    *)
(* answer keeps what was there before, which is no character: nothing but  *)
(* what copies of contexts lack is written above the top (FreshInv).       *)
(*                                                                         *)
(* After the swap, the heap it found is compared with what was handed out  *)
(* since (BeforeInv): in the space collected nothing is written above the  *)
(* top, below which the first object made lies where the first copy does;  *)
(* in the other one nothing below the old top, so that what was promoted   *)
(* or was there keeps its words.                                           *)
(***************************************************************************)
EXTENDS Objects, WellFoundedInduction, TLAPS

(***************************************************************************)
(* Types, and what is read.                                                *)
(***************************************************************************)

\* The types of words, of memories, of what is remembered of an object, and of the heap.
Letters == {"a", "b", "c", "x"}
Kinds == {"Boolean", "Number", "Context", "String", "Object", "Array", "Function", "Map", "ExternData"}
Reprs == {"Normal", "Cons"}
Addresses == [space : Spaces, i : Int]

Headers == [k : {"header"}, tag : Kinds, repr : Reprs, gen : Nat]
Numbers == [k : {"number"}, n : Int]
Characters == [k : {"char"}, c : Letters]
References == [k : {"reference"}, at : Addresses]
Words == Headers \cup Numbers \cup Characters \cup References \cup {Nil, Untouched}

Memories == UNION {[D -> Words] : D \in SUBSET Int}
Entries == [at : Addresses, words : Seq(Words), text : Seq(Letters), short : BOOLEAN]
Heaps == [mem : [Spaces -> Memories], top : [Spaces -> Nat], objects : Seq(Entries)]

\* What is read after words are put over those of a space: they where they are, the others elsewhere.
LEMMA ReadPut ==
  ASSUME NEW h \in Heaps, NEW s \in Spaces, NEW f \in Memories
  PROVE  /\ Put(h, s, f) \in Heaps
         /\ Put(h, s, f).top = h.top /\ Put(h, s, f).objects = h.objects
         /\ \A a \in Addresses :
              Read(Put(h, s, f), a) = IF a.space = s /\ a.i \in DOMAIN f THEN f[a.i] ELSE Read(h, a)
<1> DEFINE m == Over(f, h.mem[s])
<1> USE DEF Heaps
<1>1. PICK D \in SUBSET Int : f \in [D -> Words]
  BY DEF Memories
<1>2. PICK E \in SUBSET Int : h.mem[s] \in [E -> Words]
  <2>1. h.mem[s] \in Memories
    OBVIOUS
  <2> QED BY <2>1 DEF Memories
<1>3. m = [x \in D \cup E |-> IF x \in D THEN f[x] ELSE h.mem[s][x]]
  BY <1>1, <1>2 DEF Over
<1>4. m \in Memories
  <2>1. m \in [D \cup E -> Words]
    BY <1>1, <1>2, <1>3
  <2> QED BY <2>1 DEF Memories
<1>5. Put(h, s, f) = [h EXCEPT !.mem[s] = m]
  BY DEF Put
<1> HIDE DEF m
<1>6. Put(h, s, f) \in Heaps /\ Put(h, s, f).top = h.top /\ Put(h, s, f).objects = h.objects
  BY <1>4, <1>5
<1>7. ASSUME NEW a \in Addresses
      PROVE  Read(Put(h, s, f), a) = IF a.space = s /\ a.i \in DOMAIN f THEN f[a.i] ELSE Read(h, a)
  <2>1. a.space \in Spaces
    BY DEF Addresses
  <2>2. Put(h, s, f).mem = [h.mem EXCEPT ![s] = m]
    BY <1>5
  <2>3. CASE a.space = s
    <3>1. Put(h, s, f).mem[a.space] = m
      BY <2>2, <2>3
    <3> QED BY <1>1, <1>2, <1>3, <2>3, <3>1 DEF Read
  <2>4. CASE a.space # s
    <3>1. Put(h, s, f).mem[a.space] = h.mem[a.space]
      BY <2>1, <2>2, <2>4
    <3> QED BY <2>4, <3>1 DEF Read
  <2> QED BY <2>3, <2>4
<1> QED BY <1>6, <1>7

\* Every address reads as a word: what was never written reads as Untouched.
LEMMA ReadsWord ==
  ASSUME NEW h \in Heaps, NEW a \in Addresses
  PROVE  Read(h, a) \in Words
<1>1. h.mem[a.space] \in Memories
  BY DEF Heaps, Addresses
<1>2. PICK D \in SUBSET Int : h.mem[a.space] \in [D -> Words]
  BY <1>1 DEF Memories
<1>3. Untouched \in Words
  BY DEF Words
<1> QED BY <1>2, <1>3 DEF Read

\* What is read after a run of words is written at an address, as the constructors and copy_to write them.
LEMMA ReadWriteAll ==
  ASSUME NEW h \in Heaps, NEW a \in Addresses, NEW ws \in Seq(Words)
  PROVE  /\ WriteAll(h, a, ws) \in Heaps
         /\ WriteAll(h, a, ws).top = h.top /\ WriteAll(h, a, ws).objects = h.objects
         /\ \A b \in Addresses :
              Read(WriteAll(h, a, ws), b) =
                IF b.space = a.space /\ b.i \in a.i..(a.i + Len(ws) - 1) THEN ws[b.i - a.i + 1]
                ELSE Read(h, b)
<1> DEFINE D == a.i..(a.i + Len(ws) - 1)
           f == [i \in D |-> ws[i - a.i + 1]]
<1>1. a.i \in Int /\ a.space \in Spaces /\ D \in SUBSET Int
  BY DEF Addresses
<1>2. f \in [D -> Words]
  BY <1>1
<1>3. f \in Memories
  BY <1>1, <1>2 DEF Memories
<1>4. WriteAll(h, a, ws) = Put(h, a.space, f)
  BY DEF WriteAll
<1>5. DOMAIN f = D
  OBVIOUS
<1>6. \A i \in D : f[i] = ws[i - a.i + 1]
  OBVIOUS
<1> HIDE DEF f
<1> QED BY <1>1, <1>3, <1>4, <1>5, <1>6, ReadPut

(***************************************************************************)
(* The invariant of the heap.                                              *)
(***************************************************************************)

\* The count among the words of an object.
CountOf(words) == IF Counted(words[1].tag) THEN words[CountAt(words[1].tag) + 1].n ELSE 0

\* As many words as the header and the count say.
Shaped(words) ==
  /\ Len(words) >= 1 /\ words[1] \in Headers
  /\ Counted(words[1].tag) =>
       CountAt(words[1].tag) < Len(words) /\ words[CountAt(words[1].tag) + 1] \in [k : {"number"}, n : Nat]
  /\ Len(words) = Owned(words[1].tag, words[1].repr, CountOf(words))

\* How many words an object lies on: a context copied short shares all but its header.
Extent(x) == IF x.short THEN 1 ELSE Len(x.words)

\* Of two objects the first one ends before the second begins.
Apart(x, y) ==
  x.at.space = y.at.space =>
    /\ x.at.i # y.at.i
    /\ x.at.i < y.at.i => x.at.i + Extent(x) <= y.at.i

\* Every word that was written to it reads as it was written.
ReadsOwn(h, x) ==
  \A i \in DOMAIN x.words : x.words[i] \in {Untouched, Read(h, Offset(x.at, i - 1))}

\* All objects have their shape, and only contexts were copied short.
ShapeInv(h) ==
  \A o \in DOMAIN h.objects :
    Shaped(h.objects[o].words) /\ (h.objects[o].short => ShortContext(h.objects[o]))

\* Objects lie below the top of their space and apart.
LayoutInv(h) ==
  /\ \A o \in DOMAIN h.objects :
       LET x == h.objects[o] IN x.at.i + Extent(x) - 1 <= h.top[x.at.space]
  /\ \A o, p \in DOMAIN h.objects : o # p => Apart(h.objects[o], h.objects[p])

\* Objects read as they were written.
ReadInv(h) == \A o \in DOMAIN h.objects : Exempt(h, o) \/ ReadsOwn(h, h.objects[o])

HeapInv(h) == h \in Heaps /\ ShapeInv(h) /\ LayoutInv(h) /\ ReadInv(h)

\* Objects that overlap: one of them is short.
LEMMA OverlapShort ==
  ASSUME NEW x \in Entries, NEW y \in Entries, Apart(x, y), Apart(y, x), Overlap(x, y)
  PROVE  x.short \/ y.short
<1> SUFFICES ASSUME ~x.short, ~y.short PROVE FALSE
  OBVIOUS
<1>1. x.at.i \in Int /\ y.at.i \in Int /\ Len(x.words) \in Nat /\ Len(y.words) \in Nat
  BY DEF Entries, Addresses
<1> QED BY <1>1 DEF Apart, Overlap, Extent

\* Where the words of an object lie.
LEMMA OwnAddress ==
  ASSUME NEW x \in Entries, NEW i \in DOMAIN x.words
  PROVE  /\ i \in 1..Len(x.words)
         /\ Offset(x.at, i - 1) \in Addresses
         /\ Offset(x.at, i - 1).space = x.at.space
         /\ Offset(x.at, i - 1).i = x.at.i + i - 1
BY DEF Entries, Addresses, Offset

\* The parts of an object of a heap.
LEMMA EntryOf ==
  ASSUME NEW h \in Heaps, NEW o \in DOMAIN h.objects
  PROVE  h.objects[o] \in Entries /\ h.objects[o].at \in Addresses /\ h.objects[o].words \in Seq(Words)
         /\ h.objects[o].text \in Seq(Letters) /\ h.objects[o].short \in BOOLEAN
         /\ h.objects[o].at.space \in Spaces /\ h.objects[o].at.i \in Int
<1>1. h.objects \in Seq(Entries)
  BY DEF Heaps
<1>2. h.objects[o] \in Entries
  BY <1>1
<1>3. h.objects[o].at \in Addresses /\ h.objects[o].words \in Seq(Words) /\ h.objects[o].text \in Seq(Letters)
      /\ h.objects[o].short \in BOOLEAN
  BY <1>2 DEF Entries
<1> QED BY <1>2, <1>3 DEF Addresses

\* An object added at the top of a space disturbs none of those below it (allocate bumps the top by as much
\* as the object extends): shapes, layout and what is read stay.
LEMMA AppendKeeps ==
  ASSUME NEW h, HeapInv(h), NEW g \in Heaps, NEW x \in Entries, NEW s \in Spaces,
         g.objects = Append(h.objects, x), x.at.space = s, x.at.i = h.top[s] + 1,
         Shaped(x.words), x.short => ShortContext(x),
         g.top[s] >= h.top[s] + Extent(x), \A t \in Spaces : g.top[t] >= h.top[t],
         \A b \in Addresses : b.space # s \/ b.i <= h.top[s] => Read(g, b) = Read(h, b),
         ReadsOwn(g, x) \/ ShortContext(x)
  PROVE  HeapInv(g)
<1> DEFINE N == Len(h.objects)
<1>1. h \in Heaps /\ N \in Nat /\ DOMAIN h.objects = 1..N /\ DOMAIN g.objects = 1..(N+1)
      /\ h.objects \in Seq(Entries)
  BY DEF HeapInv, Heaps
<1>2. g.objects[N+1] = x /\ \A o \in 1..N : g.objects[o] = h.objects[o]
  BY <1>1
<1>3. \A o \in DOMAIN g.objects : o \in 1..N \/ o = N + 1
  BY <1>1
<1> HIDE DEF N
<1>4. ShapeInv(g)
  BY <1>1, <1>2, <1>3 DEF HeapInv, ShapeInv
<1>5. LayoutInv(g)
  <2>1. ASSUME NEW o \in 1..N
        PROVE  /\ h.objects[o].at.i + Extent(h.objects[o]) - 1 <= h.top[h.objects[o].at.space]
               /\ Extent(h.objects[o]) \in Nat /\ h.objects[o] \in Entries
               /\ h.objects[o].at.space \in Spaces /\ h.objects[o].at.i \in Int
               /\ Extent(h.objects[o]) >= 1
    <3>1. h.objects[o] \in Entries /\ h.objects[o].at.space \in Spaces /\ h.objects[o].at.i \in Int
          /\ h.objects[o].words \in Seq(Words)
      BY <1>1, EntryOf
    <3>2. Len(h.objects[o].words) >= 1
      BY <1>1 DEF HeapInv, ShapeInv, Shaped
    <3> QED BY <1>1, <3>1, <3>2, SMTT(30) DEF HeapInv, LayoutInv, Extent
  <2>2. \A t \in Spaces : h.top[t] \in Nat /\ g.top[t] \in Nat
    BY <1>1 DEF Heaps
  <2>3. Extent(x) \in Nat
    BY DEF Extent, Entries
  <2>4. ASSUME NEW o \in 1..(N+1)
        PROVE  g.objects[o].at.i + Extent(g.objects[o]) - 1 <= g.top[g.objects[o].at.space]
    <3>1. CASE o \in 1..N
      <4> DEFINE t == h.objects[o].at.space
                 e == h.objects[o].at.i + Extent(h.objects[o]) - 1
      <4>1. e <= h.top[t] /\ t \in Spaces /\ e \in Int
        BY <2>1, <3>1
      <4>2. h.top[t] <= g.top[t] /\ h.top[t] \in Nat /\ g.top[t] \in Nat
        BY <2>2, <4>1
      <4>3. e <= g.top[t]
        BY <4>1, <4>2
      <4> QED BY <1>2, <3>1, <4>3
    <3>2. CASE o = N + 1
      <4>1. h.top[s] \in Nat /\ g.top[s] \in Nat
        BY <2>2
      <4>2. x.at.i + Extent(x) - 1 <= g.top[s]
        BY <2>3, <4>1
      <4> QED BY <1>2, <3>2, <4>2
    <3> QED BY <1>1, <1>3, <3>1, <3>2
  <2>5. ASSUME NEW o \in 1..N PROVE Apart(h.objects[o], x) /\ Apart(x, h.objects[o])
    <3> DEFINE y == h.objects[o]
    <3>1. CASE y.at.space = s
      <4>1. y.at.i + Extent(y) - 1 <= h.top[s] /\ Extent(y) \in Nat /\ Extent(y) >= 1 /\ y.at.i \in Int
        BY <2>1, <3>1
      <4>2. h.top[s] \in Nat
        BY <2>2
      <4> QED BY <4>1, <4>2 DEF Apart
    <3> QED BY <3>1 DEF Apart
  <2>6. ASSUME NEW o \in 1..(N+1), NEW p \in 1..(N+1), o # p PROVE Apart(g.objects[o], g.objects[p])
    <3>1. CASE o \in 1..N /\ p \in 1..N
      BY <1>1, <1>2, <2>6, <3>1 DEF HeapInv, LayoutInv
    <3>2. CASE o = N + 1 \/ p = N + 1
      BY <1>1, <1>2, <1>3, <2>5, <2>6, <3>2
    <3> QED BY <1>1, <1>3, <3>1, <3>2
  <2> QED BY <1>1, <2>4, <2>6 DEF LayoutInv
<1>6. ReadInv(g)
  <2> SUFFICES ASSUME NEW o \in DOMAIN g.objects, ~Exempt(g, o) PROVE ReadsOwn(g, g.objects[o])
    BY DEF ReadInv
  <2>1. CASE o = N + 1
    BY <1>2, <2>1 DEF Exempt
  <2>2. CASE o \in 1..N
    <3> DEFINE y == h.objects[o]
    <3>1. g.objects[o] = y /\ y \in Entries
      BY <1>1, <1>2, <2>2, EntryOf
    <3>2. ~Exempt(h, o)
      BY <1>1, <1>2, <2>2, SMTT(30) DEF Exempt
    <3>3. ReadsOwn(h, y)
      BY <1>1, <2>2, <3>2 DEF HeapInv, ReadInv
    <3>4. ~y.short
      BY <1>1, <2>2, <3>2 DEF Exempt, HeapInv, ShapeInv
    <3>5. y.at.i + Len(y.words) - 1 <= h.top[y.at.space]
      BY <1>1, <2>2, <3>4 DEF HeapInv, LayoutInv, Extent
    <3>6. ASSUME NEW i \in DOMAIN y.words
          PROVE  Read(g, Offset(y.at, i - 1)) = Read(h, Offset(y.at, i - 1))
      <4>1. i \in 1..Len(y.words) /\ Offset(y.at, i - 1) \in Addresses
            /\ Offset(y.at, i - 1).space = y.at.space /\ Offset(y.at, i - 1).i = y.at.i + i - 1
        BY <3>1, OwnAddress
      <4>0. y.at.i \in Int /\ Len(y.words) \in Nat /\ y.at.space \in Spaces
        <5>1. y.at \in Addresses /\ y.words \in Seq(Words)
          BY <3>1 DEF Entries
        <5> QED BY <5>1 DEF Addresses
      <4>2. h.top[y.at.space] \in Nat
        BY <1>1, <4>0 DEF Heaps
      <4>3. y.at.i + i - 1 <= h.top[y.at.space]
        <5> DEFINE a == y.at.i
                   l == Len(y.words)
                   t == h.top[y.at.space]
        <5>1. a + l - 1 <= t /\ i \in 1..l /\ a \in Int /\ l \in Nat /\ t \in Nat
          BY <3>5, <4>0, <4>1, <4>2
        <5> HIDE DEF a, l, t
        <5>2. a + i - 1 <= t
          BY <5>1
        <5> QED BY <5>2 DEF a, t
      <4> QED BY <4>0, <4>1, <4>3
    <3> HIDE DEF y
    <3> QED BY <3>1, <3>3, <3>6 DEF ReadsOwn
  <2> QED BY <1>3, <2>1, <2>2
<1> QED BY <1>4, <1>5, <1>6 DEF HeapInv

(***************************************************************************)
(* Writes.                                                                 *)
(***************************************************************************)

\* What a write into an object changes.
Stored(h, g, o, n, w) ==
  /\ g \in Heaps /\ g.top = h.top /\ DOMAIN g.objects = DOMAIN h.objects /\ Len(g.objects) = Len(h.objects)
  /\ \A p \in DOMAIN h.objects : p # o => g.objects[p] = h.objects[p]
  /\ g.objects[o].at = h.objects[o].at /\ g.objects[o].short = h.objects[o].short
  /\ g.objects[o].text = h.objects[o].text
  /\ g.objects[o].words = [h.objects[o].words EXCEPT ![n + 1] = w]
  /\ \A a \in Addresses :
       Read(g, a) = IF a.space = h.objects[o].at.space /\ a.i = h.objects[o].at.i + n THEN w ELSE Read(h, a)

\* Store is the write of one word of an object, in memory and in the history.
LEMMA StoreIs ==
  ASSUME NEW h \in Heaps, NEW o \in DOMAIN h.objects, NEW n \in 0..(Len(h.objects[o].words) - 1), NEW w \in Words
  PROVE  Stored(h, Store(h, o, n, w), o, n, w)
<1> DEFINE x == h.objects[o]
           after == WriteAll(h, Offset(x.at, n), <<w>>)
           g == Store(h, o, n, w)
           y == [x EXCEPT !.words[n + 1] = w]
<1>1. x \in Entries /\ x.at \in Addresses /\ x.at.space \in Spaces /\ x.at.i \in Int /\ x.words \in Seq(Words)
      /\ Len(x.words) \in Nat
  BY EntryOf
<1>2. Offset(x.at, n) \in Addresses /\ Offset(x.at, n).space = x.at.space /\ Offset(x.at, n).i = x.at.i + n
  BY <1>1 DEF Offset, Addresses
<1>3. <<w>> \in Seq(Words) /\ Len(<<w>>) = 1 /\ <<w>>[1] = w
  OBVIOUS
<1>4. /\ after \in Heaps /\ after.top = h.top /\ after.objects = h.objects
      /\ \A a \in Addresses :
           Read(after, a) = IF a.space = x.at.space /\ a.i = x.at.i + n THEN w ELSE Read(h, a)
  <2> DEFINE ws == <<w>>
             b == Offset(x.at, n)
  <2>1. ws \in Seq(Words) /\ Len(ws) = 1 /\ ws[1] = w /\ b \in Addresses /\ b.space = x.at.space /\ b.i = x.at.i + n
    BY <1>2, <1>3
  <2>2. after = WriteAll(h, b, ws)
    OBVIOUS
  <2> HIDE DEF ws, b, after
  <2>3. /\ after \in Heaps /\ after.top = h.top /\ after.objects = h.objects
        /\ \A a \in Addresses :
              Read(after, a) =
                IF a.space = b.space /\ a.i \in b.i..(b.i + Len(ws) - 1) THEN ws[a.i - b.i + 1] ELSE Read(h, a)
    BY <2>1, <2>2, ReadWriteAll
  <2>4. ASSUME NEW a \in Addresses
        PROVE  Read(after, a) = IF a.space = x.at.space /\ a.i = x.at.i + n THEN w ELSE Read(h, a)
    <3>1. a.i \in Int
      BY DEF Addresses
    <3>2. a.i \in b.i..(b.i + Len(ws) - 1) <=> a.i = x.at.i + n
      <4> DEFINE i == a.i
                 f == x.at.i + n
      <4>1. i \in Int /\ f \in Int /\ b.i = f /\ Len(ws) = 1
        BY <1>1, <2>1, <3>1
      <4> HIDE DEF i, f
      <4>2. i \in f..(f + 1 - 1) <=> i = f
        BY <4>1
      <4> QED BY <4>1, <4>2 DEF i, f
    <3>3. a.i = x.at.i + n => a.i - b.i + 1 = 1
      BY <1>1, <2>1, <3>1
    <3> QED BY <2>1, <2>3, <3>2, <3>3
  <2> QED BY <2>3, <2>4
<1>5. y \in Entries /\ y.at = x.at /\ y.short = x.short /\ y.text = x.text /\ y.words = [x.words EXCEPT ![n + 1] = w]
  <2>1. [x.words EXCEPT ![n + 1] = w] \in Seq(Words)
    BY <1>1
  <2> QED BY <1>1, <2>1 DEF Entries
<1>6. g = [after EXCEPT !.objects = [after.objects EXCEPT ![o] = y]]
  BY <1>4 DEF Store
<1> HIDE DEF after, y, g
<1>7. h.objects \in Seq(Entries)
  BY DEF Heaps
<1>8. [h.objects EXCEPT ![o] = y] \in Seq(Entries)
  BY <1>5, <1>7
<1>9. g \in Heaps /\ g.mem = after.mem /\ g.top = h.top /\ g.objects = [h.objects EXCEPT ![o] = y]
  BY <1>4, <1>6, <1>8 DEF Heaps
<1>10. \A a \in Addresses : Read(g, a) = Read(after, a)
  BY <1>9 DEF Read
<1>11. DOMAIN g.objects = DOMAIN h.objects /\ Len(g.objects) = Len(h.objects) /\ g.objects[o] = y
       /\ \A p \in DOMAIN h.objects : p # o => g.objects[p] = h.objects[p]
  BY <1>7, <1>9
<1>12. Store(h, o, n, w) = g
  BY DEF g
<1> HIDE DEF x
<1>13. Stored(h, g, o, n, w)
  BY <1>4, <1>5, <1>9, <1>10, <1>11 DEF Stored, x
<1> QED BY <1>12, <1>13

\* Objects neither of which is short are apart.
LEMMA NoOverlap ==
  ASSUME NEW h, HeapInv(h), NEW o \in DOMAIN h.objects, NEW p \in DOMAIN h.objects, p # o,
         ~h.objects[o].short, ~h.objects[p].short
  PROVE  ~Overlap(h.objects[p], h.objects[o])
<1>1. Apart(h.objects[p], h.objects[o]) /\ Apart(h.objects[o], h.objects[p])
  BY DEF HeapInv, LayoutInv
<1>2. h.objects[p] \in Entries /\ h.objects[o] \in Entries
  BY EntryOf DEF HeapInv
<1> QED BY <1>1, <1>2, OverlapShort

\* A write into one object leaves what is read of one that shares no words with it.
LEMMA StoreReads ==
  ASSUME NEW h, HeapInv(h), NEW o \in DOMAIN h.objects, NEW n \in 0..(Len(h.objects[o].words) - 1), NEW w \in Words,
         NEW g, Stored(h, g, o, n, w), NEW p \in DOMAIN h.objects, ReadsOwn(h, h.objects[p]),
         p = o \/ ~Overlap(h.objects[p], h.objects[o])
  PROVE  ReadsOwn(g, g.objects[p])
<1> DEFINE x == h.objects[o]
           y == g.objects[o]
<1>1. h \in Heaps /\ g \in Heaps /\ g.top = h.top /\ DOMAIN g.objects = DOMAIN h.objects
  BY DEF HeapInv, Stored
<1>2. /\ x \in Entries /\ y \in Entries /\ x.at.space \in Spaces /\ x.at.i \in Int /\ x.words \in Seq(Words)
      /\ y.at = x.at /\ y.short = x.short /\ y.words = [x.words EXCEPT ![n + 1] = w]
  BY <1>1, EntryOf DEF Stored
<1>3. Len(y.words) = Len(x.words) /\ DOMAIN y.words = DOMAIN x.words /\ y.words[n + 1] = w
      /\ \A i \in DOMAIN x.words : i # n + 1 => y.words[i] = x.words[i]
  BY <1>2
<1>4. ReadsOwn(g, g.objects[p])
  <2> DEFINE z == h.objects[p]
  <2>1. ReadsOwn(h, z) /\ z \in Entries /\ z.at.space \in Spaces /\ z.at.i \in Int /\ z.words \in Seq(Words)
    BY <1>1, EntryOf
  <2>2. CASE p = o
    <3> SUFFICES ASSUME NEW i \in DOMAIN x.words
                 PROVE  y.words[i] \in {Untouched, Read(g, Offset(x.at, i - 1))}
      BY <1>2, <1>3, <2>2 DEF ReadsOwn
    <3>1. i \in 1..Len(x.words) /\ Offset(x.at, i - 1) \in Addresses /\ Offset(x.at, i - 1).space = x.at.space
          /\ Offset(x.at, i - 1).i = x.at.i + i - 1
      BY <1>2, OwnAddress
    <3>2. CASE i = n + 1
      <4>1. Offset(x.at, i - 1).i = x.at.i + n
        BY <1>2, <3>1, <3>2
      <4>2. Read(g, Offset(x.at, i - 1)) = w
        BY <3>1, <4>1 DEF Stored
      <4> QED BY <1>3, <3>2, <4>2
    <3>3. CASE i # n + 1
      <4>1. Offset(x.at, i - 1).i # x.at.i + n
        BY <1>2, <3>1, <3>3
      <4>2. Read(g, Offset(x.at, i - 1)) = Read(h, Offset(x.at, i - 1))
        BY <3>1, <4>1 DEF Stored
      <4>3. x.words[i] \in {Untouched, Read(h, Offset(x.at, i - 1))}
        BY <2>1, <2>2 DEF ReadsOwn
      <4> QED BY <1>3, <3>3, <4>2, <4>3
    <3> QED BY <3>2, <3>3
  <2>3. CASE p # o
    <3>1. ~Overlap(z, x)
      BY <2>3
    <3>2. ASSUME NEW i \in DOMAIN z.words
          PROVE  Read(g, Offset(z.at, i - 1)) = Read(h, Offset(z.at, i - 1))
      <4>1. i \in 1..Len(z.words) /\ Offset(z.at, i - 1) \in Addresses /\ Offset(z.at, i - 1).space = z.at.space
            /\ Offset(z.at, i - 1).i = z.at.i + i - 1
        BY <2>1, OwnAddress
      <4>2. ~(z.at.space = x.at.space /\ z.at.i + i - 1 = x.at.i + n)
        <5> SUFFICES ASSUME z.at.space = x.at.space, z.at.i + i - 1 = x.at.i + n PROVE FALSE
          OBVIOUS
        <5>1. Len(x.words) \in Nat /\ Len(z.words) \in Nat /\ n >= 0 /\ n < Len(x.words)
          BY <1>2, <2>1, SMTT(30)
        <5> DEFINE zi == z.at.i
                   xi == x.at.i
                   zl == Len(z.words)
                   xl == Len(x.words)
        <5>3. zi \in Int /\ xi \in Int /\ zl \in Nat /\ xl \in Nat /\ i \in 1..zl /\ n \in Int /\ zi + i - 1 = xi + n
              /\ n >= 0 /\ n < xl
          BY <1>2, <2>1, <4>1, <5>1
        <5> HIDE DEF zi, xi, zl, xl
        <5>4. zi < xi + xl /\ xi < zi + zl
          BY <5>3
        <5>2. z.at.i < x.at.i + Len(x.words) /\ x.at.i < z.at.i + Len(z.words)
          BY <5>4 DEF zi, xi, zl, xl
        <5> QED BY <3>1, <5>2 DEF Overlap
      <4> QED BY <4>1, <4>2 DEF Stored
    <3>3. g.objects[p] = z
      BY <2>3 DEF Stored
    <3> HIDE DEF z
    <3> QED BY <2>1, <3>2, <3>3 DEF ReadsOwn
  <2> QED BY <2>2, <2>3
<1> QED BY <1>4

\* A write into an object keeps the heap's invariant if it leaves the object its shape.
LEMMA StoreKeeps ==
  ASSUME NEW h, HeapInv(h), NEW o \in DOMAIN h.objects, NEW n \in 0..(Len(h.objects[o].words) - 1), NEW w \in Words,
         NEW g, Stored(h, g, o, n, w),
         Shaped(g.objects[o].words), g.objects[o].words[1].tag = h.objects[o].words[1].tag
  PROVE  HeapInv(g)
<1> DEFINE x == h.objects[o]
           y == g.objects[o]
<1>1. h \in Heaps /\ g \in Heaps /\ g.top = h.top /\ DOMAIN g.objects = DOMAIN h.objects
  BY DEF HeapInv, Stored
<1>2. /\ x \in Entries /\ y \in Entries /\ x.at.space \in Spaces /\ x.at.i \in Int /\ x.words \in Seq(Words)
      /\ y.at = x.at /\ y.short = x.short /\ y.words = [x.words EXCEPT ![n + 1] = w]
  BY <1>1, EntryOf DEF Stored
<1>3. Len(y.words) = Len(x.words) /\ DOMAIN y.words = DOMAIN x.words /\ y.words[n + 1] = w
      /\ \A i \in DOMAIN x.words : i # n + 1 => y.words[i] = x.words[i]
  BY <1>2
<1>4. ASSUME NEW p \in DOMAIN h.objects
      PROVE  /\ g.objects[p].at = h.objects[p].at /\ g.objects[p].short = h.objects[p].short
             /\ Len(g.objects[p].words) = Len(h.objects[p].words)
             /\ g.objects[p].words[1].tag = h.objects[p].words[1].tag
             /\ p # o => g.objects[p] = h.objects[p]
  BY <1>2, <1>3 DEF Stored
<1>5. \A p \in DOMAIN h.objects : ShortContext(g.objects[p]) <=> ShortContext(h.objects[p])
  BY <1>4 DEF ShortContext
<1>6. \A p, q \in DOMAIN h.objects :
         Overlap(g.objects[p], g.objects[q]) <=> Overlap(h.objects[p], h.objects[q])
  BY <1>4 DEF Overlap
<1>7. ShapeInv(g)
  BY <1>1, <1>4, <1>5 DEF HeapInv, ShapeInv
<1>8. LayoutInv(g)
  <2>1. \A p \in DOMAIN h.objects : Extent(g.objects[p]) = Extent(h.objects[p])
    BY <1>4 DEF Extent
  <2>2. \A p, q \in DOMAIN h.objects : Apart(h.objects[p], h.objects[q]) => Apart(g.objects[p], g.objects[q])
    BY <1>4, <2>1 DEF Apart
  <2> QED BY <1>1, <1>4, <2>1, <2>2 DEF HeapInv, LayoutInv
<1>9. \A p \in DOMAIN h.objects : Exempt(g, p) <=> Exempt(h, p)
  BY <1>1, <1>5, <1>6 DEF Exempt
<1>10. ReadInv(g)
  <2> SUFFICES ASSUME NEW p \in DOMAIN h.objects, ~Exempt(h, p) PROVE ReadsOwn(g, g.objects[p])
    BY <1>1, <1>9 DEF ReadInv
  <2>1. ReadsOwn(h, h.objects[p])
    BY DEF HeapInv, ReadInv
  <2>2. p = o \/ ~Overlap(h.objects[p], h.objects[o])
    <3> SUFFICES ASSUME p # o, Overlap(h.objects[p], h.objects[o]) PROVE FALSE
      OBVIOUS
    <3>1. h.objects[p].short \/ h.objects[o].short
      BY NoOverlap
    <3>2. ShortContext(h.objects[p]) \/ ShortContext(h.objects[o])
      BY <3>1 DEF HeapInv, ShapeInv
    <3> QED BY <3>2 DEF Exempt
  <2> QED BY <2>1, <2>2, StoreReads
<1> QED BY <1>1, <1>7, <1>8, <1>10 DEF HeapInv

(***************************************************************************)
(* Objects added.                                                          *)
(***************************************************************************)

\* What is added to a heap: object x, of which n words at the top of s are written.
Grown(h, g, s, n, x) ==
  /\ g \in Heaps /\ x \in Entries /\ g.objects = Append(h.objects, x)
  /\ x.at = Top(h, s) /\ g.top = [h.top EXCEPT ![s] = @ + n]
  /\ \A b \in Addresses :
       b.space # s \/ b.i <= h.top[s] \/ b.i > h.top[s] + n => Read(g, b) = Read(h, b)

\* Nothing but what a copy of a context lacks is written above the top: no character.
FreshInv(h) == \A b \in Addresses : b.i > h.top[b.space] => Read(h, b) \notin Characters

\* The next address handed out in a space.
LEMMA TopIs ==
  ASSUME NEW h \in Heaps, NEW s \in Spaces
  PROVE  /\ Top(h, s) \in Addresses /\ Top(h, s).space = s /\ Top(h, s).i = h.top[s] + 1
         /\ h.top[s] \in Nat
<1>1. h.top[s] \in Nat
  BY DEF Heaps
<1> QED BY <1>1 DEF Top, At, Addresses

\* An address some words further on.
LEMMA OffsetIs ==
  ASSUME NEW a \in Addresses, NEW n \in Int
  PROVE  Offset(a, n) \in Addresses /\ Offset(a, n).space = a.space /\ Offset(a, n).i = a.i + n
<1>1. Offset(a, n) = [a EXCEPT !.i = a.i + n] /\ a.i + n \in Int
  BY DEF Offset, Addresses
<1> QED BY <1>1 DEF Addresses

\* Handing out words writes none.
LEMMA AllocateIs ==
  ASSUME NEW h \in Heaps, NEW s \in Spaces, NEW n \in Nat
  PROVE  /\ Allocate(h, s, n) \in Heaps /\ Allocate(h, s, n).objects = h.objects
         /\ Allocate(h, s, n).top = [h.top EXCEPT ![s] = @ + n]
         /\ \A b : Read(Allocate(h, s, n), b) = Read(h, b)
<1> DEFINE g == Allocate(h, s, n)
<1>1. h.top \in [Spaces -> Nat] /\ h.mem \in [Spaces -> Memories] /\ h.objects \in Seq(Entries)
  BY DEF Heaps
<1>2. g = [h EXCEPT !.top = [h.top EXCEPT ![s] = @ + n]]
  BY DEF Allocate, Heaps
<1>3. [h.top EXCEPT ![s] = @ + n] \in [Spaces -> Nat]
  BY <1>1
<1> HIDE DEF g
<1>4. g \in Heaps /\ g.mem = h.mem /\ g.top = [h.top EXCEPT ![s] = @ + n] /\ g.objects = h.objects
  BY <1>2, <1>3 DEF Heaps
<1> QED BY <1>4 DEF g, Read

\* A heap that grows by an object that fits into the words it is given keeps the invariant, and writes no character
\* above the top.
LEMMA GrownKeeps ==
  ASSUME NEW h, HeapInv(h), FreshInv(h), NEW g, NEW s \in Spaces, NEW n \in Nat, NEW x, Grown(h, g, s, n, x),
         Shaped(x.words), x.short => ShortContext(x), n >= Extent(x), ReadsOwn(g, x) \/ ShortContext(x)
  PROVE  HeapInv(g) /\ FreshInv(g)
<1>1. h \in Heaps /\ g \in Heaps /\ x \in Entries
  BY DEF HeapInv, Grown
<1>2. \A t \in Spaces : h.top[t] \in Nat /\ g.top[t] \in Nat /\ g.top[t] >= h.top[t]
  <2>1. h.top \in [Spaces -> Nat]
    BY <1>1 DEF Heaps
  <2> QED BY <2>1 DEF Grown
<1>3. x.at.space = s /\ x.at.i = h.top[s] + 1
  BY <1>1, TopIs DEF Grown
<1>4. g.top[s] = h.top[s] + n
  <2>1. h.top \in [Spaces -> Nat]
    BY <1>1 DEF Heaps
  <2> QED BY <2>1 DEF Grown
<1>5. g.top[s] >= h.top[s] + Extent(x)
  <2>1. Extent(x) \in Int
    BY <1>1 DEF Extent, Entries
  <2> QED BY <1>2, <1>4, <2>1
<1>6. HeapInv(g)
  <2>1. \A b \in Addresses : b.space # s \/ b.i <= h.top[s] => Read(g, b) = Read(h, b)
    BY DEF Grown
  <2>2. g.objects = Append(h.objects, x)
    BY DEF Grown
  <2> QED BY <1>1, <1>2, <1>3, <1>5, <2>1, <2>2, AppendKeeps
<1>7. FreshInv(g)
  <2> SUFFICES ASSUME NEW b \in Addresses, b.i > g.top[b.space] PROVE Read(g, b) \notin Characters
    BY DEF FreshInv
  <2>1. b.space \in Spaces /\ b.i \in Int
    BY DEF Addresses
  <2>2. b.i > h.top[b.space]
    BY <1>2, <2>1
  <2>3. b.space # s \/ b.i > h.top[s] + n
    BY <1>4
  <2>4. Read(g, b) = Read(h, b)
    BY <2>3 DEF Grown
  <2> QED BY <2>2, <2>4 DEF FreshInv
<1> QED BY <1>6, <1>7

(***************************************************************************)
(* What survives a swap.                                                   *)
(***************************************************************************)

\* Once a word of space s is handed out, an object lies at the first one.
First(h, s) == h.top[s] > 0 => \E o \in DOMAIN h.objects : h.objects[o].at = At(s, 1)

\* Heap h is what was handed out and written since the swap of space sp found heap b: above the top of sp nothing was
\* written, and in the other space nothing that was handed out before.
Since(h, b, sp) ==
  /\ b \in Heaps /\ sp \in Spaces
  /\ \A a \in Addresses : a.space = sp /\ a.i > h.top[sp] => Read(h, a) = Untouched
  /\ \A a \in Addresses : a.space \notin {sp, "tmp"} /\ a.i <= b.top[a.space] => Read(h, a) = Read(b, a)
  /\ \A s \in Spaces \ {sp, "tmp"} : h.top[s] >= b.top[s]
  /\ \A o \in DOMAIN h.objects :
       LET x == h.objects[o] IN ~x.short /\ (x.at.space \notin {sp, "tmp"} => x.at.i > b.top[x.at.space])
  /\ First(h, sp)

\* A step from h to g keeps to that.
Carries(h, g) ==
  /\ \A b, sp : Since(h, b, sp) => Since(g, b, sp)
  /\ \A s \in Spaces : First(h, s) => First(g, s)

\* The first word of a space is that of an object added there, if none was handed out yet.
LEMMA GrownFirst ==
  ASSUME NEW h \in Heaps, NEW g, NEW s \in Spaces, NEW n \in Nat, NEW x, Grown(h, g, s, n, x),
         NEW t \in Spaces, First(h, t)
  PROVE  First(g, t)
<1> SUFFICES ASSUME g.top[t] > 0 PROVE \E o \in DOMAIN g.objects : g.objects[o].at = At(t, 1)
  BY DEF First
<1>1. h.top[t] \in Nat /\ g.top[t] = IF t = s THEN h.top[t] + n ELSE h.top[t]
  <2>1. h.top \in [Spaces -> Nat] /\ g.top = [h.top EXCEPT ![s] = @ + n]
    BY DEF Heaps, Grown
  <2> QED BY <2>1
<1>2. x.at = At(s, h.top[s] + 1)
  BY DEF Grown, Top
<1> DEFINE N == Len(h.objects)
<1>3. N \in Nat /\ DOMAIN h.objects = 1..N /\ DOMAIN g.objects = 1..(N + 1)
      /\ g.objects[N + 1] = x /\ \A p \in 1..N : g.objects[p] = h.objects[p]
  <2>1. h.objects \in Seq(Entries) /\ x \in Entries /\ g.objects = Append(h.objects, x)
    BY DEF Heaps, Grown
  <2> QED BY <2>1
<1> HIDE DEF N
<1>4. CASE h.top[t] > 0
  <2>1. PICK o \in DOMAIN h.objects : h.objects[o].at = At(t, 1)
    BY <1>4 DEF First
  <2>2. o \in 1..N /\ o \in 1..(N + 1)
    BY <1>3, <2>1
  <2> QED BY <1>3, <2>1, <2>2
<1>5. CASE ~(h.top[t] > 0)
  <2>1. h.top[t] = 0 /\ s = t
    BY <1>1, <1>5
  <2>2. x.at = At(t, 1) /\ N + 1 \in 1..(N + 1)
    BY <1>2, <1>3, <2>1
  <2> QED BY <1>3, <2>2
<1> QED BY <1>4, <1>5

\* An object added does.
LEMMA GrownCarries ==
  ASSUME NEW h \in Heaps, NEW g, NEW s \in Spaces, NEW n \in Nat, NEW x, Grown(h, g, s, n, x), ~x.short
  PROVE  Carries(h, g)
<1> SUFFICES ASSUME NEW b, NEW sp, Since(h, b, sp) PROVE Since(g, b, sp)
  BY GrownFirst DEF Carries
<1>1. b \in Heaps /\ sp \in Spaces /\ g \in Heaps
  BY DEF Since, Grown
<1>2. \A t \in Spaces : h.top[t] \in Nat /\ b.top[t] \in Nat
  BY <1>1 DEF Heaps
<1>3. \A t \in Spaces : g.top[t] = IF t = s THEN h.top[t] + n ELSE h.top[t]
  <2>1. h.top \in [Spaces -> Nat] /\ g.top = [h.top EXCEPT ![s] = @ + n]
    BY DEF Heaps, Grown
  <2> QED BY <2>1
<1>4. x.at = At(s, h.top[s] + 1) /\ x.at.space = s /\ x.at.i = h.top[s] + 1
  BY DEF Grown, Top, At
<1>5. ASSUME NEW a \in Addresses, a.space = sp, a.i > g.top[sp] PROVE Read(g, a) = Untouched
  <2>1. a.i \in Int
    BY DEF Addresses
  <2>2. a.i > h.top[sp] /\ (a.space # s \/ a.i > h.top[s] + n)
    BY <1>1, <1>2, <1>3, <1>5, <2>1
  <2> QED BY <1>5, <2>2 DEF Since, Grown
<1>6. ASSUME NEW a \in Addresses, a.space \notin {sp, "tmp"}, a.i <= b.top[a.space] PROVE Read(g, a) = Read(b, a)
  <2>1. a.i \in Int /\ a.space \in Spaces
    BY DEF Addresses
  <2>2. h.top[a.space] >= b.top[a.space]
    BY <1>6, <2>1 DEF Since
  <2>3. a.i <= h.top[a.space]
    BY <1>2, <1>6, <2>1, <2>2
  <2> QED BY <1>6, <2>3 DEF Since, Grown
<1>7. ASSUME NEW t \in Spaces \ {sp, "tmp"} PROVE g.top[t] >= b.top[t]
  <2>1. h.top[t] >= b.top[t]
    BY DEF Since
  <2> QED BY <1>2, <1>3, <2>1
<1> DEFINE N == Len(h.objects)
<1>8. N \in Nat /\ DOMAIN h.objects = 1..N /\ DOMAIN g.objects = 1..(N + 1)
      /\ g.objects[N + 1] = x /\ \A p \in 1..N : g.objects[p] = h.objects[p]
  <2>1. h.objects \in Seq(Entries) /\ x \in Entries /\ g.objects = Append(h.objects, x)
    BY DEF Heaps, Grown
  <2> QED BY <2>1
<1> HIDE DEF N
<1>9. ASSUME NEW o \in DOMAIN g.objects
      PROVE  LET y == g.objects[o] IN ~y.short /\ (y.at.space \notin {sp, "tmp"} => y.at.i > b.top[y.at.space])
  <2>1. CASE o \in 1..N
    BY <1>8, <2>1 DEF Since
  <2>2. CASE o = N + 1
    <3>1. s \notin {sp, "tmp"} => h.top[s] + 1 > b.top[s]
      <4> SUFFICES ASSUME s \notin {sp, "tmp"} PROVE h.top[s] + 1 > b.top[s]
        OBVIOUS
      <4>1. h.top[s] >= b.top[s]
        BY DEF Since
      <4> QED BY <1>2, <4>1
    <3> QED BY <1>4, <1>8, <2>2, <3>1
  <2> QED BY <1>8, <2>1, <2>2
<1>10. First(g, sp)
  BY <1>1, GrownFirst DEF Since
<1> QED BY <1>1, <1>5, <1>6, <1>7, <1>9, <1>10 DEF Since

\* A write into an object does.
LEMMA StoredCarries ==
  ASSUME NEW h, HeapInv(h), NEW g, NEW o \in DOMAIN h.objects, NEW n \in 0..(Len(h.objects[o].words) - 1), NEW w,
         Stored(h, g, o, n, w)
  PROVE  Carries(h, g)
<1>0. ASSUME NEW s \in Spaces, First(h, s) PROVE First(g, s)
  BY <1>0 DEF First, Stored
<1> SUFFICES ASSUME NEW b, NEW sp, Since(h, b, sp) PROVE Since(g, b, sp)
  BY <1>0 DEF Carries
<1> DEFINE x == h.objects[o]
           l == Len(x.words)
<1>1. b \in Heaps /\ sp \in Spaces /\ h \in Heaps /\ g \in Heaps /\ g.top = h.top /\ DOMAIN g.objects = DOMAIN h.objects
  BY DEF Since, HeapInv, Stored
<1>2. \A t \in Spaces : h.top[t] \in Nat /\ b.top[t] \in Nat
  BY <1>1 DEF Heaps
<1>3. x.at.space \in Spaces /\ x.at.i \in Int /\ l \in Nat
  BY <1>1, EntryOf
<1>4. ~x.short /\ (x.at.space \notin {sp, "tmp"} => x.at.i > b.top[x.at.space])
  BY DEF Since
<1>5. x.at.i + l - 1 <= h.top[x.at.space]
  BY <1>4 DEF HeapInv, LayoutInv, Extent
<1>6. n \in 0..(l - 1)
  OBVIOUS
<1> HIDE DEF l
<1>7. ASSUME NEW a \in Addresses, a.space = sp, a.i > h.top[sp] PROVE Read(g, a) = Untouched
  <2>1. ~(a.space = x.at.space /\ a.i = x.at.i + n)
    BY <1>1, <1>2, <1>3, <1>5, <1>6, <1>7
  <2> QED BY <1>7, <2>1 DEF Since, Stored
<1>8. ASSUME NEW a \in Addresses, a.space \notin {sp, "tmp"}, a.i <= b.top[a.space] PROVE Read(g, a) = Read(b, a)
  <2>1. ~(a.space = x.at.space /\ a.i = x.at.i + n)
    BY <1>2, <1>3, <1>4, <1>6, <1>8
  <2> QED BY <1>8, <2>1 DEF Since, Stored
<1>9. \A p \in DOMAIN h.objects : g.objects[p].at = h.objects[p].at /\ g.objects[p].short = h.objects[p].short
  BY DEF Stored
<1>10. \A p \in DOMAIN g.objects :
         LET y == g.objects[p] IN ~y.short /\ (y.at.space \notin {sp, "tmp"} => y.at.i > b.top[y.at.space])
  BY <1>1, <1>9 DEF Since
<1>11. \A t \in Spaces \ {sp, "tmp"} : g.top[t] >= b.top[t]
  BY <1>1 DEF Since
<1>12. First(g, sp)
  BY <1>0, <1>1 DEF Since
<1> QED BY <1>1, <1>7, <1>8, <1>10, <1>11, <1>12 DEF Since

\* Steps after each other do.
LEMMA CarriesOn ==
  ASSUME NEW h, NEW g, NEW k, Carries(h, g), Carries(g, k)
  PROVE  Carries(h, k)
BY DEF Carries

(***************************************************************************)
(* What constructors add.                                                  *)
(***************************************************************************)

\* An object owns at least its header and one word, and the word its count is in.
LEMMA OwnedIs ==
  ASSUME NEW tag \in Kinds, NEW repr \in Reprs, NEW count \in Nat
  PROVE  /\ Owned(tag, repr, count) \in Nat /\ Owned(tag, repr, count) >= 2
         /\ Counted(tag) => Owned(tag, repr, count) >= CountAt(tag) + 1
         /\ CountAt(tag) \in 1..2
BY DEF Kinds, Reprs, Owned, Counted, CountAt

\* Words filled up to a length with untouched ones.
LEMMA PaddedIs ==
  ASSUME NEW ws \in Seq(Words), NEW n \in Nat
  PROVE  /\ Padded(ws, n) \in Seq(Words) /\ Len(Padded(ws, n)) = n /\ DOMAIN Padded(ws, n) = 1..n
         /\ \A i \in 1..n : Padded(ws, n)[i] = IF i \in 1..Len(ws) THEN ws[i] ELSE Untouched
<1>1. \A i \in 1..n : (IF i \in DOMAIN ws THEN ws[i] ELSE Untouched) \in Words
  BY DEF Words
<1>2. Padded(ws, n) \in [1..n -> Words]
  BY <1>1 DEF Padded
<1>3. Padded(ws, n) \in Seq(Words)
  BY <1>2
<1> QED BY <1>2, <1>3 DEF Padded

\* The words a constructor writes, and the object in the history.
Headed(s, tag, repr, ws) == <<Header(tag, repr, IF s = "old" THEN MinOldGen ELSE 0)>> \o ws

\* What is remembered of the new object.
Entered(h, s, tag, repr, ws, count, text) ==
  [at |-> Top(h, s), words |-> Padded(Headed(s, tag, repr, ws), Owned(tag, repr, count)), text |-> text, short |-> FALSE]

\* What a constructor is called with, and what it makes of the heap.
Fits(h, s, tag, repr, ws, n, count, text) ==
  /\ h \in Heaps /\ s \in Spaces /\ tag \in Kinds /\ repr \in Reprs /\ ws \in Seq(Words)
  /\ n \in Nat /\ count \in Nat /\ text \in Seq(Letters)
  /\ 1 + Len(ws) <= n /\ Owned(tag, repr, count) <= n
  /\ Counted(tag) => CountAt(tag) <= Len(ws) /\ ws[CountAt(tag)] = Num(count)
  /\ ~Counted(tag) => count = 0

\* The heap grows by the object, which has its shape and reads as it was written.
Makes(h, s, tag, repr, ws, n, count, text) ==
  LET all == Headed(s, tag, repr, ws)
      g == New(h, s, tag, repr, ws, n, text)
      x == Entered(h, s, tag, repr, ws, count, text) IN
  /\ Grown(h, g, s, n, x) /\ Shaped(x.words) /\ ReadsOwn(g, x)
  /\ all \in Seq(Words) /\ Len(all) = 1 + Len(ws) /\ all[1].tag = tag /\ all[1].repr = repr
  /\ \A i \in 1..Len(ws) : all[i + 1] = ws[i]
  /\ \A i \in 1..Owned(tag, repr, count) : x.words[i] = IF i \in 1..Len(all) THEN all[i] ELSE Untouched
  /\ Len(x.words) = Owned(tag, repr, count)
  /\ \A b \in Addresses :
       Read(g, b) = IF b.space = s /\ b.i \in (h.top[s] + 1)..(h.top[s] + Len(all)) THEN all[b.i - h.top[s]]
                    ELSE Read(h, b)

\* allocate_tagged and the stores of a constructor add an object that reads as it was written.
LEMMA NewMakes ==
  ASSUME NEW h, NEW s, NEW tag, NEW repr, NEW ws, NEW n, NEW count, NEW text,
         Fits(h, s, tag, repr, ws, n, count, text)
  PROVE  Makes(h, s, tag, repr, ws, n, count, text)
<1> DEFINE all == Headed(s, tag, repr, ws)
           g == New(h, s, tag, repr, ws, n, text)
           x == Entered(h, s, tag, repr, ws, count, text)
<1>0. /\ all = <<Header(tag, repr, IF s = "old" THEN MinOldGen ELSE 0)>> \o ws
      /\ g = New(h, s, tag, repr, ws, n, text)
      /\ x = [at |-> Top(h, s), words |-> Padded(all, Owned(tag, repr, count)), text |-> text, short |-> FALSE]
  BY DEF Headed, Entered
<1> HIDE DEF all, g, x
<1>a. /\ h \in Heaps /\ s \in Spaces /\ tag \in Kinds /\ repr \in Reprs /\ ws \in Seq(Words)
      /\ n \in Nat /\ count \in Nat /\ text \in Seq(Letters) /\ MinOldGen \in Nat
      /\ 1 + Len(ws) <= n /\ Owned(tag, repr, count) <= n
      /\ Counted(tag) => CountAt(tag) <= Len(ws) /\ ws[CountAt(tag)] = Num(count)
      /\ ~Counted(tag) => count = 0
  BY BoundsAssumption DEF Fits
<1> USE <1>0, <1>a
<1> DEFINE a == Top(h, s)
           head == Header(tag, repr, IF s = "old" THEN MinOldGen ELSE 0)
           given == Allocate(h, s, n)
           after == WriteAll(given, a, all)
           own == Owned(tag, repr, count)
<1>1. a \in Addresses /\ a.space = s /\ a.i = h.top[s] + 1 /\ h.top[s] \in Nat
  BY TopIs
<1>2. head \in Headers /\ head \in Words /\ head.tag = tag /\ head.repr = repr
  BY DEF Headers, Words, Header
<1>3. /\ all \in Seq(Words) /\ Len(all) = 1 + Len(ws) /\ all[1] = head
      /\ \A i \in 1..Len(ws) : all[i + 1] = ws[i]
  <2> HIDE DEF head
  <2>1. <<head>> \in Seq(Words) /\ Len(<<head>>) = 1 /\ <<head>>[1] = head
    BY <1>2
  <2>2. all = <<head>> \o ws
    BY DEF head
  <2> QED BY <2>1, <2>2
<1>4. /\ given \in Heaps /\ given.objects = h.objects /\ given.top = [h.top EXCEPT ![s] = @ + n]
      /\ \A b : Read(given, b) = Read(h, b)
  BY AllocateIs
<1> HIDE DEF a, given, head
<1>5. /\ after \in Heaps /\ after.objects = h.objects /\ after.top = given.top
      /\ \A b \in Addresses :
           Read(after, b) = IF b.space = s /\ b.i \in a.i..(a.i + Len(all) - 1) THEN all[b.i - a.i + 1] ELSE Read(h, b)
  <2>1. after = WriteAll(given, a, all) /\ given \in Heaps /\ a \in Addresses /\ all \in Seq(Words)
    BY <1>1, <1>3, <1>4
  <2>2. /\ after \in Heaps /\ after.objects = given.objects /\ after.top = given.top
        /\ \A b \in Addresses :
             Read(after, b) = IF b.space = a.space /\ b.i \in a.i..(a.i + Len(all) - 1) THEN all[b.i - a.i + 1]
                              ELSE Read(given, b)
    BY <2>1, ReadWriteAll, ZenonT(30)
  <2> QED BY <1>1, <1>4, <2>2
<1>6. \A b \in Addresses :
         Read(after, b) = IF b.space = s /\ b.i \in (h.top[s] + 1)..(h.top[s] + Len(all)) THEN all[b.i - h.top[s]]
                          ELSE Read(h, b)
  <2> SUFFICES ASSUME NEW b \in Addresses
               PROVE  Read(after, b) = IF b.space = s /\ b.i \in (h.top[s] + 1)..(h.top[s] + Len(all))
                                       THEN all[b.i - h.top[s]] ELSE Read(h, b)
    OBVIOUS
  <2> DEFINE t == h.top[s]
             i == b.i
             l == Len(all)
  <2>1. t \in Nat /\ i \in Int /\ l \in Nat /\ a.i = t + 1
    BY <1>1, <1>3 DEF Addresses
  <2> HIDE DEF t, i, l
  <2>2. a.i..(a.i + l - 1) = (t + 1)..(t + l) /\ i - a.i + 1 = i - t
    BY <2>1
  <2> QED BY <1>5, <2>2 DEF t, i, l
<1> HIDE DEF after
<1>7. /\ own \in Nat /\ own >= 2 /\ (Counted(tag) => own >= CountAt(tag) + 1) /\ CountAt(tag) \in 1..2
  BY OwnedIs
<1>8. Offset(a, CountAt(tag)) \in Addresses /\ Offset(a, CountAt(tag)).space = s
      /\ Offset(a, CountAt(tag)).i = h.top[s] + 1 + CountAt(tag)
  <2> DEFINE n1 == CountAt(tag)
  <2>1. n1 \in Int
    BY <1>7
  <2> HIDE DEF n1
  <2>2. Offset(a, n1) \in Addresses /\ Offset(a, n1).space = s /\ Offset(a, n1).i = h.top[s] + 1 + n1
    BY <1>1, <2>1, OffsetIs
  <2> QED BY <2>2 DEF n1
<1>9. Read(after, a) = head
  <2>1. a.i \in (h.top[s] + 1)..(h.top[s] + Len(all)) /\ a.i - h.top[s] = 1
    BY <1>1, <1>3, SMTT(30)
  <2> QED BY <1>1, <1>3, <1>6, <2>1
<1>10. Counted(tag) => Read(after, Offset(a, CountAt(tag))) = Num(count)
  <2> SUFFICES ASSUME Counted(tag) PROVE Read(after, Offset(a, CountAt(tag))) = Num(count)
    OBVIOUS
  <2> DEFINE b == Offset(a, CountAt(tag))
  <2> DEFINE c == CountAt(tag)
             t == h.top[s]
             i == b.i
             l == Len(ws)
  <2>5. c \in 1..2 /\ c <= l /\ l \in Nat /\ t \in Nat /\ i = t + 1 + c /\ Len(all) = 1 + l
    BY <1>1, <1>3, <1>7, <1>8
  <2> HIDE DEF c, t, i, l
  <2>6. i \in (t + 1)..(t + (1 + l)) /\ i - t = c + 1 /\ c \in 1..l
    BY <2>5
  <2>1. b.i \in (h.top[s] + 1)..(h.top[s] + Len(all)) /\ b.i - h.top[s] = CountAt(tag) + 1
    BY <2>5, <2>6 DEF c, t, i, l
  <2>2. all[CountAt(tag) + 1] = ws[CountAt(tag)]
    BY <1>3, <2>6 DEF c, l
  <2>3. Read(after, b) = all[CountAt(tag) + 1]
    BY <1>6, <1>8, <2>1
  <2> QED BY <2>2, <2>3
<1>11. OwnedAt(after, a) = own
  BY <1>2, <1>9, <1>10 DEF OwnedAt, Tag, Repr, Count, Num
<1>12. g = [after EXCEPT !.objects = Append(after.objects, x)]
  BY <1>11 DEF New, after, a, given, head
<1>13. x \in Entries /\ x.words = Padded(all, own) /\ x.at = a
  BY <1>1, <1>3, <1>7, PaddedIs DEF Entries, a
<1>14. Append(h.objects, x) \in Seq(Entries)
  BY <1>13 DEF Heaps
<1>15. g \in Heaps /\ g.top = after.top /\ g.objects = Append(h.objects, x) /\ g.mem = after.mem
  <2>1. after \in [mem : [Spaces -> Memories], top : [Spaces -> Nat], objects : Seq(Entries)]
    BY <1>5 DEF Heaps
  <2>2. g = [after EXCEPT !.objects = Append(h.objects, x)]
    BY <1>5, <1>12
  <2>3. g \in Heaps
    BY <1>14, <2>1, <2>2 DEF Heaps
  <2> QED BY <2>1, <2>2, <2>3
<1>16. \A b : Read(g, b) = Read(after, b)
  BY <1>15 DEF Read
<1>17. Grown(h, g, s, n, x)
  <2>1. ASSUME NEW b \in Addresses, b.space # s \/ b.i <= h.top[s] \/ b.i > h.top[s] + n
        PROVE  Read(g, b) = Read(h, b)
    <3>1. b.i \in Int
      BY DEF Addresses
    <3>2. ~(b.space = s /\ b.i \in (h.top[s] + 1)..(h.top[s] + Len(all)))
      BY <1>1, <1>3, <2>1, <3>1, SMTT(30)
    <3> QED BY <1>6, <1>16, <3>2
  <2> QED BY <1>4, <1>5, <1>13, <1>15, <2>1 DEF Grown, a
<1>18. /\ \A i \in 1..own : x.words[i] = IF i \in 1..Len(all) THEN all[i] ELSE Untouched
       /\ Len(x.words) = own /\ DOMAIN x.words = 1..own
  <2>1. own \in Nat /\ x.words = Padded(all, own)
    BY <1>7, <1>13
  <2> HIDE DEF own
  <2>2. DOMAIN Padded(all, own) = 1..own /\ Len(Padded(all, own)) = own
        /\ \A i \in 1..own : Padded(all, own)[i] = IF i \in 1..Len(all) THEN all[i] ELSE Untouched
    BY <1>3, <2>1, PaddedIs
  <2> QED BY <2>1, <2>2
<1>19. Len(x.words) = own /\ DOMAIN x.words = 1..own
  BY <1>18
<1>20. x.words[1] = head
  BY <1>3, <1>7, <1>18
<1>21. Counted(tag) => x.words[CountAt(tag) + 1] = Num(count)
  <2> DEFINE c == CountAt(tag)
             l == Len(ws)
  <2> SUFFICES ASSUME Counted(tag) PROVE x.words[c + 1] = Num(count)
    OBVIOUS
  <2>1. c \in 1..2 /\ c <= l /\ l \in Nat /\ own \in Nat /\ own >= c + 1 /\ ws[c] = Num(count)
    BY <1>7
  <2>2. c + 1 \in 1..own /\ c + 1 \in 1..(1 + l) /\ c \in 1..l
    <3> HIDE DEF c, l, own
    <3> QED BY <2>1
  <2>3. all[c + 1] = ws[c]
    BY <1>3, <2>2
  <2> QED BY <1>3, <1>18, <2>1, <2>2, <2>3
<1>22. CountOf(x.words) = count
  BY <1>2, <1>20, <1>21 DEF CountOf, Num
<1>23. Shaped(x.words)
  <2>1. Num(count) \in [k : {"number"}, n : Nat]
    BY DEF Num
  <2> HIDE DEF own
  <2>2. Counted(tag) => CountAt(tag) < Len(x.words)
    BY <1>7, <1>19
  <2>3. Len(x.words) >= 1
    BY <1>7, <1>19
  <2> QED BY <1>2, <1>19, <1>20, <1>21, <1>22, <2>1, <2>2, <2>3 DEF Shaped, own
<1>24. ReadsOwn(g, x)
  <2> SUFFICES ASSUME NEW i \in 1..own PROVE x.words[i] \in {Untouched, Read(g, Offset(a, i - 1))}
    BY <1>13, <1>19 DEF ReadsOwn
  <2>1. CASE i \in 1..Len(all)
    <3> DEFINE b == Offset(a, i - 1)
    <3>0. i - 1 \in Int /\ h.top[s] + 1 + (i - 1) = h.top[s] + i
      BY <1>1, <2>1
    <3>1. b \in Addresses /\ b.space = s /\ b.i = h.top[s] + i
      BY <1>1, <3>0, OffsetIs
    <3>2. b.i \in (h.top[s] + 1)..(h.top[s] + Len(all)) /\ b.i - h.top[s] = i
      <4> DEFINE t == h.top[s]
                 l == Len(all)
      <4>1. t \in Nat /\ l \in Nat /\ i \in 1..l /\ b.i = t + i
        BY <1>1, <1>3, <2>1, <3>1
      <4> HIDE DEF t, l, b
      <4>2. b.i \in (t + 1)..(t + l) /\ b.i - t = i
        BY <4>1
      <4> QED BY <4>2 DEF t, l
    <3> QED BY <1>6, <1>16, <1>18, <2>1, <3>1, <3>2
  <2>2. CASE i \notin 1..Len(all)
    BY <1>18, <2>2
  <2> QED BY <2>1, <2>2
<1> QED BY <1>2, <1>3, <1>6, <1>16, <1>17, <1>18, <1>23, <1>24 DEF Makes, all, g, x

(***************************************************************************)
(* What strings are made of.                                               *)
(***************************************************************************)

\* Strings, and those that hold characters.
IsText(x) == x.words[1].tag = "String"
Whole(x) == x.words[1].repr = "Normal"

\* What a string is made of: characters, another string, or two older ones.
OfOne(h, x, m) ==
  /\ IsText(h.objects[m]) /\ Whole(h.objects[m])
  /\ x.words[4] = Ref(h.objects[m].at) /\ x.text = h.objects[m].text

\* A string of two: its text is theirs.
OfTwo(h, x, l, r) ==
  /\ IsText(h.objects[l]) /\ IsText(h.objects[r])
  /\ x.words[4] = Ref(h.objects[l].at) /\ x.words[5] = Ref(h.objects[r].at)
  /\ x.text = h.objects[l].text \o h.objects[r].text

\* What a string is made of is older, but for one that holds characters, which a flattened string was given.
Made(h, o) ==
  LET x == h.objects[o] IN
  /\ x.words[3] = Num(Len(x.text))
  /\ \/ Whole(x)
     \/ ~Whole(x) /\ x.words[5] = Nil /\ \E m \in DOMAIN h.objects : OfOne(h, x, m)
     \/ ~Whole(x) /\ x.words[5] # Nil
          /\ \E l, r \in DOMAIN h.objects : l < o /\ r < o /\ OfTwo(h, x, l, r)

\* All strings are made so.
StructInv(h) == \A o \in DOMAIN h.objects : IsText(h.objects[o]) => Made(h, o)

\* A string that holds characters holds those of its text.
Spelt(x) == \A i \in 1..Len(x.text) : x.words[3 + i] = Char(x.text[i])

\* All of them do.
SpeltInv(h) == \A o \in DOMAIN h.objects : IsText(h.objects[o]) /\ Whole(h.objects[o]) => Spelt(h.objects[o])

\* The invariant of the heap: the text of strings comes out unless a misplaced half was ever written.
GoodHeap(h, right) == HeapInv(h) /\ FreshInv(h) /\ StructInv(h) /\ (right => SpeltInv(h))

\* Two states of an object with the same text, made of the same.
Alike(x, y) ==
  /\ y.at = x.at /\ y.text = x.text /\ (IsText(y) <=> IsText(x))
  /\ IsText(x) => (Whole(y) <=> Whole(x)) /\ y.words[3] = x.words[3]
  /\ IsText(x) /\ ~Whole(x) => y.words[4] = x.words[4] /\ y.words[5] = x.words[5]

\* A string stays made of what it was made of while all strings keep their texts, addresses and halves.
LEMMA MadeKept ==
  ASSUME NEW h, NEW g, StructInv(h), DOMAIN h.objects \subseteq DOMAIN g.objects,
         \A p \in DOMAIN h.objects : Alike(h.objects[p], g.objects[p]),
         NEW o \in DOMAIN h.objects, IsText(g.objects[o])
  PROVE  Made(g, o)
<1> DEFINE x == h.objects[o]
           y == g.objects[o]
<1>1. Alike(x, y) /\ IsText(x) /\ Made(h, o)
  BY DEF Alike, StructInv
<1>2. y.words[3] = Num(Len(y.text))
  BY <1>1 DEF Alike, Made
<1>3. CASE Whole(x)
  BY <1>1, <1>2, <1>3 DEF Alike, Made
<1>4. CASE ~Whole(x) /\ x.words[5] = Nil
  <2>1. PICK m \in DOMAIN h.objects : OfOne(h, x, m)
    BY <1>1, <1>4 DEF Made
  <2>2. OfOne(g, y, m)
    <3>1. Alike(h.objects[m], g.objects[m])
      OBVIOUS
    <3> QED BY <1>1, <1>4, <2>1, <3>1 DEF OfOne, Alike
  <2>3. y.words[5] = Nil /\ ~Whole(y)
    BY <1>1, <1>4 DEF Alike
  <2> QED BY <1>2, <2>2, <2>3 DEF Made
<1>5. CASE ~Whole(x) /\ x.words[5] # Nil
  <2>1. PICK l, r \in DOMAIN h.objects : l < o /\ r < o /\ OfTwo(h, x, l, r)
    BY <1>1, <1>5 DEF Made
  <2>2. OfTwo(g, y, l, r)
    <3>1. Alike(h.objects[l], g.objects[l]) /\ Alike(h.objects[r], g.objects[r])
      OBVIOUS
    <3> QED BY <1>1, <1>5, <2>1, <3>1 DEF OfTwo, Alike
  <2>3. y.words[5] # Nil /\ ~Whole(y)
    BY <1>1, <1>5 DEF Alike
  <2> QED BY <1>2, <2>1, <2>2, <2>3 DEF Made
<1> QED BY <1>3, <1>4, <1>5

\* A heap that grows by an object that fits stays a good one.
LEMMA GrownIsGood ==
  ASSUME NEW h, NEW right \in BOOLEAN, GoodHeap(h, right), NEW g, NEW s \in Spaces, NEW n \in Nat, NEW x,
         Grown(h, g, s, n, x), Shaped(x.words), x.short => ShortContext(x), n >= Extent(x),
         ReadsOwn(g, x) \/ ShortContext(x),
         IsText(x) => Made(g, Len(h.objects) + 1),
         right /\ IsText(x) /\ Whole(x) => Spelt(x)
  PROVE  GoodHeap(g, right)
<1>1. HeapInv(g) /\ FreshInv(g)
  BY GrownKeeps DEF GoodHeap
<1> DEFINE N == Len(h.objects)
<1>2. N \in Nat /\ DOMAIN h.objects = 1..N /\ DOMAIN g.objects = 1..(N + 1)
      /\ g.objects[N + 1] = x /\ \A p \in 1..N : g.objects[p] = h.objects[p]
  <2>1. h.objects \in Seq(Entries) /\ x \in Entries
    BY DEF GoodHeap, HeapInv, Heaps, Grown
  <2>2. g.objects = Append(h.objects, x)
    BY DEF Grown
  <2> QED BY <2>1, <2>2
<1> HIDE DEF N
<1>3. \A p \in DOMAIN h.objects : Alike(h.objects[p], g.objects[p])
  BY <1>2 DEF Alike
<1>4. StructInv(g)
  <2> SUFFICES ASSUME NEW o \in DOMAIN g.objects, IsText(g.objects[o]) PROVE Made(g, o)
    BY DEF StructInv
  <2>1. CASE o \in 1..N
    <3>1. StructInv(h) /\ DOMAIN h.objects \subseteq DOMAIN g.objects /\ o \in DOMAIN h.objects
      BY <1>2, <2>1 DEF GoodHeap
    <3> QED BY <1>3, <3>1, MadeKept
  <2>2. CASE o = N + 1
    BY <1>2, <2>2 DEF N
  <2> QED BY <1>2, <2>1, <2>2
<1>5. right => SpeltInv(g)
  <2> SUFFICES ASSUME right, NEW o \in DOMAIN g.objects, IsText(g.objects[o]), Whole(g.objects[o])
               PROVE  Spelt(g.objects[o])
    BY DEF SpeltInv
  <2>1. CASE o \in 1..N
    BY <1>2, <2>1 DEF GoodHeap, SpeltInv
  <2>2. CASE o = N + 1
    BY <1>2, <2>2
  <2> QED BY <1>2, <2>1, <2>2
<1> QED BY <1>1, <1>4, <1>5 DEF GoodHeap

\* A new object that is no string.
LEMMA NewIsGood ==
  ASSUME NEW h, NEW right \in BOOLEAN, GoodHeap(h, right), NEW s, NEW tag, NEW ws, NEW n, NEW count,
         tag # "String", Fits(h, s, tag, "Normal", ws, n, count, <<>>)
  PROVE  LET g == New(h, s, tag, "Normal", ws, n, <<>>) IN GoodHeap(g, right) /\ Carries(h, g)
<1> DEFINE g == New(h, s, tag, "Normal", ws, n, <<>>)
           all == Headed(s, tag, "Normal", ws)
           own == Owned(tag, "Normal", count)
           x == Entered(h, s, tag, "Normal", ws, count, <<>>)
<1>1. s \in Spaces /\ tag \in Kinds /\ "Normal" \in Reprs /\ n \in Nat /\ count \in Nat /\ own <= n /\ ws \in Seq(Words)
  BY DEF Fits
<1>2. own \in Nat /\ own <= n /\ own >= 2
  BY <1>1, OwnedIs
<1>3. Makes(h, s, tag, "Normal", ws, n, count, <<>>)
  BY NewMakes
<1>4. /\ Grown(h, g, s, n, x) /\ Shaped(x.words) /\ ReadsOwn(g, x) /\ all[1].tag = tag /\ Len(all) = 1 + Len(ws)
      /\ \A i \in 1..own : x.words[i] = IF i \in 1..Len(all) THEN all[i] ELSE Untouched
      /\ Len(x.words) = own
  BY <1>3 DEF Makes
<1>5. ~x.short
  BY DEF Entered
<1> HIDE DEF g, all, own, x
<1>6. x.words[1] = all[1]
  BY <1>2, <1>4
<1>7. ~IsText(x) /\ n >= Extent(x)
  BY <1>1, <1>2, <1>4, <1>5, <1>6 DEF IsText, Extent
<1>8. GoodHeap(g, right)
  BY <1>1, <1>4, <1>5, <1>7, GrownIsGood
<1>9. Carries(h, g)
  BY <1>1, <1>4, <1>5, GrownCarries DEF GoodHeap, HeapInv
<1> QED BY <1>8, <1>9 DEF g

(***************************************************************************)
(* What the accessors read, and new strings.                               *)
(***************************************************************************)

\* What is read of an object that reads as written.
LEMMA ReadWord ==
  ASSUME NEW h, HeapInv(h), NEW o \in DOMAIN h.objects, ReadsOwn(h, h.objects[o]),
         NEW i \in DOMAIN h.objects[o].words, h.objects[o].words[i] # Untouched
  PROVE  Read(h, Offset(h.objects[o].at, i - 1)) = h.objects[o].words[i]
BY DEF ReadsOwn

\* An address no words further on.
LEMMA OffsetZero ==
  ASSUME NEW a \in Addresses
  PROVE  Offset(a, 0) = a
<1>1. a.i + 0 = a.i
  BY DEF Addresses
<1>2. Offset(a, 0) = [a EXCEPT !.i = a.i]
  BY <1>1 DEF Offset, Addresses
<1> QED BY <1>2 DEF Addresses

\* Words of different kinds differ.
LEMMA WordsDiffer ==
  /\ \A w \in Headers : w # Untouched /\ w # Nil
  /\ \A w \in [k : {"number"}, n : Nat] : w # Untouched /\ w.n \in Nat
  /\ \A n : Num(n) # Untouched /\ Num(n).n = n
  /\ \A c : Char(c) # Untouched
  /\ \A at : Ref(at) # Untouched /\ Ref(at) # Nil /\ Ref(at).at = at
  /\ Nil # Untouched
<1>1. ASSUME NEW w \in Headers PROVE w # Untouched /\ w # Nil
  <2>1. w.k = "header" /\ Untouched.k = "untouched" /\ Nil.k = "nil"
    BY DEF Headers, Untouched, Nil
  <2> QED BY <2>1
<1>2. ASSUME NEW w \in [k : {"number"}, n : Nat] PROVE w # Untouched /\ w.n \in Nat
  <2>1. w.k = "number" /\ Untouched.k = "untouched" /\ w.n \in Nat
    BY DEF Untouched
  <2> QED BY <2>1
<1>3. ASSUME NEW n PROVE Num(n) # Untouched /\ Num(n).n = n
  <2>1. Num(n).k = "number" /\ Untouched.k = "untouched" /\ Num(n).n = n
    BY DEF Num, Untouched
  <2> QED BY <2>1
<1>4. ASSUME NEW c PROVE Char(c) # Untouched
  <2>1. Char(c).k = "char" /\ Untouched.k = "untouched"
    BY DEF Char, Untouched
  <2> QED BY <2>1
<1>5. ASSUME NEW at PROVE Ref(at) # Untouched /\ Ref(at) # Nil /\ Ref(at).at = at
  <2>1. Ref(at).k = "reference" /\ Untouched.k = "untouched" /\ Nil.k = "nil" /\ Ref(at).at = at
    BY DEF Ref, Untouched, Nil
  <2> QED BY <2>1
<1>6. Nil # Untouched
  <2>1. Nil.k = "nil" /\ Untouched.k = "untouched"
    BY DEF Nil, Untouched
  <2> QED BY <2>1
<1> QED BY <1>1, <1>2, <1>3, <1>4, <1>5, <1>6

\* What the accessors read where the words of an object are.
LEMMA ReadEntry ==
  ASSUME NEW h, NEW a \in Addresses, NEW words \in Seq(Words), Shaped(words),
         \A i \in DOMAIN words : words[i] \in {Untouched, Read(h, Offset(a, i - 1))}
  PROVE  /\ Tag(h, a) = words[1].tag /\ Repr(h, a) = words[1].repr /\ Gen(h, a) = words[1].gen
         /\ words[1] \in Headers
         /\ Counted(words[1].tag) => Count(h, a) = CountOf(words)
         /\ OwnedAt(h, a) = Len(words) /\ CountOf(words) \in Nat
         /\ Len(words) = Owned(words[1].tag, words[1].repr, CountOf(words))
<1> DEFINE tag == words[1].tag
           c == CountAt(tag)
<1>1. Len(words) \in Nat /\ DOMAIN words = 1..Len(words)
  OBVIOUS
<1>2. /\ Len(words) >= 1 /\ words[1] \in Headers /\ Len(words) = Owned(tag, words[1].repr, CountOf(words))
      /\ Counted(tag) => c < Len(words) /\ words[c + 1] \in [k : {"number"}, n : Nat]
  BY DEF Shaped
<1>3. c \in 1..2
  BY <1>2 DEF CountAt, Headers, Kinds
<1>4. Read(h, a) = words[1]
  <2>1. 1 \in DOMAIN words /\ words[1] # Untouched
    BY <1>1, <1>2, WordsDiffer
  <2>2. words[1] = Read(h, Offset(a, 1 - 1)) /\ 1 - 1 = 0
    BY <2>1
  <2> QED BY <2>2, OffsetZero
<1>5. Tag(h, a) = tag /\ Repr(h, a) = words[1].repr /\ Gen(h, a) = words[1].gen
  BY <1>4 DEF Tag, Repr, Gen
<1>6. Counted(tag) => Count(h, a) = CountOf(words)
  <2> SUFFICES ASSUME Counted(tag) PROVE Count(h, a) = CountOf(words)
    OBVIOUS
  <2> HIDE DEF c
  <2>1. c + 1 \in DOMAIN words /\ (c + 1) - 1 = c
    BY <1>1, <1>2, <1>3
  <2>2. words[c + 1] # Untouched
    BY <1>2, WordsDiffer
  <2>3. words[c + 1] = Read(h, Offset(a, (c + 1) - 1))
    BY <2>1, <2>2
  <2>4. words[c + 1] = Read(h, Offset(a, c))
    BY <2>1, <2>3
  <2> QED BY <1>5, <2>4 DEF Count, CountOf, c
<1>7. CountOf(words) \in Nat
  <2>1. Counted(tag) => words[c + 1].n \in Nat
    BY <1>2, WordsDiffer
  <2> QED BY <2>1 DEF CountOf
<1>8. OwnedAt(h, a) = Len(words)
  <2>1. CountOf(words) = IF Counted(Tag(h, a)) THEN Count(h, a) ELSE 0
    BY <1>5, <1>6 DEF CountOf
  <2> HIDE DEF tag, c
  <2> QED BY <1>2, <1>5, <2>1 DEF OwnedAt
<1> QED BY <1>2, <1>5, <1>6, <1>7, <1>8

\* The header and the count of an object that reads as it was written.
LEMMA ReadHeader ==
  ASSUME NEW h, HeapInv(h), NEW o \in DOMAIN h.objects, ReadsOwn(h, h.objects[o])
  PROVE  LET a == h.objects[o].at
             words == h.objects[o].words IN
         /\ Tag(h, a) = words[1].tag /\ Repr(h, a) = words[1].repr /\ Gen(h, a) = words[1].gen
         /\ words[1] \in Headers
         /\ Counted(words[1].tag) => Count(h, a) = CountOf(words)
         /\ OwnedAt(h, a) = Len(words) /\ CountOf(words) \in Nat
         /\ Len(words) = Owned(words[1].tag, words[1].repr, CountOf(words))
<1> DEFINE a == h.objects[o].at
           words == h.objects[o].words
<1>1. a \in Addresses /\ words \in Seq(Words) /\ Shaped(words)
  BY EntryOf DEF HeapInv, ShapeInv
<1>2. \A i \in DOMAIN words : words[i] \in {Untouched, Read(h, Offset(a, i - 1))}
  BY DEF ReadsOwn
<1> HIDE DEF a, words
<1>3. /\ Tag(h, a) = words[1].tag /\ Repr(h, a) = words[1].repr /\ Gen(h, a) = words[1].gen
      /\ words[1] \in Headers
      /\ Counted(words[1].tag) => Count(h, a) = CountOf(words)
      /\ OwnedAt(h, a) = Len(words) /\ CountOf(words) \in Nat
      /\ Len(words) = Owned(words[1].tag, words[1].repr, CountOf(words))
  BY <1>1, <1>2, ReadEntry
<1> QED BY <1>3 DEF a, words

\* The words of a string.
LEMMA TextWords ==
  ASSUME NEW h, HeapInv(h), NEW o \in DOMAIN h.objects, IsText(h.objects[o]), Made(h, o)
  PROVE  LET x == h.objects[o] IN
         /\ x.text \in Seq(Letters) /\ Len(x.text) \in Nat /\ x.at \in Addresses
         /\ CountOf(x.words) = Len(x.text) /\ Counted("String") /\ CountAt("String") = 2
         /\ (Whole(x) \/ x.words[1].repr = "Cons")
         /\ DOMAIN x.words = 1..(IF Whole(x) THEN 3 + Len(x.text) ELSE 5)
<1> DEFINE x == h.objects[o]
<1>1. x.text \in Seq(Letters) /\ x.at \in Addresses /\ x.words \in Seq(Words) /\ Shaped(x.words)
  BY EntryOf DEF HeapInv, ShapeInv
<1>2. Len(x.text) \in Nat
  BY <1>1
<1>3. Counted("String") /\ CountAt("String") = 2
  BY DEF Counted, CountAt
<1>4. CountOf(x.words) = Len(x.text)
  BY <1>3 DEF CountOf, IsText, Made, Num
<1>5. Len(x.words) = IF Whole(x) THEN 3 + Len(x.text) ELSE 5
  BY <1>1, <1>4 DEF Shaped, IsText, Whole, Owned
<1>6. Whole(x) \/ x.words[1].repr = "Cons"
  BY <1>1 DEF Shaped, Headers, Reprs, Whole
<1> QED BY <1>1, <1>2, <1>3, <1>4, <1>5, <1>6

\* What the accessors read of a string: its representation, its length and its halves.
LEMMA ReadText ==
  ASSUME NEW h, HeapInv(h), NEW o \in DOMAIN h.objects, IsText(h.objects[o]), Made(h, o), ReadsOwn(h, h.objects[o])
  PROVE  LET x == h.objects[o] IN
         /\ Repr(h, x.at) = x.words[1].repr /\ Count(h, x.at) = Len(x.text)
         /\ ~Whole(x) => /\ (RightIsNil(h, x.at) <=> x.words[5] = Nil) /\ Left(h, x.at) = x.words[4].at
                         /\ x.words[5] # Nil => Right(h, x.at) = x.words[5].at
<1> DEFINE x == h.objects[o]
<1>1. Repr(h, x.at) = x.words[1].repr /\ Count(h, x.at) = Len(x.text)
  BY ReadHeader, TextWords DEF IsText
<1>2. ASSUME ~Whole(x)
      PROVE  /\ (RightIsNil(h, x.at) <=> x.words[5] = Nil) /\ Left(h, x.at) = x.words[4].at
             /\ x.words[5] # Nil => Right(h, x.at) = x.words[5].at
  <2>1. 4 \in DOMAIN x.words /\ 5 \in DOMAIN x.words
    BY <1>2, TextWords
  <2>2. x.words[4] # Untouched /\ x.words[5] # Untouched
    <3>1. CASE x.words[5] = Nil
      <4>1. PICK m \in DOMAIN h.objects : OfOne(h, x, m)
        BY <1>2, <3>1 DEF Made
      <4>2. x.words[4] = Ref(h.objects[m].at)
        BY <4>1 DEF OfOne
      <4> QED BY <3>1, <4>2, WordsDiffer
    <3>2. CASE x.words[5] # Nil
      <4>1. PICK l, r \in DOMAIN h.objects : OfTwo(h, x, l, r)
        BY <1>2, <3>2 DEF Made
      <4>2. x.words[4] = Ref(h.objects[l].at) /\ x.words[5] = Ref(h.objects[r].at)
        BY <4>1 DEF OfTwo
      <4> QED BY <4>2, WordsDiffer
    <3> QED BY <3>1, <3>2
  <2>3. Read(h, Offset(x.at, 4 - 1)) = x.words[4] /\ Read(h, Offset(x.at, 5 - 1)) = x.words[5]
    BY <2>1, <2>2, ReadWord
  <2>4. Read(h, Offset(x.at, 3)) = x.words[4] /\ Read(h, Offset(x.at, 4)) = x.words[5]
    BY <2>3
  <2> QED BY <2>4 DEF RightIsNil, Left, Right
<1> QED BY <1>1, <1>2

\* Sequences of words.
LEMMA CharsIs ==
  ASSUME NEW text \in Seq(Letters)
  PROVE  Chars(text) \in Seq(Words) /\ Len(Chars(text)) = Len(text) /\ \A i \in 1..Len(text) : Chars(text)[i] = Char(text[i])
<1>1. \A i \in DOMAIN text : Char(text[i]) \in Words
  BY DEF Char, Words, Characters
<1>2. Chars(text) \in [1..Len(text) -> Words]
  BY <1>1 DEF Chars
<1>3. Chars(text) \in Seq(Words)
  BY <1>2
<1> QED BY <1>2, <1>3 DEF Chars

\* Two sequences of words joined.
LEMMA CatIs ==
  ASSUME NEW u \in Seq(Words), NEW v \in Seq(Words)
  PROVE  /\ u \o v \in Seq(Words) /\ Len(u \o v) = Len(u) + Len(v)
         /\ \A i \in 1..Len(u) : (u \o v)[i] = u[i]
         /\ \A i \in 1..Len(v) : (u \o v)[Len(u) + i] = v[i]
OBVIOUS

\* HString::new, and the flat string of HString::value, whose characters are not written yet.
LEMMA NewStringIsGood ==
  ASSUME NEW h, NEW right \in BOOLEAN, GoodHeap(h, right), NEW s \in Spaces, NEW text \in Seq(Letters),
         NEW chars \in Seq(Words), Len(chars) <= Len(text), right => chars = Chars(text)
  PROVE  /\ GoodHeap(NewString(h, s, Len(text), chars, text), right)
         /\ Carries(h, NewString(h, s, Len(text), chars, text))
         /\ Makes(h, s, "String", "Normal", <<Num(0), Num(Len(text))>> \o chars, 4 + Len(text), Len(text), text)
<1> DEFINE count == Len(text)
           two == <<Num(0), Num(count)>>
           ws == two \o chars
           n == 4 + count
           g == New(h, s, "String", "Normal", ws, n, text)
           all == Headed(s, "String", "Normal", ws)
           x == Entered(h, s, "String", "Normal", ws, count, text)
<1>1. count \in Nat /\ n \in Nat /\ Len(chars) \in Nat
  OBVIOUS
<1>2. two \in Seq(Words) /\ Len(two) = 2 /\ two[2] = Num(count)
  <2>1. Num(0) \in Words /\ Num(count) \in Words
    BY <1>1 DEF Num, Words, Numbers
  <2> QED BY <2>1
<1>3. ws \in Seq(Words) /\ Len(ws) = 2 + Len(chars) /\ ws[2] = Num(count)
      /\ \A i \in 1..Len(chars) : ws[2 + i] = chars[i]
  <2> HIDE DEF two
  <2>1. two \in Seq(Words) /\ Len(two) = 2 /\ two[2] = Num(count)
    BY <1>2
  <2>2. /\ two \o chars \in Seq(Words) /\ Len(two \o chars) = Len(two) + Len(chars)
        /\ \A i \in 1..Len(two) : (two \o chars)[i] = two[i]
        /\ \A i \in 1..Len(chars) : (two \o chars)[Len(two) + i] = chars[i]
    BY <2>1, CatIs
  <2>3. 2 \in 1..Len(two)
    BY <2>1
  <2> QED BY <2>1, <2>2, <2>3
<1>4. Owned("String", "Normal", count) = 3 + count /\ Counted("String") /\ CountAt("String") = 2
  BY DEF Owned, Counted, CountAt
<1>5. Fits(h, s, "String", "Normal", ws, n, count, text)
  <2>1. h \in Heaps /\ "String" \in Kinds /\ "Normal" \in Reprs
    BY DEF GoodHeap, HeapInv, Kinds, Reprs
  <2>2. 1 + Len(ws) <= n /\ 3 + count <= n /\ CountAt("String") <= Len(ws)
    <3> HIDE DEF ws, count
    <3> QED BY <1>1, <1>3, <1>4 DEF count
  <2> HIDE DEF ws, n, count
  <2> QED BY <1>1, <1>3, <1>4, <2>1, <2>2 DEF Fits
<1>6. Makes(h, s, "String", "Normal", ws, n, count, text)
  <2> HIDE DEF ws, n, count
  <2> QED BY <1>5, NewMakes
<1>7. /\ Grown(h, g, s, n, x) /\ Shaped(x.words) /\ ReadsOwn(g, x) /\ all[1].tag = "String" /\ all[1].repr = "Normal"
      /\ Len(all) = 1 + Len(ws) /\ \A i \in 1..Len(ws) : all[i + 1] = ws[i]
      /\ \A i \in 1..(3 + count) : x.words[i] = IF i \in 1..Len(all) THEN all[i] ELSE Untouched
      /\ Len(x.words) = 3 + count
  BY <1>4, <1>6 DEF Makes
<1>8. ~x.short /\ x.text = text
  BY DEF Entered
<1> HIDE DEF g, all, x, ws, n
<1>9. x.words[1] = all[1] /\ x.words[3] = all[2 + 1]
  BY <1>1, <1>3, <1>7
<1>10. x.words[3] = Num(count)
  BY <1>3, <1>7, <1>9
<1>11. IsText(x) /\ Whole(x) /\ n >= Extent(x)
  BY <1>1, <1>7, <1>8, <1>9 DEF IsText, Whole, Extent, n
<1>12. right => Spelt(x)
  <2> SUFFICES ASSUME right, NEW i \in 1..count PROVE x.words[3 + i] = Char(text[i])
    BY <1>8 DEF Spelt
  <2>1. Len(chars) = count /\ chars[i] = Char(text[i])
    BY CharsIs
  <2>2. 3 + i \in 1..(3 + count) /\ 3 + i \in 1..Len(all) /\ 2 + i \in 1..Len(ws) /\ (2 + i) + 1 = 3 + i
    <3> HIDE DEF count
    <3> QED BY <1>1, <1>3, <1>7, <2>1
  <2>3. x.words[3 + i] = all[3 + i] /\ all[(2 + i) + 1] = ws[2 + i] /\ ws[2 + i] = chars[i]
    BY <1>3, <1>7, <2>1, <2>2
  <2> QED BY <2>1, <2>2, <2>3
<1>13. Made(g, Len(h.objects) + 1)
  <2>1. g.objects[Len(h.objects) + 1] = x
    <3>1. h.objects \in Seq(Entries) /\ g.objects = Append(h.objects, x) /\ x \in Entries
      BY <1>7 DEF GoodHeap, HeapInv, Heaps, Grown
    <3> QED BY <3>1
  <2> QED BY <1>8, <1>10, <1>11, <2>1 DEF Made
<1>14. GoodHeap(g, right)
  BY <1>1, <1>7, <1>8, <1>11, <1>12, <1>13, GrownIsGood DEF n
<1>15. NewString(h, s, Len(text), chars, text) = g
  BY DEF NewString, g, ws, n
<1>16. Carries(h, g)
  BY <1>1, <1>7, <1>8, GrownCarries DEF GoodHeap, HeapInv
<1> QED BY <1>6, <1>14, <1>15, <1>16 DEF ws, n

\* A string of two that share nothing adds a string, in which the text of both is.
LEMMA NewConsIsGood ==
  ASSUME NEW h, NEW right \in BOOLEAN, GoodHeap(h, right), NEW s \in Spaces,
         NEW l \in DOMAIN h.objects, NEW r \in DOMAIN h.objects, IsText(h.objects[l]), IsText(h.objects[r]),
         ReadsOwn(h, h.objects[l]), ReadsOwn(h, h.objects[r])
  PROVE  LET g == NewCons(h, s, l, r) IN
         /\ GoodHeap(g, right) /\ Carries(h, g)
         /\ \E x : Grown(h, g, s, 5, x) /\ ReadsOwn(g, x) /\ IsText(x)
<1> DEFINE a == h.objects[l]
           b == h.objects[r]
           text == a.text \o b.text
           count == Len(text)
           ws == <<Num(0), Num(count), Ref(a.at), Ref(b.at)>>
           g == New(h, s, "String", "Cons", ws, 5, text)
           all == Headed(s, "String", "Cons", ws)
           x == Entered(h, s, "String", "Cons", ws, count, text)
<1>1. HeapInv(h) /\ Made(h, l) /\ Made(h, r)
  BY DEF GoodHeap, StructInv
<1>2. Count(h, a.at) = Len(a.text) /\ Count(h, b.at) = Len(b.text)
  BY <1>1, ReadText
<1>3. a.text \in Seq(Letters) /\ b.text \in Seq(Letters) /\ a.at \in Addresses /\ b.at \in Addresses
  BY <1>1, EntryOf DEF HeapInv
<1>4. text \in Seq(Letters) /\ count = Len(a.text) + Len(b.text) /\ count \in Nat
  <2> DEFINE u == a.text
             v == b.text
  <2>1. u \in Seq(Letters) /\ v \in Seq(Letters)
    BY <1>3
  <2> HIDE DEF u, v
  <2>2. u \o v \in Seq(Letters) /\ Len(u \o v) = Len(u) + Len(v) /\ Len(u \o v) \in Nat
    BY <2>1
  <2> QED BY <2>2 DEF u, v
<1> HIDE DEF text, count
<1>5. ws \in Seq(Words) /\ Len(ws) = 4 /\ ws[2] = Num(count) /\ ws[3] = Ref(a.at) /\ ws[4] = Ref(b.at)
  <2>1. Num(0) \in Words /\ Num(count) \in Words /\ Ref(a.at) \in Words /\ Ref(b.at) \in Words
    BY <1>3, <1>4 DEF Num, Ref, Words, Numbers, References
  <2> QED BY <2>1
<1>6. Owned("String", "Cons", count) = 5 /\ Counted("String") /\ CountAt("String") = 2
  BY DEF Owned, Counted, CountAt
<1> HIDE DEF ws
<1>7. Fits(h, s, "String", "Cons", ws, 5, count, text)
  <2>1. h \in Heaps /\ "String" \in Kinds /\ "Cons" \in Reprs
    BY <1>1 DEF HeapInv, Kinds, Reprs
  <2>2. 5 \in Nat /\ 1 + Len(ws) <= 5 /\ Owned("String", "Cons", count) <= 5 /\ CountAt("String") <= Len(ws)
    BY <1>5, <1>6
  <2>3. ws[CountAt("String")] = Num(count)
    BY <1>5, <1>6
  <2> QED BY <1>4, <1>5, <1>6, <2>1, <2>2, <2>3 DEF Fits
<1>8. Makes(h, s, "String", "Cons", ws, 5, count, text)
  BY <1>7, NewMakes
<1>9. /\ Grown(h, g, s, 5, x) /\ Shaped(x.words) /\ ReadsOwn(g, x) /\ all[1].tag = "String" /\ all[1].repr = "Cons"
      /\ Len(all) = 1 + Len(ws) /\ \A i \in 1..Len(ws) : all[i + 1] = ws[i]
      /\ \A i \in 1..5 : x.words[i] = IF i \in 1..Len(all) THEN all[i] ELSE Untouched
      /\ Len(x.words) = 5
  BY <1>6, <1>8 DEF Makes
<1>10. ~x.short /\ x.text = text
  BY DEF Entered
<1> HIDE DEF g, all, x
<1>11. x.words[1] = all[1] /\ x.words[3] = all[2 + 1] /\ x.words[4] = all[3 + 1] /\ x.words[5] = all[4 + 1]
  BY <1>5, <1>9
<1>12. x.words[3] = Num(count) /\ x.words[4] = Ref(a.at) /\ x.words[5] = Ref(b.at)
  BY <1>5, <1>9, <1>11
<1>13. IsText(x) /\ ~Whole(x) /\ Extent(x) = 5 /\ x.words[5] # Nil
  BY <1>9, <1>10, <1>11, <1>12 DEF IsText, Whole, Extent, Ref, Nil
<1>14. Made(g, Len(h.objects) + 1)
  <2> DEFINE N == Len(h.objects)
  <2>1. N \in Nat /\ g.objects[N + 1] = x /\ DOMAIN h.objects = 1..N /\ DOMAIN g.objects = 1..(N + 1)
        /\ \A p \in 1..N : g.objects[p] = h.objects[p]
    <3>1. h.objects \in Seq(Entries) /\ g.objects = Append(h.objects, x) /\ x \in Entries
      BY <1>1, <1>9 DEF HeapInv, Heaps, Grown
    <3> QED BY <3>1
  <2> HIDE DEF N
  <2>2. l \in DOMAIN g.objects /\ r \in DOMAIN g.objects /\ l < N + 1 /\ r < N + 1
    BY <2>1
  <2>3. OfTwo(g, x, l, r)
    BY <1>10, <1>12, <2>1 DEF OfTwo, text
  <2> QED BY <1>10, <1>12, <1>13, <2>1, <2>2, <2>3 DEF Made, N, count
<1>15. GoodHeap(g, right)
  BY <1>9, <1>10, <1>13, <1>14, GrownIsGood
<1>16. NewCons(h, s, l, r) = g
  BY <1>2, <1>4 DEF NewCons, g, ws, text
<1>17. Carries(h, g)
  BY <1>1, <1>9, <1>10, GrownCarries DEF HeapInv
<1> QED BY <1>9, <1>13, <1>15, <1>16, <1>17

(***************************************************************************)
(* New objects of the other kinds.                                         *)
(***************************************************************************)

\* A word repeated.
LEMMA RepeatIs ==
  ASSUME NEW w \in Words, NEW n \in Nat
  PROVE  Repeat(w, n) \in Seq(Words) /\ Len(Repeat(w, n)) = n
<1>1. Repeat(w, n) \in [1..n -> Words]
  BY DEF Repeat
<1> QED BY <1>1 DEF Repeat

\* Words of each kind.
LEMMA WordsIs ==
  /\ Nil \in Words
  /\ \A n \in Int : Num(n) \in Words
  /\ \A a \in Addresses : Ref(a) \in Words
BY DEF Nil, Num, Ref, Words, Numbers, References

\* A good heap is a heap.
LEMMA InHeaps ==
  ASSUME NEW h, NEW right, GoodHeap(h, right)
  PROVE  h \in Heaps /\ "Normal" \in Reprs /\ <<>> \in Seq(Letters)
BY DEF GoodHeap, HeapInv, Reprs

\* HNumber::new and HBoolean::new.
LEMMA NewBoxedIsGood ==
  ASSUME NEW h, NEW right \in BOOLEAN, GoodHeap(h, right), NEW s \in Spaces, NEW tag \in {"Boolean", "Number"}
  PROVE  GoodHeap(NewBoxed(h, s, tag), right) /\ Carries(h, NewBoxed(h, s, tag))
<1> DEFINE ws == <<Num(1)>>
<1>1. ws \in Seq(Words) /\ Len(ws) = 1
  BY WordsIs
<1>2. tag \in Kinds \ {"String"} /\ ~Counted(tag) /\ Owned(tag, "Normal", 0) = 2
  BY DEF Kinds, Counted, Owned
<1> HIDE DEF ws
<1>3. GoodHeap(New(h, s, tag, "Normal", ws, 2, <<>>), right) /\ Carries(h, New(h, s, tag, "Normal", ws, 2, <<>>))
  <2>1. Fits(h, s, tag, "Normal", ws, 2, 0, <<>>)
    BY <1>1, <1>2, InHeaps DEF Fits
  <2> QED BY <1>2, <2>1, NewIsGood
<1> QED BY <1>3 DEF NewBoxed, ws

\* A function.
LEMMA NewFunctionIsGood ==
  ASSUME NEW h, NEW right \in BOOLEAN, GoodHeap(h, right)
  PROVE  GoodHeap(NewFunction(h), right) /\ Carries(h, NewFunction(h))
<1> DEFINE ws == <<Nil, Num(0), Nil, Num(0)>>
<1>1. ws \in Seq(Words) /\ Len(ws) = 4
  BY WordsIs
<1>2. "Function" \in Kinds \ {"String"} /\ ~Counted("Function") /\ Owned("Function", "Normal", 0) = 5
      /\ "new" \in Spaces
  BY DEF Kinds, Counted, Owned, Spaces
<1> HIDE DEF ws
<1>3. GoodHeap(New(h, "new", "Function", "Normal", ws, 5, <<>>), right) /\ Carries(h, New(h, "new", "Function", "Normal", ws, 5, <<>>))
  <2>1. Fits(h, "new", "Function", "Normal", ws, 5, 0, <<>>)
    BY <1>1, <1>2, InHeaps DEF Fits
  <2> QED BY <1>2, <2>1, NewIsGood
<1> QED BY <1>3 DEF NewFunction, ws

\* A context of any number of slots.
LEMMA NewContextIsGood ==
  ASSUME NEW h, NEW right \in BOOLEAN, GoodHeap(h, right), NEW s \in Spaces, NEW slots \in Nat
  PROVE  GoodHeap(NewContext(h, s, slots), right) /\ Carries(h, NewContext(h, s, slots))
<1> DEFINE two == <<Nil, Num(slots)>>
           rest == Repeat(Nil, slots)
           ws == two \o rest
           n == 3 + slots
<1>1. two \in Seq(Words) /\ Len(two) = 2 /\ two[2] = Num(slots)
  BY WordsIs
<1>2. rest \in Seq(Words) /\ Len(rest) = slots
  BY WordsIs, RepeatIs
<1> HIDE DEF two, rest
<1>3. ws \in Seq(Words) /\ Len(ws) = 2 + slots /\ ws[2] = Num(slots)
  <2>1. 2 \in 1..Len(two)
    BY <1>1
  <2>2. two \o rest \in Seq(Words) /\ Len(two \o rest) = Len(two) + Len(rest) /\ (two \o rest)[2] = two[2]
    BY <1>1, <1>2, <2>1, CatIs
  <2> QED BY <1>1, <1>2, <2>2
<1>4. "Context" \in Kinds \ {"String"} /\ Counted("Context") /\ CountAt("Context") = 2
      /\ Owned("Context", "Normal", slots) = n
  BY DEF Kinds, Counted, CountAt, Owned
<1>5. n \in Nat /\ 1 + Len(ws) <= n /\ n <= n /\ 2 <= Len(ws)
  BY <1>3
<1> HIDE DEF ws, n
<1>6. GoodHeap(New(h, s, "Context", "Normal", ws, n, <<>>), right) /\ Carries(h, New(h, s, "Context", "Normal", ws, n, <<>>))
  <2>1. Fits(h, s, "Context", "Normal", ws, n, slots, <<>>)
    BY <1>3, <1>4, <1>5, InHeaps DEF Fits
  <2> QED BY <1>4, <2>1, NewIsGood
<1> QED BY <1>6 DEF NewContext, ws, n, two, rest

\* HMap::new_empty of any size.
LEMMA NewMapIsGood ==
  ASSUME NEW h, NEW right \in BOOLEAN, GoodHeap(h, right), NEW size \in Nat
  PROVE  GoodHeap(NewMap(h, size), right) /\ Carries(h, NewMap(h, size))
<1> DEFINE one == <<Num(size)>>
           rest == Repeat(Nil, 2 * size)
           ws == one \o rest
           n == 2 + 2 * size
<1>1. one \in Seq(Words) /\ Len(one) = 1 /\ one[1] = Num(size)
  BY WordsIs
<1>2. rest \in Seq(Words) /\ Len(rest) = 2 * size
  BY WordsIs, RepeatIs
<1> HIDE DEF one, rest
<1>3. ws \in Seq(Words) /\ Len(ws) = 1 + 2 * size /\ ws[1] = Num(size)
  <2>1. 1 \in 1..Len(one)
    BY <1>1
  <2>2. one \o rest \in Seq(Words) /\ Len(one \o rest) = Len(one) + Len(rest) /\ (one \o rest)[1] = one[1]
    BY <1>1, <1>2, <2>1, CatIs
  <2> QED BY <1>1, <1>2, <2>2
<1>4. "Map" \in Kinds \ {"String"} /\ Counted("Map") /\ CountAt("Map") = 1
      /\ Owned("Map", "Normal", size) = n /\ "new" \in Spaces
  BY DEF Kinds, Counted, CountAt, Owned, Spaces
<1>5. n \in Nat /\ 1 + Len(ws) <= n /\ n <= n /\ 1 <= Len(ws)
  BY <1>3
<1> HIDE DEF ws, n
<1>6. GoodHeap(New(h, "new", "Map", "Normal", ws, n, <<>>), right) /\ Carries(h, New(h, "new", "Map", "Normal", ws, n, <<>>))
  <2>1. Fits(h, "new", "Map", "Normal", ws, n, size, <<>>)
    BY <1>3, <1>4, <1>5, InHeaps DEF Fits
  <2> QED BY <1>4, <2>1, NewIsGood
<1> QED BY <1>6 DEF NewMap, ws, n, one, rest

\* External data of any size.
LEMMA NewDataIsGood ==
  ASSUME NEW h, NEW right \in BOOLEAN, GoodHeap(h, right), NEW size \in Nat
  PROVE  GoodHeap(NewData(h, size), right) /\ Carries(h, NewData(h, size))
<1> DEFINE ws == <<Num(size)>>
           n == 2 + size
<1>1. ws \in Seq(Words) /\ Len(ws) = 1 /\ ws[1] = Num(size)
  BY WordsIs
<1>2. "ExternData" \in Kinds \ {"String"} /\ Counted("ExternData") /\ CountAt("ExternData") = 1
      /\ Owned("ExternData", "Normal", size) = n /\ "new" \in Spaces
  BY DEF Kinds, Counted, CountAt, Owned, Spaces
<1>3. n \in Nat /\ 1 + Len(ws) <= n /\ n <= n /\ 1 <= Len(ws)
  BY <1>1
<1> HIDE DEF ws, n
<1>4. GoodHeap(New(h, "new", "ExternData", "Normal", ws, n, <<>>), right) /\ Carries(h, New(h, "new", "ExternData", "Normal", ws, n, <<>>))
  <2>1. Fits(h, "new", "ExternData", "Normal", ws, n, size, <<>>)
    BY <1>1, <1>2, <1>3, InHeaps DEF Fits
  <2> QED BY <1>2, <2>1, NewIsGood
<1> QED BY <1>4 DEF NewData, ws, n

\* HObject::new_empty and HArray::new_empty: an object and its map.
LEMMA WithMapIsGood ==
  ASSUME NEW h, NEW right \in BOOLEAN, GoodHeap(h, right), NEW tag, NEW length,
         \/ tag = "Object" /\ length = <<>>
         \/ tag = "Array" /\ length = <<Num(0)>>
  PROVE  GoodHeap(WithMap(h, tag, length, 1), right) /\ Carries(h, WithMap(h, tag, length, 1))
<1> DEFINE n == 4 + Len(length)
           map == Ref(Offset(Top(h, "new"), n))
           three == <<Num(1 - 1), map, map>>
           ws == three \o length
           g == New(h, "new", tag, "Normal", ws, n, <<>>)
<1>1. length \in Seq(Words) /\ Len(length) \in Nat
  <2>1. Num(0) \in Words
    BY WordsIs
  <2>2. <<>> \in Seq(Words) /\ <<Num(0)>> \in Seq(Words)
    BY <2>1
  <2>3. length \in Seq(Words)
    BY <2>2
  <2> QED BY <2>3
<1>2. n \in Nat /\ n \in Int /\ "new" \in Spaces
  BY <1>1 DEF Spaces
<1>3. map \in Words
  <2>1. Top(h, "new") \in Addresses
    BY <1>2, TopIs DEF GoodHeap, HeapInv
  <2>2. Offset(Top(h, "new"), n) \in Addresses
    BY <1>2, <2>1, OffsetIs
  <2> QED BY <2>2, WordsIs
<1>4. three \in Seq(Words) /\ Len(three) = 3
  <2> HIDE DEF map
  <2>1. Num(1 - 1) \in Words
    BY WordsIs
  <2> QED BY <1>3, <2>1
<1> HIDE DEF three
<1>5. ws \in Seq(Words) /\ Len(ws) = 3 + Len(length)
  <2>1. three \o length \in Seq(Words) /\ Len(three \o length) = Len(three) + Len(length)
    BY <1>1, <1>4, CatIs
  <2> QED BY <1>4, <2>1
<1>6. 1 + Len(ws) <= n
  BY <1>1, <1>5
<1>7. tag \in Kinds \ {"String"} /\ ~Counted(tag) /\ Owned(tag, "Normal", 0) <= n
  <2>1. CASE tag = "Object" /\ length = <<>>
    BY <2>1 DEF Kinds, Counted, Owned
  <2>2. CASE tag = "Array" /\ length = <<Num(0)>>
    <3>1. Len(<<Num(0)>>) = 1
      OBVIOUS
    <3> QED BY <2>2, <3>1 DEF Kinds, Counted, Owned
  <2> QED BY <2>1, <2>2
<1> HIDE DEF ws, n
<1>8. GoodHeap(g, right) /\ Carries(h, g)
  <2>1. Fits(h, "new", tag, "Normal", ws, n, 0, <<>>)
    BY <1>2, <1>5, <1>6, <1>7, InHeaps DEF Fits
  <2> QED BY <1>7, <2>1, NewIsGood
<1> HIDE DEF g
<1>9. GoodHeap(NewMap(g, 1), right) /\ Carries(h, NewMap(g, 1))
  BY <1>8, NewMapIsGood, CarriesOn
<1> QED BY <1>9 DEF WithMap, g, ws, three, n

\* A write into an object writes no character above the top, unless it writes one.
LEMMA StoreIsFresh ==
  ASSUME NEW h, NEW g, NEW o, NEW n, NEW w, Stored(h, g, o, n, w), FreshInv(h), w \notin Characters
  PROVE  FreshInv(g)
<1> SUFFICES ASSUME NEW b \in Addresses, b.i > g.top[b.space] PROVE Read(g, b) \notin Characters
  BY DEF FreshInv
<1>1. g.top = h.top
  BY DEF Stored
<1>2. Read(g, b) = w \/ Read(g, b) = Read(h, b)
  BY DEF Stored
<1> QED BY <1>1, <1>2 DEF FreshInv

\* A write that neither makes a string another one nor changes its characters.
LEMMA StoreIsGood ==
  ASSUME NEW h, NEW right \in BOOLEAN, GoodHeap(h, right), NEW o \in DOMAIN h.objects,
         NEW n \in 0..(Len(h.objects[o].words) - 1), NEW w \in Words, w \notin Characters,
         NEW g, Stored(h, g, o, n, w), Shaped(g.objects[o].words), g.objects[o].words[1].tag = h.objects[o].words[1].tag,
         IsText(h.objects[o]) => n = 0 /\ (Whole(g.objects[o]) <=> Whole(h.objects[o]))
  PROVE  GoodHeap(g, right)
<1> DEFINE x == h.objects[o]
           y == g.objects[o]
<1>1. HeapInv(g) /\ FreshInv(g)
  BY StoreKeeps, StoreIsFresh DEF GoodHeap
<1>2. DOMAIN g.objects = DOMAIN h.objects /\ \A p \in DOMAIN h.objects : p # o => g.objects[p] = h.objects[p]
  BY DEF Stored
<1>3. x.words \in Seq(Words) /\ y.words = [x.words EXCEPT ![n + 1] = w] /\ y.at = x.at /\ y.text = x.text
  BY EntryOf DEF Stored, GoodHeap, HeapInv
<1>4. IsText(x) => \A i : i # 1 => y.words[i] = x.words[i]
  <2> SUFFICES ASSUME IsText(x), NEW i, i # 1 PROVE y.words[i] = x.words[i]
    OBVIOUS
  <2>1. y.words = [x.words EXCEPT ![1] = w]
    BY <1>3
  <2> QED BY <1>3, <2>1
<1>5. IsText(y) <=> IsText(x)
  BY DEF IsText
<1>6. Alike(x, y)
  <2>1. IsText(x) => y.words[3] = x.words[3] /\ y.words[4] = x.words[4] /\ y.words[5] = x.words[5]
    BY <1>4
  <2> QED BY <1>3, <1>5, <2>1 DEF Alike
<1>7. StructInv(g)
  BY <1>2, <1>6, MadeKept DEF GoodHeap, StructInv, Alike
<1>8. right => SpeltInv(g)
  <2> SUFFICES ASSUME right, NEW p \in DOMAIN h.objects, IsText(g.objects[p]), Whole(g.objects[p])
               PROVE  Spelt(g.objects[p])
    BY <1>2 DEF SpeltInv
  <2>1. CASE p # o
    BY <1>2, <2>1 DEF GoodHeap, SpeltInv
  <2>2. CASE p = o
    <3>1. IsText(x) /\ Whole(x) /\ y.text = x.text
      BY <1>3, <1>6, <2>2 DEF Alike
    <3>2. Spelt(x)
      BY <3>1 DEF GoodHeap, SpeltInv
    <3>3. \A i \in 1..Len(x.text) : y.words[3 + i] = x.words[3 + i]
      <4> SUFFICES ASSUME NEW i \in 1..Len(x.text) PROVE y.words[3 + i] = x.words[3 + i]
        OBVIOUS
      <4>1. 3 + i # 1
        OBVIOUS
      <4> QED BY <1>4, <3>1, <4>1
    <3> QED BY <2>2, <3>1, <3>2, <3>3 DEF Spelt
  <2> QED BY <2>1, <2>2
<1> QED BY <1>1, <1>7, <1>8 DEF GoodHeap

(***************************************************************************)
(* The program's writes, and copies.                                       *)
(***************************************************************************)

\* An object that shares its words with no other reads as written.
LEMMA AloneReads ==
  ASSUME HeapInv(heap), NEW o \in Objects, Alone(o)
  PROVE  ReadsOwn(heap, heap.objects[o]) /\ ~heap.objects[o].short
<1>1. ~Exempt(heap, o)
  BY DEF Alone, Exempt, ShortContext, Objects
<1> QED BY <1>1 DEF HeapInv, ReadInv, Alone, Objects

\* The program's writes.
LEMMA WriteIsGood ==
  ASSUME NEW right \in BOOLEAN, GoodHeap(heap, right), NEW o \in Objects, NEW n \in Fields(heap.objects[o].words)
  PROVE  GoodHeap(Store(heap, o, n, Num(7)), right) /\ Carries(heap, Store(heap, o, n, Num(7)))
<1> DEFINE x == heap.objects[o]
           w == Num(7)
           g == Store(heap, o, n, w)
           y == g.objects[o]
           c == CountAt(x.words[1].tag)
<1>1. heap \in Heaps /\ o \in DOMAIN heap.objects /\ Shaped(x.words) /\ x.words \in Seq(Words)
  BY EntryOf DEF GoodHeap, HeapInv, ShapeInv, Objects
<1>2. n \in 1..(Len(x.words) - 1) /\ n \in 0..(Len(x.words) - 1) /\ Len(x.words) \in Nat /\ n + 1 # 1
  BY <1>1 DEF Fields
<1>3. w \in Words /\ w \notin Characters
  <2>1. w.k = "number"
    BY DEF Num
  <2> QED BY <2>1, WordsIs DEF Characters
<1>4. x.words[1].tag \in Kinds
  BY <1>1 DEF Shaped, Headers
<1>5. Counted(x.words[1].tag) => n # c /\ x.words[1].tag # "String"
  BY <1>4 DEF Fields, Counted, CountAt
<1>6. ~IsText(x)
  BY <1>4 DEF Fields, IsText
<1> HIDE DEF w
<1>7. Stored(heap, g, o, n, w)
  BY <1>1, <1>2, <1>3, StoreIs
<1> HIDE DEF g
<1>8. y.words = [x.words EXCEPT ![n + 1] = w]
  BY <1>7 DEF Stored
<1>9. y.words[1] = x.words[1] /\ Len(y.words) = Len(x.words)
  BY <1>1, <1>2, <1>8
<1>10. Counted(x.words[1].tag) => y.words[c + 1] = x.words[c + 1]
  <2> SUFFICES ASSUME Counted(x.words[1].tag) PROVE y.words[c + 1] = x.words[c + 1]
    OBVIOUS
  <2>1. c \in 1..2 /\ n # c
    BY <1>5 DEF CountAt
  <2>2. c + 1 # n + 1
    <3> HIDE DEF c
    <3> QED BY <1>2, <2>1
  <2> HIDE DEF c
  <2> QED BY <1>1, <1>8, <2>2
<1>11. Shaped(y.words)
  <2>1. CountOf(y.words) = CountOf(x.words)
    BY <1>9, <1>10 DEF CountOf
  <2> QED BY <1>1, <1>9, <1>10, <2>1 DEF Shaped
<1>12. GoodHeap(g, right)
  BY <1>1, <1>2, <1>3, <1>6, <1>7, <1>9, <1>11, StoreIsGood
<1>13. Carries(heap, g)
  BY <1>1, <1>2, <1>7, StoredCarries DEF GoodHeap
<1> QED BY <1>12, <1>13 DEF g, w

\* Words written at the top of a space, for an object that is added.
Filled(h, s, n, ws, x) == [WriteAll(Allocate(h, s, n), Top(h, s), ws) EXCEPT !.objects = Append(@, x)]

\* Words written at the top of a space for an object that is added.
LEMMA FillIs ==
  ASSUME NEW h \in Heaps, NEW s \in Spaces, NEW n \in Nat, NEW ws \in Seq(Words), Len(ws) <= n,
         NEW x \in Entries, x.at = Top(h, s)
  PROVE  /\ Grown(h, Filled(h, s, n, ws, x), s, n, x)
         /\ \A i \in 1..Len(ws) : Read(Filled(h, s, n, ws, x), Offset(Top(h, s), i - 1)) = ws[i]
<1> DEFINE a == Top(h, s)
           g == Filled(h, s, n, ws, x)
<1>0. g = [WriteAll(Allocate(h, s, n), a, ws) EXCEPT !.objects = Append(@, x)]
  BY DEF Filled
<1>a. x.at = a
  OBVIOUS
<1> HIDE DEF g
<1> DEFINE given == Allocate(h, s, n)
           after == WriteAll(given, a, ws)
<1>1. a \in Addresses /\ a.space = s /\ a.i = h.top[s] + 1 /\ h.top[s] \in Nat
  BY TopIs DEF a
<1>2. /\ given \in Heaps /\ given.objects = h.objects /\ given.top = [h.top EXCEPT ![s] = @ + n]
      /\ \A b : Read(given, b) = Read(h, b)
  BY AllocateIs
<1> HIDE DEF given, a
<1>3. /\ after \in Heaps /\ after.top = given.top /\ after.objects = given.objects
      /\ \A b \in Addresses :
           Read(after, b) =
             IF b.space = a.space /\ b.i \in a.i..(a.i + Len(ws) - 1) THEN ws[b.i - a.i + 1] ELSE Read(given, b)
  <2>1. given \in Heaps /\ a \in Addresses
    BY <1>1, <1>2
  <2> QED BY <2>1, ReadWriteAll
<1>4. g = [after EXCEPT !.objects = Append(after.objects, x)]
  BY <1>0 DEF given
<1> HIDE DEF after
<1>5. g \in Heaps /\ g.top = given.top /\ g.objects = Append(h.objects, x) /\ g.mem = after.mem
  <2>1. after \in [mem : [Spaces -> Memories], top : [Spaces -> Nat], objects : Seq(Entries)]
    BY <1>3 DEF Heaps
  <2>2. g = [after EXCEPT !.objects = Append(h.objects, x)]
    BY <1>2, <1>3, <1>4
  <2>3. Append(h.objects, x) \in Seq(Entries)
    BY DEF Heaps
  <2>4. g \in Heaps
    BY <2>1, <2>2, <2>3 DEF Heaps
  <2> QED BY <1>3, <2>1, <2>2, <2>4
<1>6. \A b : Read(g, b) = Read(after, b)
  BY <1>5 DEF Read
<1>7. ASSUME NEW b \in Addresses, b.space # s \/ b.i <= h.top[s] \/ b.i > h.top[s] + n
      PROVE  Read(g, b) = Read(h, b)
  <2>1. b.i \in Int
    BY DEF Addresses
  <2>2. ~(b.space = s /\ b.i \in a.i..(a.i + Len(ws) - 1))
    BY <1>1, <1>7, <2>1
  <2> QED BY <1>1, <1>2, <1>3, <1>6, <2>2
<1>8. ASSUME NEW i \in 1..Len(ws) PROVE Read(g, Offset(a, i - 1)) = ws[i]
  <2> DEFINE b == Offset(a, i - 1)
  <2>1. b \in Addresses /\ b.space = s /\ b.i = a.i + (i - 1) /\ i - 1 \in Int
    <3>1. i - 1 \in Int
      OBVIOUS
    <3> QED BY <1>1, <3>1, OffsetIs
  <2> HIDE DEF b
  <2>2. b.i \in a.i..(a.i + Len(ws) - 1) /\ b.i - a.i + 1 = i
    <3> DEFINE t == a.i
               l == Len(ws)
    <3>1. t \in Int /\ l \in Nat /\ i \in 1..l /\ b.i = t + (i - 1)
      BY <1>1, <2>1
    <3> HIDE DEF t, l
    <3>2. b.i \in t..(t + l - 1) /\ b.i - t + 1 = i
      BY <3>1
    <3> QED BY <3>2 DEF t, l
  <2>3. Read(after, b) = ws[i]
    BY <1>1, <1>3, <2>1, <2>2
  <2> QED BY <1>6, <2>3 DEF b
<1> QED BY <1>2, <1>5, <1>7, <1>8 DEF Grown, g, a

\* How copy_to's count of the words compares with those an object owns.
LEMMA SizeIs ==
  ASSUME NEW tag \in Kinds, NEW repr \in Reprs, NEW count \in Nat
  PROVE  /\ Size(tag, repr, count) \in Nat /\ Size(tag, repr, count) >= 1
         /\ Size(tag, repr, count) < Owned(tag, repr, count) =>
              tag = "Context" /\ Owned(tag, repr, count) < 5
         /\ tag = "Context" => /\ Owned(tag, repr, count) = 3 + count
                               /\ Size(tag, repr, count) = 1 + 2 * count
         /\ tag = "Map" => /\ Owned(tag, repr, count) = 2 + 2 * count
                           /\ Size(tag, repr, count) = Owned(tag, repr, count) + 1
         /\ tag \notin {"Context", "Map"} => Size(tag, repr, count) = Owned(tag, repr, count)
<1>1. CASE tag \in {"Boolean", "Number"}
  BY <1>1 DEF Size, Owned
<1>2. CASE tag = "Context"
  BY <1>2 DEF Size, Owned
<1>3. CASE tag = "String"
  BY <1>3 DEF Size, Owned, Reprs
<1>4. CASE tag = "Object"
  BY <1>4 DEF Size, Owned
<1>5. CASE tag \in {"Array", "Function"}
  BY <1>5 DEF Size, Owned
<1>6. CASE tag = "Map"
  BY <1>6 DEF Size, Owned
<1>7. CASE tag = "ExternData"
  BY <1>7 DEF Size, Owned
<1> QED BY <1>1, <1>2, <1>3, <1>4, <1>5, <1>6, <1>7 DEF Kinds

\* Words read one after the other.
LEMMA ReadAllIs ==
  ASSUME NEW h \in Heaps, NEW a \in Addresses, NEW n \in Nat
  PROVE  /\ ReadAll(h, a, n) \in Seq(Words) /\ Len(ReadAll(h, a, n)) = n
         /\ \A i \in 1..n : ReadAll(h, a, n)[i] = Read(h, Offset(a, i - 1))
<1>1. ASSUME NEW i \in 1..n PROVE Read(h, Offset(a, i - 1)) \in Words
  <2>1. i - 1 \in Int
    OBVIOUS
  <2>2. Offset(a, i - 1) \in Addresses
    BY <2>1, OffsetIs
  <2> QED BY <2>2, ReadsWord
<1>2. ReadAll(h, a, n) \in [1..n -> Words]
  BY <1>1 DEF ReadAll
<1>3. ReadAll(h, a, n) \in Seq(Words)
  BY <1>2
<1> QED BY <1>2, <1>3 DEF ReadAll

\* copy_to: the copy reads as its object did, as far as it goes, and the space it is made in grows by the size
\* that copy_to computes.
LEMMA CopyIsGood ==
  ASSUME NEW h, NEW right \in BOOLEAN, GoodHeap(h, right), NEW o \in DOMAIN h.objects,
         ReadsOwn(h, h.objects[o]), ~h.objects[o].short, NEW t
  PROVE  LET words == h.objects[o].words IN
         /\ GoodHeap(Copy(h, o, t), right)
         /\ First(h, "tmp") => First(Copy(h, o, t), "tmp")
         /\ \E s \in Spaces :
              Copy(h, o, t).top = [h.top EXCEPT ![s] = @ + Size(words[1].tag, words[1].repr, CountOf(words))]
<1> DEFINE entry == h.objects[o]
           words == entry.words
           a == entry.at
           tag == words[1].tag
           repr == words[1].repr
           count == CountOf(words)
           gen == IF Gen(h, a) < MinOldGen THEN Gen(h, a) + 1 ELSE Gen(h, a)
           head == Header(tag, repr, gen)
           aged == Store(h, o, 0, head)
           s == IF gen >= MinOldGen THEN IF t = "NewSpace" THEN "old" ELSE "tmp"
                ELSE IF t = "NewSpace" THEN "tmp" ELSE "new"
           n == Size(tag, repr, count)
           ws == ReadAll(aged, a, n)
           x == [aged.objects[o] EXCEPT !.at = Top(h, s), !.short = n < Len(words)]
           g == [WriteAll(Allocate(aged, s, n), Top(h, s), ws) EXCEPT !.objects = Append(@, x)]
<1>1. HeapInv(h) /\ h \in Heaps /\ entry \in Entries /\ a \in Addresses /\ words \in Seq(Words) /\ Shaped(words)
  BY EntryOf DEF GoodHeap, HeapInv, ShapeInv
<1>2. /\ Tag(h, a) = tag /\ Repr(h, a) = repr /\ Gen(h, a) = words[1].gen /\ words[1] \in Headers
      /\ Counted(tag) => Count(h, a) = count
      /\ OwnedAt(h, a) = Len(words) /\ count \in Nat /\ Len(words) = Owned(tag, repr, count)
  BY <1>1, ReadHeader
<1>3. Copy(h, o, t) = g
  <2>1. n = Size(tag, repr, IF Counted(tag) THEN Count(h, a) ELSE 0)
    BY <1>2 DEF CountOf
  <2>2. aged.objects[o] = aged.objects[o]
    OBVIOUS
  <2> QED BY <1>2, <2>1 DEF Copy
<1>4. tag \in Kinds /\ repr \in Reprs /\ words[1].gen \in Nat
  BY <1>2 DEF Headers
<1>5. gen \in Nat /\ s \in Spaces
  BY <1>2, <1>4, BoundsAssumption DEF Spaces
<1>6. head \in Headers /\ head \in Words /\ head \notin Characters /\ head.tag = tag /\ head.repr = repr
  <2> HIDE DEF tag, repr, gen
  <2>1. head \in Headers /\ head.k = "header" /\ head.tag = tag /\ head.repr = repr
    BY <1>4, <1>5 DEF Header, Headers
  <2> QED BY <2>1 DEF Words, Characters
<1>7. n \in Nat /\ n >= 1 /\ (n < Len(words) => tag = "Context" /\ Len(words) < 5)
  <2> HIDE DEF tag, repr, count, words
  <2> QED BY <1>2, <1>4, SizeIs
<1> HIDE DEF head, gen, s, n
<1>8. 0 \in 0..(Len(words) - 1) /\ Len(words) \in Nat /\ Len(words) >= 1
  BY <1>1 DEF Shaped
<1>9. Stored(h, aged, o, 0, head)
  BY <1>1, <1>6, <1>8, StoreIs
<1> HIDE DEF aged
<1>10. aged.objects[o].words = [words EXCEPT ![1] = head] /\ aged.objects[o].at = a /\ aged.top = h.top
       /\ aged \in Heaps /\ DOMAIN aged.objects = DOMAIN h.objects /\ Len(aged.objects) = Len(h.objects)
       /\ aged.objects[o].short = FALSE /\ aged.objects[o].text = entry.text
  BY <1>9, EntryOf DEF Stored
<1> DEFINE new == aged.objects[o].words
<1>11. new[1] = head /\ Len(new) = Len(words) /\ DOMAIN new = 1..Len(words) /\ \A i \in 2..Len(words) : new[i] = words[i]
       /\ new \in Seq(Words)
  <2> HIDE DEF words
  <2> QED BY <1>1, <1>6, <1>8, <1>10
<1>12. CountOf(new) = count /\ Shaped(new)
  <2>1. Counted(tag) => CountAt(tag) \in 1..2 /\ CountAt(tag) < Len(words)
    <3>1. Shaped(words)
      BY <1>1
    <3> HIDE DEF words
    <3> QED BY <3>1 DEF Shaped, CountAt
  <2>2. Counted(tag) => CountAt(tag) + 1 \in 2..Len(words)
    <3> HIDE DEF tag, words
    <3> QED BY <1>8, <2>1
  <2>3. Counted(tag) => new[CountAt(tag) + 1] = words[CountAt(tag) + 1]
    <3> HIDE DEF tag, words, new
    <3> QED BY <1>11, <2>2
  <2>4. CountOf(new) = count
    BY <1>6, <1>11, <2>3 DEF CountOf
  <2> QED BY <1>1, <1>6, <1>8, <1>11, <2>3, <2>4 DEF Shaped
<1>13. GoodHeap(aged, right)
  <2>1. IsText(entry) => (Whole(aged.objects[o]) <=> Whole(entry))
    BY <1>6, <1>11 DEF Whole
  <2>2. new[1].tag = words[1].tag
    BY <1>6, <1>11
  <2> HIDE DEF entry
  <2> QED BY <1>6, <1>8, <1>9, <1>12, <2>1, <2>2, StoreIsGood DEF entry
<1>14. aged.objects[o] \in Entries
  BY <1>10, EntryOf
<1>15. Top(aged, s) = Top(h, s) /\ Top(h, s) \in Addresses
  BY <1>1, <1>5, <1>10, TopIs DEF Top
<1>16. /\ x \in Entries /\ x.at = Top(h, s) /\ x.words = new /\ x.text = entry.text
       /\ x.short = (n < Len(words))
  <2> DEFINE y == aged.objects[o]
             b == Top(h, s)
             c == n < Len(words)
  <2>1. y \in Entries /\ b \in Addresses /\ c \in BOOLEAN /\ x = [y EXCEPT !.at = b, !.short = c] /\ y.text = entry.text
    BY <1>10, <1>14, <1>15
  <2> HIDE DEF y, b, c, x
  <2>2. x \in Entries /\ x.at = b /\ x.words = y.words /\ x.text = y.text /\ x.short = c
    BY <2>1 DEF Entries
  <2> QED BY <2>1, <2>2 DEF y, b, c
<1>17. ws \in Seq(Words) /\ Len(ws) = n /\ \A i \in 1..n : ws[i] = Read(aged, Offset(a, i - 1))
  <2> HIDE DEF a
  <2>1. a \in Addresses /\ n \in Nat /\ aged \in Heaps
    BY <1>1, <1>7, <1>10
  <2> QED BY <2>1, ReadAllIs
<1> HIDE DEF x, ws
<1>18. /\ Grown(aged, g, s, n, x)
       /\ \A i \in 1..n : Read(g, Offset(Top(h, s), i - 1)) = ws[i]
  <2>1. g = [WriteAll(Allocate(aged, s, n), Top(h, s), ws) EXCEPT !.objects = Append(@, x)]
    OBVIOUS
  <2>2. Len(ws) <= n
    BY <1>7, <1>17
  <2> HIDE DEF g
  <2>3. aged \in Heaps /\ s \in Spaces /\ n \in Nat /\ ws \in Seq(Words) /\ x \in Entries /\ x.at = Top(aged, s)
        /\ Top(h, s) = Top(aged, s) /\ Len(ws) = n
    BY <1>5, <1>7, <1>10, <1>15, <1>16, <1>17
  <2>4. /\ Grown(aged, g, s, n, x)
        /\ \A i \in 1..Len(ws) : Read(g, Offset(Top(h, s), i - 1)) = ws[i]
    <3>1. g = Filled(aged, s, n, ws, x)
      BY <2>1, <2>3 DEF Filled
    <3>2. Len(ws) <= n
      BY <2>2
    <3>3. Grown(aged, Filled(aged, s, n, ws, x), s, n, x)
          /\ \A i \in 1..Len(ws) : Read(Filled(aged, s, n, ws, x), Offset(Top(aged, s), i - 1)) = ws[i]
      BY <2>3, <3>2, FillIs
    <3> QED BY <2>3, <3>1, <3>3
  <2> QED BY <2>3, <2>4
<1> HIDE DEF g
<1>19. x.short => ShortContext(x)
  BY <1>6, <1>7, <1>11, <1>16 DEF ShortContext
<1>20. n >= Extent(x)
  <2> DEFINE l == Len(words)
  <2>1. l \in Nat /\ l >= 1 /\ n \in Nat /\ n >= 1 /\ x.short = (n < l) /\ Len(x.words) = l
    BY <1>7, <1>8, <1>11, <1>16
  <2> HIDE DEF l
  <2>2. CASE x.short
    BY <2>1, <2>2 DEF Extent
  <2>3. CASE ~x.short
    <3>1. ~(n < l)
      BY <2>1, <2>3
    <3>2. n >= l
      BY <2>1, <3>1
    <3> QED BY <2>1, <2>3, <3>2 DEF Extent
  <2> QED BY <2>2, <2>3
<1>21. ReadsOwn(aged, aged.objects[o])
  <2> SUFFICES ASSUME NEW i \in 1..Len(words) PROVE new[i] \in {Untouched, Read(aged, Offset(a, i - 1))}
    BY <1>10, <1>11 DEF ReadsOwn
  <2>1. i - 1 \in Int /\ a.i \in Int
    BY <1>1, <1>8 DEF Addresses
  <2>2. Offset(a, i - 1) \in Addresses /\ Offset(a, i - 1).space = a.space /\ Offset(a, i - 1).i = a.i + (i - 1)
    BY <1>1, <2>1, OffsetIs
  <2>3. Read(aged, Offset(a, i - 1)) = IF i = 1 THEN head ELSE Read(h, Offset(a, i - 1))
    <3>1. a.i + (i - 1) = a.i + 0 <=> i = 1
      BY <2>1
    <3> QED BY <1>9, <2>2, <3>1 DEF Stored
  <2>4. words[i] \in {Untouched, Read(h, Offset(a, i - 1))}
    <3>1. i \in DOMAIN words
      BY <1>1
    <3> QED BY <3>1 DEF ReadsOwn
  <2>5. i = 1 \/ i \in 2..Len(words)
    BY <1>8
  <2> QED BY <1>11, <2>3, <2>4, <2>5
<1>22. ReadsOwn(g, x) \/ ShortContext(x)
  <2> SUFFICES ASSUME ~x.short PROVE ReadsOwn(g, x)
    BY <1>19
  <2>1. n >= Len(words)
    <3> DEFINE l == Len(words)
    <3>1. l \in Nat /\ n \in Nat /\ ~(n < l)
      BY <1>7, <1>8, <1>16
    <3> HIDE DEF l
    <3>2. n >= l
      BY <3>1
    <3> QED BY <3>2 DEF l
  <2> SUFFICES ASSUME NEW i \in 1..Len(words) PROVE new[i] \in {Untouched, Read(g, Offset(Top(h, s), i - 1))}
    BY <1>11, <1>16 DEF ReadsOwn
  <2>2. i \in 1..n
    BY <1>7, <1>8, <2>1
  <2>3. Read(g, Offset(Top(h, s), i - 1)) = Read(aged, Offset(a, i - 1))
    BY <1>17, <1>18, <2>2
  <2>4. new[i] \in {Untouched, Read(aged, Offset(a, i - 1))}
    BY <1>10, <1>11, <1>21 DEF ReadsOwn
  <2> QED BY <2>3, <2>4
<1> DEFINE N == Len(h.objects)
<1>23. N \in Nat /\ DOMAIN h.objects = 1..N /\ o \in 1..N /\ DOMAIN aged.objects = 1..N /\ Len(aged.objects) = N
       /\ g.objects[N + 1] = x /\ DOMAIN g.objects = 1..(N + 1) /\ \A p \in 1..N : g.objects[p] = aged.objects[p]
  <2>1. h.objects \in Seq(Entries) /\ aged.objects \in Seq(Entries) /\ x \in Entries
        /\ g.objects = Append(aged.objects, x)
    BY <1>1, <1>10, <1>16, <1>18 DEF Heaps, Grown
  <2> QED BY <1>10, <2>1
<1>24. IsText(x) => Made(g, N + 1)
  <2> SUFFICES ASSUME IsText(x) PROVE Made(g, N + 1)
    OBVIOUS
  <2> HIDE DEF N
  <2> DEFINE y == aged.objects[o]
  <2>1. IsText(y) /\ Made(aged, o)
    BY <1>13, <1>16, <1>23 DEF GoodHeap, StructInv, IsText
  <2>2. x.words = y.words /\ x.text = y.text /\ o < N + 1 /\ o \in Int
    BY <1>10, <1>16, <1>23
  <2>3. x.words[3] = Num(Len(x.text))
    BY <2>1, <2>2 DEF Made
  <2>4. CASE Whole(y)
    BY <1>23, <2>2, <2>3, <2>4 DEF Made, Whole
  <2>5. CASE ~Whole(y) /\ y.words[5] = Nil
    <3>1. PICK m \in DOMAIN aged.objects : OfOne(aged, y, m)
      BY <2>1, <2>5 DEF Made
    <3>2. OfOne(g, x, m) /\ m \in DOMAIN g.objects
      BY <1>23, <2>2, <3>1 DEF OfOne
    <3> QED BY <1>23, <2>2, <2>3, <2>5, <3>2 DEF Made, Whole
  <2>6. CASE ~Whole(y) /\ y.words[5] # Nil
    <3>1. PICK l, r \in DOMAIN aged.objects : l < o /\ r < o /\ OfTwo(aged, y, l, r)
      BY <2>1, <2>6 DEF Made
    <3>2. OfTwo(g, x, l, r) /\ l \in DOMAIN g.objects /\ r \in DOMAIN g.objects
      <4>1. l \in 1..N /\ r \in 1..N
        BY <1>23, <3>1
      <4>2. g.objects[l] = aged.objects[l] /\ g.objects[r] = aged.objects[r] /\ l \in 1..(N + 1) /\ r \in 1..(N + 1)
        BY <1>23, <4>1
      <4> QED BY <1>23, <2>2, <3>1, <4>2 DEF OfTwo
    <3>3. l < N + 1 /\ r < N + 1
      BY <1>23, <3>1
    <3> QED BY <1>23, <2>2, <2>3, <2>6, <3>2, <3>3 DEF Made, Whole
  <2> QED BY <2>4, <2>5, <2>6
<1>25. right /\ IsText(x) /\ Whole(x) => Spelt(x)
  <2> SUFFICES ASSUME right, IsText(x), Whole(x) PROVE Spelt(x)
    OBVIOUS
  <2>1. Spelt(aged.objects[o])
    BY <1>10, <1>13, <1>16 DEF GoodHeap, SpeltInv, IsText, Whole
  <2> QED BY <1>10, <1>16, <2>1 DEF Spelt
<1>26. GoodHeap(g, right)
  BY <1>5, <1>7, <1>12, <1>13, <1>16, <1>18, <1>19, <1>20, <1>22, <1>23, <1>24, <1>25, GrownIsGood
<1>27. g.top = [h.top EXCEPT ![s] = @ + n]
  BY <1>10, <1>18 DEF Grown
<1>28. First(h, "tmp") => First(g, "tmp")
  <2>1. First(h, "tmp") => First(aged, "tmp")
    BY <1>9 DEF First, Stored
  <2>2. "tmp" \in Spaces
    BY DEF Spaces
  <2> QED BY <1>5, <1>7, <1>10, <1>18, <2>1, <2>2, GrownFirst
<1> QED BY <1>3, <1>5, <1>26, <1>27, <1>28 DEF n

(***************************************************************************)
(* Recursion over strings.                                                 *)
(***************************************************************************)

\* Induction by rank, over a set.
LEMMA ByRank ==
  ASSUME NEW A, NEW R \in [A -> Nat], NEW Q,
         \A a \in A : (\A b \in A : R[b] < R[a] => b \in Q) => a \in Q
  PROVE  A \subseteq Q
<1> DEFINE L == {ss \in Nat \X Nat : ss[1] < ss[2]}
           D == {R[a] : a \in A \ Q}
<1> SUFFICES ASSUME A \ Q # {} PROVE FALSE
  OBVIOUS
<1>1. IsWellFoundedOn(L, Nat)
  BY NatLessThanWellFounded DEF OpToRel
<1>2. D \subseteq Nat /\ D # {}
  OBVIOUS
<1>3. \E m \in D : \A n \in D : ~(<<n, m>> \in L)
  <2> HIDE DEF L, D
  <2> QED BY <1>1, <1>2, WFMin
<1>4. PICK a \in A \ Q : \A n \in D : ~(<<n, R[a]>> \in L)
  BY <1>3
<1>5. ASSUME NEW b \in A, R[b] < R[a] PROVE b \in Q
  <2> SUFFICES ASSUME b \notin Q PROVE FALSE
    OBVIOUS
  <2>1. R[b] \in D /\ R[b] \in Nat /\ R[a] \in Nat
    OBVIOUS
  <2> QED BY <1>4, <1>5, <2>1
<1> QED BY <1>4, <1>5

\* Each value is determined by those of lower rank.
Ranked(A, V, N, R, E) ==
  /\ V # {} /\ N \in Nat /\ R \in [A -> 0..N] /\ E \in [[A -> V] -> [A -> V]]
  /\ \A f, g \in [A -> V] : \A a \in A : (\A b \in A : R[b] < R[a] => f[b] = g[b]) => E[f][a] = E[g][a]

\* A recursive definition whose recursive uses are of lower rank has a solution.
LEMMA Solution ==
  ASSUME NEW A, NEW V, NEW N, NEW R, NEW E, Ranked(A, V, N, R, E)
  PROVE  \E f \in [A -> V] : f = E[f]
<1>0. V # {} /\ N \in Nat /\ R \in [A -> 0..N] /\ E \in [[A -> V] -> [A -> V]]
  BY DEF Ranked
<1> USE <1>0
<1> DEFINE Upto(n) == \E f \in [A -> V] : \A a \in A : R[a] < n => E[f][a] = f[a]
           Q == {n \in Nat : Upto(n)}
           id == [n \in Nat |-> n]
<1>1. ASSUME NEW n \in Nat, \A m \in Nat : id[m] < id[n] => m \in Q PROVE n \in Q
  <2>1. CASE n = 0
    <3>1. PICK v \in V : TRUE
      OBVIOUS
    <3>2. [a \in A |-> v] \in [A -> V]
      OBVIOUS
    <3>3. \A a \in A : ~(R[a] < 0)
      OBVIOUS
    <3> QED BY <2>1, <3>2, <3>3
  <2>2. CASE n # 0
    <3>1. n - 1 \in Nat /\ n - 1 < n
      BY <2>2
    <3>2. n - 1 \in Q
      BY <1>1, <3>1
    <3>3. PICK f \in [A -> V] : \A a \in A : R[a] < n - 1 => E[f][a] = f[a]
      BY <3>2
    <3> DEFINE g == E[f]
    <3>4. g \in [A -> V]
      OBVIOUS
    <3>5. ASSUME NEW a \in A, R[a] < n PROVE E[g][a] = g[a]
      <4>1. ASSUME NEW b \in A, R[b] < R[a] PROVE g[b] = f[b]
        <5>1. R[b] \in Int /\ R[a] \in Int
          OBVIOUS
        <5>2. R[b] < n - 1
          BY <3>5, <4>1, <5>1
        <5> QED BY <3>3, <5>2
      <4> QED BY <3>4, <4>1 DEF Ranked
    <3> HIDE DEF g
    <3> QED BY <3>4, <3>5
  <2> QED BY <2>1, <2>2
<1>2. Nat \subseteq Q
  <2>1. id \in [Nat -> Nat]
    OBVIOUS
  <2> HIDE DEF id, Q
  <2> QED BY <1>1, <2>1, ByRank
<1>3. N + 1 \in Q
  BY <1>2
<1>4. PICK f \in [A -> V] : \A a \in A : R[a] < N + 1 => E[f][a] = f[a]
  BY <1>3
<1>5. \A a \in A : E[f][a] = f[a]
  <2> SUFFICES ASSUME NEW a \in A PROVE R[a] < N + 1
    BY <1>4
  <2>1. R[a] \in 0..N
    OBVIOUS
  <2> QED BY <2>1
<1>6. E[f] \in [A -> V]
  OBVIOUS
<1>7. f = E[f]
  BY <1>5, <1>6
<1> QED BY <1>7

\* The string at an address, its text, and by what it is made of how far from characters.
Owner(h, a) == CHOOSE o \in DOMAIN h.objects : IsText(h.objects[o]) /\ h.objects[o].at = a

\* What was remembered as its text.
TextOf(h, a) == h.objects[Owner(h, a)].text

\* A string is made of strings of a lower rank.
Rank(h, a) ==
  LET x == h.objects[Owner(h, a)] IN IF Whole(x) THEN 0 ELSE IF x.words[5] = Nil THEN 1 ELSE 1 + Owner(h, a)

\* The ranks of all strings, for recursion on them.
Ranks(h) == [a \in Texts(h) |-> Rank(h, a)]

\* A string that another one is made of.
Half(h, a, b) == b \in Texts(h) /\ Rank(h, b) < Rank(h, a)

\* What is read of a string is what was remembered of it: its length, and what it is made of.
Legible(h, a) ==
  /\ TextOf(h, a) \in Seq(Letters) /\ Count(h, a) = Len(TextOf(h, a))
  /\ \/ Repr(h, a) = "Normal"
     \/ /\ Repr(h, a) # "Normal" /\ RightIsNil(h, a)
        /\ Half(h, a, Left(h, a)) /\ TextOf(h, Left(h, a)) = TextOf(h, a)
     \/ /\ Repr(h, a) # "Normal" /\ ~RightIsNil(h, a)
        /\ Half(h, a, Left(h, a)) /\ Half(h, a, Right(h, a))
        /\ TextOf(h, a) = TextOf(h, Left(h, a)) \o TextOf(h, Right(h, a))

\* No string lies where a short context lets it be overwritten.
AllRead(h) == \A o \in DOMAIN h.objects : IsText(h.objects[o]) => ReadsOwn(h, h.objects[o])

\* A string is the only one at its address.
LEMMA OwnerIs ==
  ASSUME NEW h, HeapInv(h), NEW o \in DOMAIN h.objects, IsText(h.objects[o])
  PROVE  h.objects[o].at \in Texts(h) /\ Owner(h, h.objects[o].at) = o
<1> DEFINE a == h.objects[o].at
<1>1. a \in Texts(h)
  BY DEF Texts, IsText
<1>2. ASSUME NEW p \in DOMAIN h.objects, h.objects[p].at = a PROVE p = o
  <2> SUFFICES ASSUME p # o PROVE FALSE
    OBVIOUS
  <2>1. Apart(h.objects[p], h.objects[o])
    BY DEF HeapInv, LayoutInv
  <2> QED BY <1>2, <2>1 DEF Apart
<1>3. Owner(h, a) \in DOMAIN h.objects /\ h.objects[Owner(h, a)].at = a
  BY DEF Owner
<1> QED BY <1>1, <1>2, <1>3

\* The address of a string is one of its own.
LEMMA OwnerOf ==
  ASSUME NEW h, HeapInv(h), NEW a \in Texts(h)
  PROVE  /\ Owner(h, a) \in DOMAIN h.objects /\ IsText(h.objects[Owner(h, a)])
         /\ h.objects[Owner(h, a)].at = a
BY DEF Owner, Texts, IsText

\* How far strings are from characters is bounded by their number.
LEMMA RanksIs ==
  ASSUME NEW h, HeapInv(h)
  PROVE  Ranks(h) \in [Texts(h) -> 0..(Len(h.objects) + 1)] /\ Len(h.objects) + 1 \in Nat
<1>1. h.objects \in Seq(Entries)
  BY DEF HeapInv, Heaps
<1>2. Len(h.objects) \in Nat /\ DOMAIN h.objects = 1..Len(h.objects)
  BY <1>1
<1>3. ASSUME NEW a \in Texts(h) PROVE Rank(h, a) \in 0..(Len(h.objects) + 1)
  <2>1. Owner(h, a) \in 1..Len(h.objects)
    BY <1>2, OwnerOf
  <2> QED BY <1>2, <2>1 DEF Rank
<1> QED BY <1>2, <1>3 DEF Ranks

\* Strings that read as written have halves that are nearer to characters, and their texts are joined of theirs.
LEMMA TextsAreLegible ==
  ASSUME NEW h, HeapInv(h), StructInv(h), AllRead(h), NEW a \in Texts(h)
  PROVE  Legible(h, a)
<1> DEFINE o == Owner(h, a)
           x == h.objects[o]
<1>1. o \in DOMAIN h.objects /\ IsText(x) /\ x.at = a /\ Made(h, o) /\ ReadsOwn(h, x)
  BY OwnerOf DEF StructInv, AllRead
<1>0. o \in Nat /\ o >= 1
  <2>1. h.objects \in Seq(Entries)
    BY DEF HeapInv, Heaps
  <2> QED BY <1>1, <2>1
<1> HIDE DEF o
<1>2. /\ Repr(h, a) = x.words[1].repr /\ Count(h, a) = Len(x.text)
      /\ ~Whole(x) => /\ (RightIsNil(h, a) <=> x.words[5] = Nil) /\ Left(h, a) = x.words[4].at
                      /\ x.words[5] # Nil => Right(h, a) = x.words[5].at
  BY <1>1, ReadText
<1>3. TextOf(h, a) = x.text /\ x.text \in Seq(Letters)
  BY <1>1, EntryOf DEF TextOf, o, HeapInv
<1>4. Rank(h, a) = IF Whole(x) THEN 0 ELSE IF x.words[5] = Nil THEN 1 ELSE 1 + o
  BY DEF Rank, o
<1>5. ASSUME NEW m \in DOMAIN h.objects, IsText(h.objects[m])
      PROVE  LET y == h.objects[m] IN
             /\ y.at \in Texts(h) /\ TextOf(h, y.at) = y.text
             /\ Rank(h, y.at) = IF Whole(y) THEN 0 ELSE IF y.words[5] = Nil THEN 1 ELSE 1 + m
  BY <1>5, OwnerIs DEF TextOf, Rank
<1>6. CASE Whole(x)
  BY <1>2, <1>3, <1>6 DEF Legible, Whole
<1>7. CASE ~Whole(x) /\ x.words[5] = Nil
  <2>1. PICK m \in DOMAIN h.objects : OfOne(h, x, m)
    BY <1>1, <1>7 DEF Made
  <2> DEFINE b == h.objects[m].at
  <2>2. IsText(h.objects[m]) /\ Whole(h.objects[m]) /\ x.words[4] = Ref(b) /\ x.text = h.objects[m].text
    BY <2>1 DEF OfOne
  <2>3. Left(h, a) = b /\ RightIsNil(h, a) /\ Repr(h, a) # "Normal"
    BY <1>2, <1>7, <2>2, WordsDiffer DEF Whole
  <2>4. b \in Texts(h) /\ TextOf(h, b) = x.text /\ Rank(h, b) = 0
    BY <1>5, <2>2
  <2>5. Half(h, a, b)
    BY <1>4, <1>7, <2>4 DEF Half
  <2> QED BY <1>2, <1>3, <2>3, <2>4, <2>5 DEF Legible
<1>8. CASE ~Whole(x) /\ x.words[5] # Nil
  <2>1. PICK l, r \in DOMAIN h.objects : l < o /\ r < o /\ OfTwo(h, x, l, r)
    BY <1>1, <1>8 DEF Made
  <2> DEFINE b == h.objects[l].at
             c == h.objects[r].at
  <2>2. IsText(h.objects[l]) /\ IsText(h.objects[r]) /\ x.words[4] = Ref(b) /\ x.words[5] = Ref(c)
        /\ x.text = h.objects[l].text \o h.objects[r].text
    BY <2>1 DEF OfTwo
  <2>3. Left(h, a) = b /\ Right(h, a) = c /\ ~RightIsNil(h, a) /\ Repr(h, a) # "Normal"
    BY <1>2, <1>8, <2>2, WordsDiffer DEF Whole
  <2>4. b \in Texts(h) /\ TextOf(h, b) = h.objects[l].text /\ c \in Texts(h) /\ TextOf(h, c) = h.objects[r].text
    BY <1>5, <2>2
  <2>5. Rank(h, b) \in {0, 1, 1 + l} /\ Rank(h, c) \in {0, 1, 1 + r}
    BY <1>5, <2>2
  <2>6. l \in Nat /\ r \in Nat
    <3>1. h.objects \in Seq(Entries)
      BY DEF HeapInv, Heaps
    <3> QED BY <3>1
  <2>7. Rank(h, a) = 1 + o
    BY <1>4, <1>8
  <2>8. Half(h, a, b) /\ Half(h, a, c)
    BY <1>0, <2>1, <2>4, <2>5, <2>6, <2>7 DEF Half
  <2> QED BY <1>2, <1>3, <2>2, <2>3, <2>4, <2>8 DEF Legible
<1> QED BY <1>6, <1>7, <1>8

(***************************************************************************)
(* The recursive definitions.                                              *)
(***************************************************************************)

\* All strings are legible.
Lettered(h) == HeapInv(h) /\ \A a \in Texts(h) : Legible(h, a)

\* What the recursive definitions on strings say of one string.
TextOne(h, f, a) ==
  IF Repr(h, a) = "Normal" THEN [i \in 1..Count(h, a) |-> Read(h, Offset(a, 2 + i))]
  ELSE f[Left(h, a)] \o (IF RightIsNil(h, a) THEN <<>> ELSE f[Right(h, a)])

\* By how many words flatten_cons says a string to end before it does.
ShortOne(h, f, a) ==
  IF Repr(h, a) = "Normal" THEN 0
  ELSE IF RightIsNil(h, a) THEN f[Left(h, a)]
  ELSE f[Left(h, a)]
         + (IF Count(h, Left(h, a)) > Count(h, Right(h, a)) THEN Count(h, Right(h, a)) ELSE f[Right(h, a)])

\* Whether a half of it is written too early.
MisplacedOne(h, f, a) ==
  /\ Repr(h, a) # "Normal"
  /\ \/ f[Left(h, a)]
     \/ /\ ~RightIsNil(h, a)
        /\ \/ f[Right(h, a)]
           \/ /\ Count(h, Left(h, a)) <= Count(h, Right(h, a))
              /\ EndsShort(h)[Left(h, a)] > 0

\* What flatten_cons writes at a place of the buffer, and where it says that ends.
FlatOne(h, f, a) ==
  [buffer \in Nat |->
    IF Repr(h, a) = "Normal" THEN Moved(h, a, buffer)
    ELSE IF RightIsNil(h, a) THEN f[Left(h, a)][buffer]
    ELSE IF Count(h, Left(h, a)) > Count(h, Right(h, a))
    THEN Then(f[Right(h, a)][buffer + Count(h, Left(h, a))], f[Left(h, a)][buffer])
    ELSE LET left == f[Left(h, a)][buffer]
         IN Then(left, f[Right(h, a)][left.end])]

\* Strings have addresses.
LEMMA TextsAddresses ==
  ASSUME NEW h, HeapInv(h), NEW a \in Texts(h)
  PROVE  a \in Addresses
<1>1. PICK o \in DOMAIN h.objects : a = h.objects[o].at
  BY DEF Texts
<1> QED BY <1>1, EntryOf DEF HeapInv

\* The halves of a string are strings of lower rank.
LEMMA Halves ==
  ASSUME NEW h, Lettered(h), NEW a \in Texts(h)
  PROVE  /\ Count(h, a) \in Nat /\ Ranks(h)[a] = Rank(h, a)
         /\ Repr(h, a) # "Normal" =>
              Left(h, a) \in Texts(h) /\ Ranks(h)[Left(h, a)] < Ranks(h)[a] /\ Count(h, Left(h, a)) \in Nat
         /\ Repr(h, a) # "Normal" /\ ~RightIsNil(h, a) =>
              Right(h, a) \in Texts(h) /\ Ranks(h)[Right(h, a)] < Ranks(h)[a] /\ Count(h, Right(h, a)) \in Nat
<1>1. ASSUME NEW b \in Texts(h) PROVE Count(h, b) \in Nat /\ Ranks(h)[b] = Rank(h, b) /\ Legible(h, b)
  <2>1. TextOf(h, b) \in Seq(Letters) /\ Count(h, b) = Len(TextOf(h, b)) /\ Legible(h, b)
    BY DEF Lettered, Legible
  <2> QED BY <2>1 DEF Ranks
<1>2. Repr(h, a) # "Normal" => Half(h, a, Left(h, a))
  BY <1>1 DEF Legible
<1>3. Repr(h, a) # "Normal" /\ ~RightIsNil(h, a) => Half(h, a, Right(h, a))
  BY <1>1 DEF Legible
<1> QED BY <1>1, <1>2, <1>3 DEF Half

\* TextAt is a solution of its equation: its recursive uses are of lower rank.
LEMMA TextAtIs ==
  ASSUME NEW h, Lettered(h)
  PROVE  TextAt(h) = [a \in Texts(h) |-> TextOne(h, TextAt(h), a)]
<1> DEFINE A == Texts(h)
           V == Seq(Words)
           E == [f \in [A -> V] |-> [a \in A |-> TextOne(h, f, a)]]
           N == Len(h.objects) + 1
<1>1. HeapInv(h) /\ h \in Heaps /\ N \in Nat /\ Ranks(h) \in [A -> 0..N] /\ V # {}
  <2>1. <<>> \in V
    OBVIOUS
  <2> QED BY <2>1, RanksIs DEF Lettered, HeapInv
<1>2. ASSUME NEW f \in [A -> V], NEW a \in A PROVE TextOne(h, f, a) \in V
  <2>1. Count(h, a) \in Nat
    BY Halves
  <2>2. CASE Repr(h, a) = "Normal"
    <3>1. ASSUME NEW i \in 1..Count(h, a) PROVE Read(h, Offset(a, 2 + i)) \in Words
      <4>1. a \in Addresses /\ 2 + i \in Int
        BY <1>1, <2>1, TextsAddresses
      <4> QED BY <1>1, <4>1, OffsetIs, ReadsWord
    <3>2. [i \in 1..Count(h, a) |-> Read(h, Offset(a, 2 + i))] \in [1..Count(h, a) -> Words]
      BY <3>1
    <3>3. [i \in 1..Count(h, a) |-> Read(h, Offset(a, 2 + i))] \in V
      <4> DEFINE n == Count(h, a)
                 s == [i \in 1..n |-> Read(h, Offset(a, 2 + i))]
      <4>1. n \in Nat /\ s \in [1..n -> Words]
        BY <2>1, <3>2
      <4> HIDE DEF n, s
      <4>2. s \in Seq(Words)
        BY <4>1
      <4> QED BY <4>2 DEF n, s
    <3> QED BY <2>2, <3>3 DEF TextOne
  <2>3. CASE Repr(h, a) # "Normal"
    <3> DEFINE u == f[Left(h, a)]
               v == IF RightIsNil(h, a) THEN <<>> ELSE f[Right(h, a)]
    <3>1. u \in V /\ v \in V
      <4>1. u \in V
        BY <2>3, Halves
      <4>2. ~RightIsNil(h, a) => f[Right(h, a)] \in V
        BY <2>3, Halves
      <4>3. <<>> \in V
        OBVIOUS
      <4> QED BY <4>1, <4>2, <4>3
    <3> HIDE DEF u, v
    <3>2. u \o v \in V
      BY <3>1
    <3> QED BY <2>3, <3>2 DEF TextOne, u, v
  <2> QED BY <2>2, <2>3
<1>3. E \in [[A -> V] -> [A -> V]]
  BY <1>2
<1>4. ASSUME NEW f \in [A -> V], NEW g \in [A -> V], NEW a \in A,
             \A b \in A : Ranks(h)[b] < Ranks(h)[a] => f[b] = g[b]
      PROVE  E[f][a] = E[g][a]
  <2>1. Repr(h, a) # "Normal" => f[Left(h, a)] = g[Left(h, a)]
    BY <1>4, Halves
  <2>2. Repr(h, a) # "Normal" /\ ~RightIsNil(h, a) => f[Right(h, a)] = g[Right(h, a)]
    BY <1>4, Halves
  <2>3. TextOne(h, f, a) = TextOne(h, g, a)
    BY <2>1, <2>2 DEF TextOne
  <2> QED BY <2>3
<1>5. \A f \in [A -> V] : E[f] = [a \in A |-> TextOne(h, f, a)]
  OBVIOUS
<1>6. \E f \in [A -> V] : f = E[f]
  <2>1. Ranked(A, V, N, Ranks(h), E)
    <3> HIDE DEF E, A, V, N
    <3> QED BY <1>1, <1>3, <1>4 DEF Ranked
  <2> HIDE DEF E, A, V, N
  <2> QED BY <2>1, Solution
<1>7. \E f : f = [a \in A |-> TextOne(h, f, a)]
  BY <1>5, <1>6
<1>8. TextAt(h) = CHOOSE f : f = [a \in A |-> TextOne(h, f, a)]
  BY Zenon DEF TextAt, TextOne
<1> QED BY <1>7, <1>8

\* EndsShort is a solution of its equation.
LEMMA EndsShortIs ==
  ASSUME NEW h, Lettered(h)
  PROVE  EndsShort(h) = [a \in Texts(h) |-> ShortOne(h, EndsShort(h), a)]
<1> DEFINE A == Texts(h)
           V == Nat
           E == [f \in [A -> V] |-> [a \in A |-> ShortOne(h, f, a)]]
           N == Len(h.objects) + 1
<1>1. N \in Nat /\ Ranks(h) \in [A -> 0..N] /\ V # {}
  BY RanksIs DEF Lettered
<1>2. ASSUME NEW f \in [A -> V], NEW a \in A PROVE ShortOne(h, f, a) \in V
  <2>1. CASE Repr(h, a) = "Normal"
    BY <2>1 DEF ShortOne
  <2>2. CASE Repr(h, a) # "Normal"
    <3>1. f[Left(h, a)] \in Nat
      BY <2>2, Halves
    <3>2. ~RightIsNil(h, a) => f[Right(h, a)] \in Nat /\ Count(h, Right(h, a)) \in Nat
      BY <2>2, Halves
    <3> QED BY <2>2, <3>1, <3>2 DEF ShortOne
  <2> QED BY <2>1, <2>2
<1>3. E \in [[A -> V] -> [A -> V]]
  BY <1>2
<1>4. ASSUME NEW f \in [A -> V], NEW g \in [A -> V], NEW a \in A,
             \A b \in A : Ranks(h)[b] < Ranks(h)[a] => f[b] = g[b]
      PROVE  E[f][a] = E[g][a]
  <2>1. Repr(h, a) # "Normal" => f[Left(h, a)] = g[Left(h, a)]
    BY <1>4, Halves
  <2>2. Repr(h, a) # "Normal" /\ ~RightIsNil(h, a) => f[Right(h, a)] = g[Right(h, a)]
    BY <1>4, Halves
  <2>3. ShortOne(h, f, a) = ShortOne(h, g, a)
    BY <2>1, <2>2 DEF ShortOne
  <2> QED BY <2>3
<1>5. \A f \in [A -> V] : E[f] = [a \in A |-> ShortOne(h, f, a)]
  OBVIOUS
<1>6. \E f \in [A -> V] : f = E[f]
  <2>1. Ranked(A, V, N, Ranks(h), E)
    <3> HIDE DEF E, A, V, N
    <3> QED BY <1>1, <1>3, <1>4 DEF Ranked
  <2> HIDE DEF E, A, V, N
  <2> QED BY <2>1, Solution
<1>7. \E f : f = [a \in A |-> ShortOne(h, f, a)]
  BY <1>5, <1>6
<1>8. EndsShort(h) = CHOOSE f : f = [a \in A |-> ShortOne(h, f, a)]
  BY Zenon DEF EndsShort, ShortOne
<1> QED BY <1>7, <1>8

\* Misplaced is a solution of its equation.
LEMMA MisplacedIs ==
  ASSUME NEW h, Lettered(h)
  PROVE  Misplaced(h) = [a \in Texts(h) |-> MisplacedOne(h, Misplaced(h), a)]
<1> DEFINE A == Texts(h)
           V == BOOLEAN
           E == [f \in [A -> V] |-> [a \in A |-> MisplacedOne(h, f, a)]]
           N == Len(h.objects) + 1
<1>1. N \in Nat /\ Ranks(h) \in [A -> 0..N] /\ V # {}
  BY RanksIs DEF Lettered
<1>2. ASSUME NEW f \in [A -> V], NEW a \in A PROVE MisplacedOne(h, f, a) \in V
  BY DEF MisplacedOne
<1>3. E \in [[A -> V] -> [A -> V]]
  BY <1>2
<1>4. ASSUME NEW f \in [A -> V], NEW g \in [A -> V], NEW a \in A,
             \A b \in A : Ranks(h)[b] < Ranks(h)[a] => f[b] = g[b]
      PROVE  E[f][a] = E[g][a]
  <2>1. Repr(h, a) # "Normal" => f[Left(h, a)] = g[Left(h, a)]
    BY <1>4, Halves
  <2>2. Repr(h, a) # "Normal" /\ ~RightIsNil(h, a) => f[Right(h, a)] = g[Right(h, a)]
    BY <1>4, Halves
  <2>3. MisplacedOne(h, f, a) = MisplacedOne(h, g, a)
    BY <2>1, <2>2 DEF MisplacedOne
  <2> QED BY <2>3
<1>5. \A f \in [A -> V] : E[f] = [a \in A |-> MisplacedOne(h, f, a)]
  OBVIOUS
<1>6. \E f \in [A -> V] : f = E[f]
  <2>1. Ranked(A, V, N, Ranks(h), E)
    <3> HIDE DEF E, A, V, N
    <3> QED BY <1>1, <1>3, <1>4 DEF Ranked
  <2> HIDE DEF E, A, V, N
  <2> QED BY <2>1, Solution
<1>7. \E f : f = [a \in A |-> MisplacedOne(h, f, a)]
  BY <1>5, <1>6
<1>8. Misplaced(h) = CHOOSE f : f = [a \in A |-> MisplacedOne(h, f, a)]
  BY Zenon DEF Misplaced, MisplacedOne
<1> QED BY <1>7, <1>8

\* Words laid over others.
LEMMA OverMemories ==
  ASSUME NEW f \in Memories, NEW g \in Memories
  PROVE  /\ Over(f, g) \in Memories /\ DOMAIN Over(f, g) = DOMAIN f \cup DOMAIN g
         /\ \A i \in DOMAIN f \cup DOMAIN g : Over(f, g)[i] = IF i \in DOMAIN f THEN f[i] ELSE g[i]
<1>1. PICK D \in SUBSET Int : f \in [D -> Words]
  BY DEF Memories
<1>2. PICK E \in SUBSET Int : g \in [E -> Words]
  BY DEF Memories
<1>3. Over(f, g) = [x \in D \cup E |-> IF x \in D THEN f[x] ELSE g[x]]
  BY <1>1, <1>2 DEF Over
<1>4. Over(f, g) \in [D \cup E -> Words]
  BY <1>1, <1>2, <1>3
<1>5. Over(f, g) \in Memories
  BY <1>4 DEF Memories
<1> QED BY <1>1, <1>2, <1>3, <1>5

\* Characters by their place, and where they are said to end.
Runs == [chars : Memories, end : Nat]

\* Characters written after others.
LEMMA ThenIs ==
  ASSUME NEW first \in Runs, NEW second \in Runs
  PROVE  Then(first, second) \in Runs
BY OverMemories DEF Then, Runs

\* The characters of a flat string, moved.
LEMMA MovedIs ==
  ASSUME NEW h, Lettered(h), NEW a \in Texts(h), NEW buffer \in Nat
  PROVE  Moved(h, a, buffer) \in Runs
<1> DEFINE n == Count(h, a)
           D == buffer..(buffer + n - 1)
           f == [i \in D |-> Read(h, Offset(a, 3 + i - buffer))]
<1>1. n \in Nat /\ a \in Addresses /\ h \in Heaps
  BY Halves, TextsAddresses DEF Lettered, HeapInv
<1>2. D \in SUBSET Int
  BY <1>1
<1>3. ASSUME NEW i \in D PROVE Read(h, Offset(a, 3 + i - buffer)) \in Words
  <2>1. 3 + i - buffer \in Int
    BY <1>2
  <2> QED BY <1>1, <2>1, OffsetIs, ReadsWord
<1>4. f \in [D -> Words]
  BY <1>3
<1>5. f \in Memories
  BY <1>2, <1>4 DEF Memories
<1>6. Moved(h, a, buffer) = [chars |-> f, end |-> buffer + n]
  BY DEF Moved
<1> HIDE DEF f, n
<1> QED BY <1>1, <1>5, <1>6 DEF Runs

\* Flatten is a solution of its equation.
LEMMA FlattenIs ==
  ASSUME NEW h, Lettered(h)
  PROVE  Flatten(h) = [a \in Texts(h) |-> FlatOne(h, Flatten(h), a)]
<1> DEFINE A == Texts(h)
           V == [Nat -> Runs]
           E == [f \in [A -> V] |-> [a \in A |-> FlatOne(h, f, a)]]
           N == Len(h.objects) + 1
<1>1. HeapInv(h) /\ h \in Heaps /\ N \in Nat /\ Ranks(h) \in [A -> 0..N]
  BY RanksIs DEF Lettered, HeapInv
<1>0. V # {}
  <2>1. [x \in {} |-> Nil] \in [{} -> Words]
    OBVIOUS
  <2>2. [x \in {} |-> Nil] \in Memories
    BY <2>1 DEF Memories
  <2>3. [chars |-> [x \in {} |-> Nil], end |-> 0] \in Runs
    BY <2>2 DEF Runs
  <2>4. [n \in Nat |-> [chars |-> [x \in {} |-> Nil], end |-> 0]] \in V
    BY <2>3
  <2> QED BY <2>4
<1>2. ASSUME NEW f \in [A -> V], NEW a \in A PROVE FlatOne(h, f, a) \in V
  <2> DEFINE F(buffer) ==
               IF Repr(h, a) = "Normal" THEN Moved(h, a, buffer)
               ELSE IF RightIsNil(h, a) THEN f[Left(h, a)][buffer]
               ELSE IF Count(h, Left(h, a)) > Count(h, Right(h, a))
               THEN Then(f[Right(h, a)][buffer + Count(h, Left(h, a))], f[Left(h, a)][buffer])
               ELSE Then(f[Left(h, a)][buffer], f[Right(h, a)][f[Left(h, a)][buffer].end])
  <2>1. FlatOne(h, f, a) = [buffer \in Nat |-> F(buffer)]
    BY DEF FlatOne
  <2>2. ASSUME NEW buffer \in Nat PROVE F(buffer) \in Runs
    <3>1. CASE Repr(h, a) = "Normal"
      <4>1. Moved(h, a, buffer) \in Runs
        BY <1>1, MovedIs
      <4> QED BY <3>1, <4>1
    <3>2. CASE Repr(h, a) # "Normal" /\ RightIsNil(h, a)
      <4>1. f[Left(h, a)] \in V
        BY <3>2, Halves
      <4> QED BY <3>2, <4>1
    <3>3. CASE Repr(h, a) # "Normal" /\ ~RightIsNil(h, a)
      <4> DEFINE l == f[Left(h, a)]
                 r == f[Right(h, a)]
                 m == Count(h, Left(h, a))
      <4>1. l \in V /\ r \in V /\ m \in Nat
        BY <3>3, Halves
      <4> HIDE DEF l, r, m
      <4>2. l[buffer] \in Runs /\ l[buffer].end \in Nat /\ buffer + m \in Nat
        BY <4>1 DEF Runs
      <4>3. r[buffer + m] \in Runs /\ r[l[buffer].end] \in Runs
        BY <4>1, <4>2
      <4>4. Then(r[buffer + m], l[buffer]) \in Runs /\ Then(l[buffer], r[l[buffer].end]) \in Runs
        BY <4>2, <4>3, ThenIs
      <4>5. F(buffer) = Then(r[buffer + m], l[buffer]) \/ F(buffer) = Then(l[buffer], r[l[buffer].end])
        BY <3>3 DEF l, r, m
      <4> HIDE DEF F
      <4> QED BY <4>4, <4>5
    <3> QED BY <3>1, <3>2, <3>3
  <2> HIDE DEF F
  <2> QED BY <2>1, <2>2
<1>3. E \in [[A -> V] -> [A -> V]]
  BY <1>2
<1>4. ASSUME NEW f \in [A -> V], NEW g \in [A -> V], NEW a \in A,
             \A b \in A : Ranks(h)[b] < Ranks(h)[a] => f[b] = g[b]
      PROVE  E[f][a] = E[g][a]
  <2>1. Repr(h, a) # "Normal" => f[Left(h, a)] = g[Left(h, a)]
    BY <1>4, Halves
  <2>2. Repr(h, a) # "Normal" /\ ~RightIsNil(h, a) => f[Right(h, a)] = g[Right(h, a)]
    BY <1>4, Halves
  <2>3. FlatOne(h, f, a) = FlatOne(h, g, a)
    BY <2>1, <2>2 DEF FlatOne
  <2> QED BY <2>3
<1>5. \A f \in [A -> V] : E[f] = [a \in A |-> FlatOne(h, f, a)]
  OBVIOUS
<1>6. \E f \in [A -> V] : f = E[f]
  <2>1. Ranked(A, V, N, Ranks(h), E)
    <3> HIDE DEF E, A, V, N
    <3> QED BY <1>0, <1>1, <1>3, <1>4 DEF Ranked
  <2> HIDE DEF E, A, V, N
  <2> QED BY <2>1, Solution
<1>7. \E f : f = [a \in A |-> FlatOne(h, f, a)]
  BY <1>5, <1>6
<1>8. Flatten(h) = CHOOSE f : f = [a \in A |-> FlatOne(h, f, a)]
  BY Zenon DEF Flatten, FlatOne
<1> QED BY <1>7, <1>8

(***************************************************************************)
(* Where characters are put.                                               *)
(***************************************************************************)

\* The characters of two texts joined.
LEMMA CharsCat ==
  ASSUME NEW u \in Seq(Letters), NEW v \in Seq(Letters)
  PROVE  Chars(u \o v) = Chars(u) \o Chars(v)
<1> DEFINE x == Chars(u)
           y == Chars(v)
           z == Chars(u \o v)
           m == Len(u)
           n == Len(v)
<1>1. u \o v \in Seq(Letters) /\ Len(u \o v) = m + n /\ m \in Nat /\ n \in Nat
  OBVIOUS
<1>2. x \in Seq(Words) /\ Len(x) = m /\ (\A i \in 1..m : x[i] = Char(u[i]))
  BY CharsIs
<1>3. y \in Seq(Words) /\ Len(y) = n /\ (\A i \in 1..n : y[i] = Char(v[i]))
  BY CharsIs
<1>4. z \in Seq(Words) /\ Len(z) = m + n /\ (\A i \in 1..(m + n) : z[i] = Char((u \o v)[i]))
  BY <1>1, CharsIs
<1>5. ASSUME NEW i \in 1..(m + n) PROVE z[i] = (x \o y)[i]
  <2>1. CASE i <= m
    <3>1. (u \o v)[i] = u[i] /\ i \in 1..m
      BY <1>1, <2>1
    <3>2. (x \o y)[i] = x[i]
      <4> HIDE DEF x, y, m, n
      <4> QED BY <1>1, <1>2, <1>3, <3>1
    <3> QED BY <1>2, <1>4, <3>1, <3>2
  <2>2. CASE i > m
    <3>1. (u \o v)[i] = v[i - m] /\ i - m \in 1..n
      BY <1>1, <2>2
    <3>2. (x \o y)[i] = y[i - m]
      <4> HIDE DEF x, y, m, n
      <4> QED BY <1>1, <1>2, <1>3, <2>2
    <3> QED BY <1>3, <1>4, <3>1, <3>2
  <2>3. i <= m \/ i > m
    <3> HIDE DEF m, n
    <3> QED BY <1>1
  <2> HIDE DEF x, y, z
  <2> QED BY <2>1, <2>2, <2>3
<1> HIDE DEF x, y, z, m, n
<1>6. z = x \o y
  <2>1. x \o y \in Seq(Words) /\ Len(x \o y) = m + n
    BY <1>1, <1>2, <1>3, CatIs
  <2>2. DOMAIN z = 1..(m + n) /\ DOMAIN (x \o y) = 1..(m + n)
    BY <1>1, <1>4, <2>1
  <2> QED BY <1>4, <1>5, <2>1, <2>2
<1> QED BY <1>6 DEF x, y, z

\* The characters of the strings that are not made of others can be read.
SpeltOut(h, g) ==
  \A a \in Texts(h) : Repr(h, a) = "Normal" =>
    \A i \in 1..Count(h, a) : Read(g, Offset(a, 2 + i)) = Char(TextOf(h, a)[i])

\* Where the characters of all flat strings can be read, so can the text of every string.
LEMMA TextComesOut ==
  ASSUME NEW h, Lettered(h), SpeltOut(h, h), NEW a \in Texts(h)
  PROVE  TextAt(h)[a] = Chars(TextOf(h, a))
<1> DEFINE A == Texts(h)
           R == Ranks(h)
           Q == {c \in A : TextAt(h)[c] = Chars(TextOf(h, c))}
<1>1. R \in [A -> Nat]
  BY RanksIs DEF Lettered
<1>2. ASSUME NEW c \in A, \A b \in A : R[b] < R[c] => b \in Q PROVE c \in Q
  <2>1. Legible(h, c) /\ TextAt(h)[c] = TextOne(h, TextAt(h), c)
    BY TextAtIs DEF Lettered
  <2>2. TextOf(h, c) \in Seq(Letters) /\ Count(h, c) = Len(TextOf(h, c))
    BY <2>1 DEF Legible
  <2>3. CASE Repr(h, c) = "Normal"
    <3> DEFINE n == Count(h, c)
               s == [i \in 1..n |-> Read(h, Offset(c, 2 + i))]
    <3>1. TextAt(h)[c] = s
      BY <2>1, <2>3 DEF TextOne
    <3>2. \A i \in 1..n : s[i] = Char(TextOf(h, c)[i])
      BY <2>3 DEF SpeltOut
    <3>3. Chars(TextOf(h, c)) = [i \in 1..n |-> Char(TextOf(h, c)[i])]
      BY <2>2 DEF Chars
    <3> QED BY <3>1, <3>2, <3>3
  <2>4. CASE Repr(h, c) # "Normal" /\ RightIsNil(h, c)
    <3>1. Left(h, c) \in Q /\ TextOf(h, Left(h, c)) = TextOf(h, c)
      BY <1>2, <2>1, <2>4, Halves DEF Legible
    <3>2. Chars(TextOf(h, c)) \in Seq(Words)
      BY <2>2, CharsIs
    <3>3. Chars(TextOf(h, c)) \o <<>> = Chars(TextOf(h, c))
      BY <3>2
    <3> QED BY <2>1, <2>4, <3>1, <3>3 DEF TextOne
  <2>5. CASE Repr(h, c) # "Normal" /\ ~RightIsNil(h, c)
    <3>1. Left(h, c) \in Q /\ Right(h, c) \in Q
      BY <1>2, <2>5, Halves
    <3>2. TextOf(h, c) = TextOf(h, Left(h, c)) \o TextOf(h, Right(h, c))
      BY <2>1, <2>5 DEF Legible
    <3>3. TextOf(h, Left(h, c)) \in Seq(Letters) /\ TextOf(h, Right(h, c)) \in Seq(Letters)
      BY <3>1 DEF Lettered, Legible
    <3> QED BY <2>1, <2>5, <3>1, <3>2, <3>3, CharsCat DEF TextOne
  <2> QED BY <2>3, <2>4, <2>5
<1>3. A \subseteq Q
  <2> HIDE DEF A, R, Q
  <2> QED BY <1>1, <1>2, ByRank
<1> QED BY <1>3

\* What flatten_cons makes of a text from b on: where it ends, and which characters are there.
Placed(run, b, text, short, bad) ==
  /\ run \in Runs /\ short \in 0..Len(text) /\ run.end = b + Len(text) - short
  /\ \A p \in DOMAIN run.chars : b <= p /\ p < b + Len(text)
  /\ ~bad => \A i \in 1..Len(text) : b + i - 1 \in DOMAIN run.chars /\ run.chars[b + i - 1] = Char(text[i])
  /\ bad => \E i \in 1..Len(text) : b + i - 1 \notin DOMAIN run.chars

\* What is where two runs of characters are written one after the other.
LEMMA ThenAt ==
  ASSUME NEW first \in Runs, NEW second \in Runs
  PROVE  /\ Then(first, second) \in Runs /\ Then(first, second).end = second.end
         /\ DOMAIN Then(first, second).chars = DOMAIN first.chars \cup DOMAIN second.chars
         /\ \A p \in DOMAIN second.chars : Then(first, second).chars[p] = second.chars[p]
         /\ \A p \in DOMAIN first.chars :
              p \notin DOMAIN second.chars => Then(first, second).chars[p] = first.chars[p]
<1>1. first.chars \in Memories /\ second.chars \in Memories
  BY DEF Runs
<1>2. Then(first, second).chars = Over(second.chars, first.chars) /\ Then(first, second).end = second.end
  BY DEF Then
<1> DEFINE f == first.chars
           g == second.chars
<1>3. Over(g, f) \in Memories /\ DOMAIN Over(g, f) = DOMAIN g \cup DOMAIN f
      /\ \A i \in DOMAIN g \cup DOMAIN f : Over(g, f)[i] = IF i \in DOMAIN g THEN g[i] ELSE f[i]
  BY <1>1, OverMemories, ZenonT(30)
<1>4. Then(first, second) \in Runs
  BY ThenIs
<1> HIDE DEF f, g
<1>5. \A p \in DOMAIN g : Over(g, f)[p] = g[p]
  BY <1>3
<1>6. \A p \in DOMAIN f : p \notin DOMAIN g => Over(g, f)[p] = f[p]
  BY <1>3
<1> QED BY <1>2, <1>3, <1>4, <1>5, <1>6 DEF f, g

\* Two texts joined.
LEMMA TextsCat ==
  ASSUME NEW u \in Seq(Letters), NEW v \in Seq(Letters), NEW m, NEW n, m = Len(u), n = Len(v)
  PROVE  /\ u \o v \in Seq(Letters) /\ Len(u \o v) = m + n /\ m \in Nat /\ n \in Nat
         /\ \A i \in 1..m : (u \o v)[i] = u[i]
         /\ \A i \in (m + 1)..(m + n) : (u \o v)[i] = v[i - m] /\ i - m \in 1..n
OBVIOUS

\* flatten_cons with a left half that is longer: the right one is written behind it, by its length, and the left
\* one then; the end returned is that of the left half.
LEMMA LongerFirst ==
  ASSUME NEW u \in Seq(Letters), NEW v \in Seq(Letters), NEW b \in Nat, NEW left, NEW right,
         NEW su, NEW sv, NEW bu \in BOOLEAN, NEW bv \in BOOLEAN,
         Placed(left, b, u, su, bu), Placed(right, b + Len(u), v, sv, bv)
  PROVE  Placed(Then(right, left), b, u \o v, su + Len(v), bu \/ bv)
<1> DEFINE m == Len(u)
           n == Len(v)
           t == u \o v
           run == Then(right, left)
<1>1. t \in Seq(Letters) /\ Len(t) = m + n /\ m \in Nat /\ n \in Nat
      /\ (\A i \in 1..m : t[i] = u[i]) /\ (\A i \in (m + 1)..(m + n) : t[i] = v[i - m] /\ i - m \in 1..n)
  BY TextsCat
<1>2. left \in Runs /\ right \in Runs /\ su \in 0..m /\ left.end = b + m - su
      /\ (\A p \in DOMAIN left.chars : b <= p /\ p < b + m)
      /\ (\A p \in DOMAIN right.chars : b + m <= p /\ p < b + m + n)
      /\ (~bu => \A i \in 1..m : b + i - 1 \in DOMAIN left.chars /\ left.chars[b + i - 1] = Char(u[i]))
      /\ (bu => \E i \in 1..m : b + i - 1 \notin DOMAIN left.chars)
      /\ (~bv => \A i \in 1..n : b + m + i - 1 \in DOMAIN right.chars /\ right.chars[b + m + i - 1] = Char(v[i]))
      /\ (bv => \E i \in 1..n : b + m + i - 1 \notin DOMAIN right.chars)
  BY DEF Placed
<1>3. /\ run \in Runs /\ run.end = left.end /\ DOMAIN run.chars = DOMAIN right.chars \cup DOMAIN left.chars
      /\ \A p \in DOMAIN left.chars : run.chars[p] = left.chars[p]
      /\ \A p \in DOMAIN right.chars : p \notin DOMAIN left.chars => run.chars[p] = right.chars[p]
  BY <1>2, ThenAt
<1> HIDE DEF m, n, t, run
<1>4. DOMAIN left.chars \subseteq Int /\ DOMAIN right.chars \subseteq Int
  <2>1. left.chars \in Memories /\ right.chars \in Memories
    BY <1>2 DEF Runs
  <2> QED BY <2>1 DEF Memories
<1>5. su + n \in 0..(m + n) /\ run.end = b + (m + n) - (su + n)
  BY <1>1, <1>2, <1>3
<1>6. \A p \in DOMAIN run.chars : b <= p /\ p < b + (m + n)
  BY <1>1, <1>2, <1>3, <1>4
<1>7. ASSUME ~(bu \/ bv), NEW i \in 1..(m + n)
      PROVE  b + i - 1 \in DOMAIN run.chars /\ run.chars[b + i - 1] = Char(t[i])
  <2>1. CASE i <= m
    <3>1. i \in 1..m
      BY <1>1, <2>1
    <3>2. b + i - 1 \in DOMAIN left.chars /\ left.chars[b + i - 1] = Char(u[i])
      BY <1>2, <1>7, <3>1
    <3> QED BY <1>1, <1>3, <3>1, <3>2
  <2>2. CASE i > m
    <3>1. i \in (m + 1)..(m + n) /\ i - m \in 1..n /\ b + m + (i - m) - 1 = b + i - 1
      BY <1>1, <2>2
    <3>2. b + i - 1 \in DOMAIN right.chars /\ right.chars[b + i - 1] = Char(v[i - m])
      BY <1>2, <1>7, <3>1
    <3>3. b + i - 1 \notin DOMAIN left.chars
      <4>1. ~(b + i - 1 < b + m)
        BY <1>1, <2>2
      <4> QED BY <1>2, <4>1
    <3> QED BY <1>1, <1>3, <3>1, <3>2, <3>3
  <2> QED BY <1>1, <2>1, <2>2
<1>8. ASSUME bu \/ bv PROVE \E i \in 1..(m + n) : b + i - 1 \notin DOMAIN run.chars
  <2>1. CASE bu
    <3>1. PICK i \in 1..m : b + i - 1 \notin DOMAIN left.chars
      BY <1>2, <2>1
    <3>2. ~(b + m <= b + i - 1) /\ i \in 1..(m + n)
      BY <1>1
    <3>3. b + i - 1 \notin DOMAIN right.chars
      BY <1>2, <3>2
    <3> QED BY <1>3, <3>1, <3>2, <3>3
  <2>2. CASE bv
    <3>1. PICK i \in 1..n : b + m + i - 1 \notin DOMAIN right.chars
      BY <1>2, <2>2
    <3> DEFINE j == m + i
    <3>2. ~(b + j - 1 < b + m) /\ j \in 1..(m + n) /\ b + j - 1 = b + m + i - 1
      BY <1>1
    <3> HIDE DEF j
    <3>3. b + j - 1 \notin DOMAIN left.chars
      BY <1>2, <3>2
    <3> QED BY <1>3, <3>1, <3>2, <3>3
  <2> QED BY <1>8, <2>1, <2>2
<1>9. Placed(run, b, t, su + n, bu \/ bv)
  BY <1>1, <1>3, <1>5, <1>6, <1>7, <1>8 DEF Placed
<1> QED BY <1>9 DEF run, t, n

\* flatten_cons with a right half that is not shorter: it is written where the left one is said to end, which is too
\* early if the end of that falls short.
LEMMA ShorterFirst ==
  ASSUME NEW u \in Seq(Letters), NEW v \in Seq(Letters), NEW b \in Nat, NEW left, NEW right,
         NEW su, NEW sv, NEW bu \in BOOLEAN, NEW bv \in BOOLEAN, Len(u) <= Len(v),
         Placed(left, b, u, su, bu), Placed(right, left.end, v, sv, bv)
  PROVE  Placed(Then(left, right), b, u \o v, su + sv, bu \/ bv \/ su > 0)
<1> DEFINE m == Len(u)
           n == Len(v)
           t == u \o v
           e == left.end
           run == Then(left, right)
<1>1. t \in Seq(Letters) /\ Len(t) = m + n /\ m \in Nat /\ n \in Nat /\ m <= n
      /\ (\A i \in 1..m : t[i] = u[i]) /\ (\A i \in (m + 1)..(m + n) : t[i] = v[i - m] /\ i - m \in 1..n)
  BY TextsCat
<1>2. left \in Runs /\ right \in Runs /\ su \in 0..m /\ sv \in 0..n /\ e = b + m - su /\ right.end = e + n - sv
      /\ (\A p \in DOMAIN left.chars : b <= p /\ p < b + m)
      /\ (\A p \in DOMAIN right.chars : e <= p /\ p < e + n)
      /\ (~bu => \A i \in 1..m : b + i - 1 \in DOMAIN left.chars /\ left.chars[b + i - 1] = Char(u[i]))
      /\ (bu => \E i \in 1..m : b + i - 1 \notin DOMAIN left.chars)
      /\ (~bv => \A i \in 1..n : e + i - 1 \in DOMAIN right.chars /\ right.chars[e + i - 1] = Char(v[i]))
      /\ (bv => \E i \in 1..n : e + i - 1 \notin DOMAIN right.chars)
  BY DEF Placed
<1>3. /\ run \in Runs /\ run.end = right.end /\ DOMAIN run.chars = DOMAIN left.chars \cup DOMAIN right.chars
      /\ \A p \in DOMAIN right.chars : run.chars[p] = right.chars[p]
      /\ \A p \in DOMAIN left.chars : p \notin DOMAIN right.chars => run.chars[p] = left.chars[p]
  BY <1>2, ThenAt
<1> HIDE DEF m, n, t, run, e
<1>4. DOMAIN left.chars \subseteq Int /\ DOMAIN right.chars \subseteq Int
  <2>1. left.chars \in Memories /\ right.chars \in Memories
    BY <1>2 DEF Runs
  <2> QED BY <2>1 DEF Memories
<1>5. su + sv \in 0..(m + n) /\ run.end = b + (m + n) - (su + sv)
  BY <1>1, <1>2, <1>3, SMTT(30)
<1>6. \A p \in DOMAIN run.chars : b <= p /\ p < b + (m + n)
  <2>1. e >= b /\ e + n <= b + (m + n)
    BY <1>1, <1>2
  <2>2. ASSUME NEW p \in DOMAIN left.chars PROVE b <= p /\ p < b + (m + n)
    BY <1>1, <1>2, <1>4
  <2>3. ASSUME NEW p \in DOMAIN right.chars PROVE b <= p /\ p < b + (m + n)
    <3>1. e <= p /\ p < e + n /\ p \in Int /\ e \in Int
      BY <1>1, <1>2, <1>4
    <3> QED BY <1>1, <2>1, <3>1
  <2> QED BY <1>3, <2>2, <2>3
<1>7. ASSUME ~(bu \/ bv \/ su > 0), NEW i \in 1..(m + n)
      PROVE  b + i - 1 \in DOMAIN run.chars /\ run.chars[b + i - 1] = Char(t[i])
  <2>0. e = b + m
    BY <1>1, <1>2, <1>7
  <2>1. CASE i <= m
    <3>1. i \in 1..m
      BY <1>1, <2>1
    <3>2. b + i - 1 \in DOMAIN left.chars /\ left.chars[b + i - 1] = Char(u[i])
      BY <1>2, <1>7, <3>1
    <3>3. b + i - 1 \notin DOMAIN right.chars
      <4>1. ~(e <= b + i - 1)
        BY <1>1, <2>0, <2>1
      <4> QED BY <1>2, <4>1
    <3> QED BY <1>1, <1>3, <3>1, <3>2, <3>3
  <2>2. CASE i > m
    <3>1. i \in (m + 1)..(m + n) /\ i - m \in 1..n /\ e + (i - m) - 1 = b + i - 1
      BY <1>1, <2>0, <2>2
    <3>2. b + i - 1 \in DOMAIN right.chars /\ right.chars[b + i - 1] = Char(v[i - m])
      BY <1>2, <1>7, <3>1
    <3> QED BY <1>1, <1>3, <3>1, <3>2
  <2> QED BY <1>1, <2>1, <2>2
<1>8. ASSUME bu \/ bv \/ su > 0 PROVE \E i \in 1..(m + n) : b + i - 1 \notin DOMAIN run.chars
  <2>1. CASE su > 0
    <3> DEFINE j == m + n
    <3>1. j \in 1..(m + n) /\ ~(b + j - 1 < b + m) /\ ~(b + j - 1 < e + n)
      BY <1>1, <1>2, <2>1
    <3> HIDE DEF j
    <3>2. b + j - 1 \notin DOMAIN left.chars /\ b + j - 1 \notin DOMAIN right.chars
      BY <1>2, <3>1
    <3> QED BY <1>3, <3>1, <3>2
  <2>2. CASE bu /\ su = 0
    <3>1. PICK i \in 1..m : b + i - 1 \notin DOMAIN left.chars
      BY <1>2, <2>2
    <3>2. ~(e <= b + i - 1) /\ i \in 1..(m + n)
      BY <1>1, <1>2, <2>2
    <3>3. b + i - 1 \notin DOMAIN right.chars
      BY <1>2, <3>2
    <3> QED BY <1>3, <3>1, <3>2, <3>3
  <2>3. CASE bv /\ su = 0
    <3>1. PICK i \in 1..n : e + i - 1 \notin DOMAIN right.chars
      BY <1>2, <2>3
    <3> DEFINE j == m + i
    <3>2. ~(b + j - 1 < b + m) /\ j \in 1..(m + n) /\ b + j - 1 = e + i - 1
      BY <1>1, <1>2, <2>3
    <3> HIDE DEF j
    <3>3. b + j - 1 \notin DOMAIN left.chars
      BY <1>2, <3>2
    <3> QED BY <1>3, <3>1, <3>2, <3>3
  <2>4. su = 0 \/ su > 0
    BY <1>1, <1>2
  <2> QED BY <1>8, <2>1, <2>2, <2>3, <2>4
<1>9. Placed(run, b, t, su + sv, bu \/ bv \/ su > 0)
  BY <1>1, <1>3, <1>5, <1>6, <1>7, <1>8 DEF Placed
<1> QED BY <1>9 DEF run, t

(***************************************************************************)
(* Flattening.                                                             *)
(***************************************************************************)

\* g has the strings of h, as they are there, and maybe more.
SameTexts(h, g) ==
  /\ Texts(h) \subseteq Texts(g)
  /\ \A a \in Texts(h) :
       /\ Repr(g, a) = Repr(h, a) /\ Count(g, a) = Count(h, a)
       /\ Repr(h, a) # "Normal" =>
            /\ (RightIsNil(g, a) <=> RightIsNil(h, a)) /\ Left(g, a) = Left(h, a)
            /\ ~RightIsNil(h, a) => Right(g, a) = Right(h, a)

\* flatten_cons puts the characters of a string in their places unless a half is misplaced, and then it leaves a
\* place without one: by induction on the rank of the string.
LEMMA FlattenPlaces ==
  ASSUME NEW h, NEW g, Lettered(h), Lettered(g), SameTexts(h, g), SpeltOut(h, g), NEW a \in Texts(h), NEW b \in Nat
  PROVE  Placed(Flatten(g)[a][b], b, TextOf(h, a), EndsShort(h)[a], Misplaced(h)[a] = TRUE)
<1> DEFINE A == Texts(h)
           R == Ranks(h)
           F == Flatten(g)
           S == EndsShort(h)
           M == Misplaced(h)
           Q == {c \in A : \A e \in Nat : Placed(F[c][e], e, TextOf(h, c), S[c], M[c] = TRUE)}
<1>1. R \in [A -> Nat]
  BY RanksIs DEF Lettered
<1>2. ASSUME NEW c \in A, \A d \in A : R[d] < R[c] => d \in Q PROVE c \in Q
  <2>1. Legible(h, c) /\ TextOf(h, c) \in Seq(Letters) /\ Count(h, c) = Len(TextOf(h, c)) /\ c \in Texts(g)
    BY DEF Lettered, Legible, SameTexts
  <2>2. S[c] = ShortOne(h, S, c)
    BY EndsShortIs
  <2>3. (M[c] = TRUE) <=> MisplacedOne(h, M, c)
    <3>1. M[c] = MisplacedOne(h, M, c)
      BY MisplacedIs
    <3>2. MisplacedOne(h, M, c) \in BOOLEAN
      BY DEF MisplacedOne
    <3> QED BY <3>1, <3>2
  <2>4. F[c] = FlatOne(g, F, c)
    BY <2>1, FlattenIs
  <2> SUFFICES ASSUME NEW e \in Nat PROVE Placed(F[c][e], e, TextOf(h, c), S[c], M[c] = TRUE)
    OBVIOUS
  <2> HIDE DEF F, S, M
  <2> DEFINE l == Left(h, c)
             r == Right(h, c)
             u == TextOf(h, l)
             v == TextOf(h, r)
  <2>5. F[c][e] = IF Repr(h, c) = "Normal" THEN Moved(g, c, e)
                  ELSE IF RightIsNil(h, c) THEN F[l][e]
                  ELSE IF Len(u) > Len(v) THEN Then(F[r][e + Len(u)], F[l][e])
                  ELSE Then(F[l][e], F[r][F[l][e].end])
    <3>1. Repr(h, c) # "Normal" => Left(g, c) = l /\ l \in A /\ (RightIsNil(g, c) <=> RightIsNil(h, c))
      BY Halves DEF SameTexts
    <3>2. Repr(h, c) # "Normal" /\ ~RightIsNil(h, c) => Right(g, c) = r /\ r \in A
      BY Halves DEF SameTexts
    <3>3. Repr(g, c) = Repr(h, c)
      BY DEF SameTexts
    <3>4. \A d \in A : Count(g, d) = Len(TextOf(h, d))
      BY DEF SameTexts, Lettered, Legible
    <3>5. CASE Repr(h, c) = "Normal"
      BY <2>4, <3>3, <3>5 DEF FlatOne
    <3>6. CASE Repr(h, c) # "Normal" /\ RightIsNil(h, c)
      BY <2>4, <3>1, <3>3, <3>6 DEF FlatOne
    <3>7. CASE Repr(h, c) # "Normal" /\ ~RightIsNil(h, c)
      <4>1. Count(g, l) = Len(u) /\ Count(g, r) = Len(v)
        BY <3>1, <3>2, <3>4, <3>7
      <4>2. F[c][e] = IF Count(g, l) > Count(g, r) THEN Then(F[r][e + Count(g, l)], F[l][e])
                      ELSE Then(F[l][e], F[r][F[l][e].end])
        BY <2>4, <3>1, <3>2, <3>3, <3>7 DEF FlatOne
      <4> QED BY <3>7, <4>1, <4>2
    <3> QED BY <3>5, <3>6, <3>7
  <2>6. CASE Repr(h, c) = "Normal"
    <3> DEFINE run == Moved(g, c, e)
               t == TextOf(h, c)
               n == Len(t)
    <3>1. S[c] = 0 /\ ~(M[c] = TRUE)
      BY <2>2, <2>3, <2>6 DEF ShortOne, MisplacedOne
    <3>2. Count(g, c) = n /\ n \in Nat
      BY <2>1 DEF SameTexts
    <3>3. run \in Runs
      BY <2>1, MovedIs
    <3>4. run.end = e + n /\ run.chars = [i \in e..(e + n - 1) |-> Read(g, Offset(c, 3 + i - e))]
      BY <3>2 DEF Moved
    <3>5. \A i \in 1..n : Read(g, Offset(c, 2 + i)) = Char(t[i])
      BY <2>1, <2>6 DEF SpeltOut
    <3> HIDE DEF run, t, n
    <3>6. DOMAIN run.chars = e..(e + n - 1)
      BY <3>4
    <3>7. ASSUME NEW i \in 1..n PROVE e + i - 1 \in DOMAIN run.chars /\ run.chars[e + i - 1] = Char(t[i])
      <4>1. e + i - 1 \in e..(e + n - 1) /\ 3 + (e + i - 1) - e = 2 + i
        BY <3>2
      <4> QED BY <3>4, <3>5, <3>6, <4>1
    <3>8. \A p \in DOMAIN run.chars : e <= p /\ p < e + n
      BY <3>2, <3>6
    <3>9. 0 \in 0..n /\ run.end = e + n - 0
      BY <3>2, <3>4
    <3>10. Placed(run, e, t, 0, M[c] = TRUE)
      BY <3>1, <3>3, <3>7, <3>8, <3>9 DEF Placed, n
    <3> QED BY <2>5, <2>6, <3>1, <3>10 DEF run, t
  <2>7. CASE Repr(h, c) # "Normal" /\ RightIsNil(h, c)
    <3>1. l \in Q /\ u = TextOf(h, c)
      BY <1>2, <2>1, <2>7, Halves DEF Legible
    <3>2. S[c] = S[l] /\ ((M[c] = TRUE) <=> (M[l] = TRUE))
      <4>1. S[c] = S[l]
        BY <2>2, <2>7 DEF ShortOne
      <4>2. M[c] = TRUE <=> M[l]
        BY <2>3, <2>7 DEF MisplacedOne
      <4> QED BY <4>1, <4>2
    <3>3. Placed(F[l][e], e, TextOf(h, c), S[c], M[l] = TRUE)
      BY <3>1, <3>2
    <3>4. F[c][e] = F[l][e]
      BY <2>5, <2>7
    <3> QED BY <3>2, <3>3, <3>4
  <2>8. CASE Repr(h, c) # "Normal" /\ ~RightIsNil(h, c)
    <3>1. l \in Q /\ r \in Q
      BY <1>2, <2>8, Halves
    <3>2. TextOf(h, c) = u \o v /\ u \in Seq(Letters) /\ v \in Seq(Letters)
      BY <2>1, <2>8, <3>1 DEF Lettered, Legible
    <3>3. Count(h, l) = Len(u) /\ Count(h, r) = Len(v) /\ Len(u) \in Nat /\ Len(v) \in Nat
      BY <3>1, <3>2 DEF Lettered, Legible
    <3> DEFINE bu == M[l] = TRUE
               bv == M[r] = TRUE
    <3>4. Placed(F[l][e], e, u, S[l], bu)
      BY <3>1
    <3>5. \A d \in Nat : Placed(F[r][d], d, v, S[r], bv)
      BY <3>1
    <3>6. CASE Len(u) > Len(v)
      <4>1. S[c] = S[l] + Len(v)
        BY <2>2, <2>8, <3>3, <3>6 DEF ShortOne
      <4>2. (M[c] = TRUE) <=> (bu \/ bv)
        <5>1. ~(Count(h, l) <= Count(h, r))
          BY <3>3, <3>6
        <5> QED BY <2>3, <2>8, <5>1 DEF MisplacedOne
      <4>3. Placed(F[r][e + Len(u)], e + Len(u), v, S[r], bv)
        BY <3>3, <3>5
      <4>4. F[c][e] = Then(F[r][e + Len(u)], F[l][e])
        BY <2>5, <2>8, <3>6
      <4> HIDE DEF bu, bv, u, v, l, r
      <4>5. bu \in BOOLEAN /\ bv \in BOOLEAN
        BY DEF bu, bv
      <4>6. Placed(F[c][e], e, u \o v, S[l] + Len(v), bu \/ bv)
        BY <3>2, <3>4, <4>3, <4>4, <4>5, LongerFirst
      <4> QED BY <3>2, <4>1, <4>2, <4>6
    <3>7. CASE Len(u) <= Len(v)
      <4>1. S[c] = S[l] + S[r]
        <5>1. ~(Count(h, l) > Count(h, r))
          BY <3>3, <3>7
        <5> QED BY <2>2, <2>8, <5>1 DEF ShortOne
      <4>2. (M[c] = TRUE) <=> (bu \/ bv \/ S[l] > 0)
        BY <2>3, <2>8, <3>3, <3>7 DEF MisplacedOne, S
      <4>3. F[l][e].end \in Nat
        BY <3>4 DEF Placed, Runs
      <4>4. Placed(F[r][F[l][e].end], F[l][e].end, v, S[r], bv)
        BY <3>5, <4>3
      <4>5. F[c][e] = Then(F[l][e], F[r][F[l][e].end])
        <5>1. ~(Len(u) > Len(v))
          BY <3>3, <3>7
        <5> QED BY <2>5, <2>8, <5>1
      <4> HIDE DEF bu, bv, u, v, l, r
      <4>6. bu \in BOOLEAN /\ bv \in BOOLEAN
        BY DEF bu, bv
      <4>7. Placed(F[c][e], e, u \o v, S[l] + S[r], bu \/ bv \/ S[l] > 0)
        BY <3>2, <3>4, <3>7, <4>4, <4>5, <4>6, ShorterFirst
      <4> QED BY <3>2, <4>1, <4>2, <4>7
    <3>8. Len(u) > Len(v) \/ Len(u) <= Len(v)
      <4> DEFINE m == Len(u)
                 n == Len(v)
      <4>1. m \in Nat /\ n \in Nat
        BY <3>3
      <4> HIDE DEF m, n
      <4>2. m > n \/ m <= n
        BY <4>1
      <4> QED BY <4>2 DEF m, n
    <3> QED BY <3>6, <3>7, <3>8
  <2> QED BY <2>6, <2>7, <2>8
<1>3. A \subseteq Q
  <2> HIDE DEF A, R, Q
  <2> QED BY <1>1, <1>2, ByRank
<1>4. a \in Q
  BY <1>3
<1> QED BY <1>4

(***************************************************************************)
(* Strings in a heap that grows.                                           *)
(***************************************************************************)

\* A string is no short copy.
LEMMA TextNotShort ==
  ASSUME NEW h, HeapInv(h), NEW o \in DOMAIN h.objects, IsText(h.objects[o])
  PROVE  ~h.objects[o].short
<1>1. h.objects[o].short => h.objects[o].words[1].tag = "Context"
  BY DEF HeapInv, ShapeInv, ShortContext
<1> QED BY <1>1 DEF IsText

\* Strings read in a heap that has grown what they read before.
LEMMA GrownReads ==
  ASSUME NEW h, HeapInv(h), AllRead(h), NEW g, NEW s \in Spaces, NEW n \in Nat, NEW x, Grown(h, g, s, n, x),
         IsText(x) => ReadsOwn(g, x)
  PROVE  AllRead(g)
<1> DEFINE N == Len(h.objects)
<1>1. N \in Nat /\ DOMAIN h.objects = 1..N /\ DOMAIN g.objects = 1..(N + 1)
      /\ g.objects[N + 1] = x /\ \A p \in 1..N : g.objects[p] = h.objects[p]
  <2>1. h.objects \in Seq(Entries) /\ g.objects = Append(h.objects, x)
    BY DEF HeapInv, Heaps, Grown
  <2> QED BY <2>1
<1> HIDE DEF N
<1> SUFFICES ASSUME NEW p \in DOMAIN g.objects, IsText(g.objects[p]) PROVE ReadsOwn(g, g.objects[p])
  BY DEF AllRead
<1>2. CASE p = N + 1
  BY <1>1, <1>2
<1>3. CASE p \in 1..N
  <2> DEFINE y == h.objects[p]
  <2>1. g.objects[p] = y /\ IsText(y) /\ p \in DOMAIN h.objects
    BY <1>1, <1>3
  <2>2. ReadsOwn(h, y) /\ ~y.short
    BY <2>1, TextNotShort DEF AllRead
  <2>3. y \in Entries /\ y.at \in Addresses /\ y.at.space \in Spaces /\ y.at.i \in Int /\ y.words \in Seq(Words)
    BY <2>1, EntryOf DEF HeapInv
  <2>4. y.at.i + Len(y.words) - 1 <= h.top[y.at.space]
    BY <2>1, <2>2 DEF HeapInv, LayoutInv, Extent
  <2>5. h.top[y.at.space] \in Nat
    BY <2>3 DEF HeapInv, Heaps
  <2> HIDE DEF y
  <2>6. ASSUME NEW i \in DOMAIN y.words PROVE Read(g, Offset(y.at, i - 1)) = Read(h, Offset(y.at, i - 1))
    <3>1. i \in 1..Len(y.words) /\ Offset(y.at, i - 1) \in Addresses
          /\ Offset(y.at, i - 1).space = y.at.space /\ Offset(y.at, i - 1).i = y.at.i + i - 1
      BY <2>3, OwnAddress
    <3>2. y.at.i + i - 1 <= h.top[y.at.space]
      <4> DEFINE a == y.at.i
                 l == Len(y.words)
                 t == h.top[y.at.space]
      <4>1. a \in Int /\ l \in Nat /\ t \in Nat /\ i \in 1..l /\ a + l - 1 <= t
        BY <2>3, <2>4, <2>5, <3>1
      <4> HIDE DEF a, l, t
      <4>2. a + i - 1 <= t
        BY <4>1
      <4> QED BY <4>2 DEF a, t
    <3> DEFINE b == Offset(y.at, i - 1)
    <3>3. b \in Addresses /\ (b.space # s \/ b.i <= h.top[s])
      BY <3>1, <3>2
    <3> HIDE DEF b
    <3>4. Read(g, b) = Read(h, b)
      BY <3>3 DEF Grown
    <3> QED BY <3>4 DEF b
  <2> QED BY <2>1, <2>2, <2>6 DEF ReadsOwn
<1> QED BY <1>1, <1>2, <1>3

\* Strings read after a write into a string what they read before.
LEMMA StoreReadsAll ==
  ASSUME NEW h, HeapInv(h), AllRead(h), NEW o \in DOMAIN h.objects, IsText(h.objects[o]),
         NEW n \in 0..(Len(h.objects[o].words) - 1), NEW w \in Words, NEW g, Stored(h, g, o, n, w), n # 0
  PROVE  AllRead(g)
<1> SUFFICES ASSUME NEW p \in DOMAIN g.objects, IsText(g.objects[p]) PROVE ReadsOwn(g, g.objects[p])
  BY DEF AllRead
<1>1. p \in DOMAIN h.objects
  BY DEF Stored
<1>2. IsText(h.objects[p])
  <2>1. CASE p = o
    BY <2>1
  <2>2. CASE p # o
    BY <1>1, <2>2 DEF Stored
  <2> QED BY <2>1, <2>2
<1>3. p = o \/ ~Overlap(h.objects[p], h.objects[o])
  BY <1>1, <1>2, TextNotShort, NoOverlap
<1>4. ReadsOwn(h, h.objects[p])
  BY <1>1, <1>2 DEF AllRead
<1> QED BY <1>1, <1>3, <1>4, StoreReads

\* The strings of a heap are in one that has grown.
LEMMA GrownTexts ==
  ASSUME NEW h, NEW g, HeapInv(h), HeapInv(g), StructInv(h), StructInv(g), AllRead(h), AllRead(g),
         NEW s, NEW n, NEW x, Grown(h, g, s, n, x)
  PROVE  /\ SameTexts(h, g)
         /\ SpeltInv(h) => SpeltOut(h, g)
<1>1. DOMAIN h.objects \subseteq DOMAIN g.objects /\ \A p \in DOMAIN h.objects : g.objects[p] = h.objects[p]
  <2>1. h.objects \in Seq(Entries) /\ g.objects = Append(h.objects, x)
    BY DEF HeapInv, Heaps, Grown
  <2> QED BY <2>1
<1>2. ASSUME NEW a \in Texts(h)
      PROVE  LET o == Owner(h, a)
                 y == h.objects[o] IN
             /\ o \in DOMAIN h.objects /\ IsText(y) /\ y.at = a /\ TextOf(h, a) = y.text
             /\ o \in DOMAIN g.objects /\ g.objects[o] = y
             /\ Made(h, o) /\ Made(g, o) /\ ReadsOwn(h, y) /\ ReadsOwn(g, y)
  <2> DEFINE o == Owner(h, a)
             y == h.objects[o]
  <2>1. o \in DOMAIN h.objects /\ IsText(y) /\ y.at = a
    BY OwnerOf
  <2>2. o \in DOMAIN g.objects /\ g.objects[o] = y
    BY <1>1, <2>1
  <2> HIDE DEF o
  <2>3. Made(h, o) /\ ReadsOwn(h, y)
    BY <2>1 DEF StructInv, AllRead
  <2>4. Made(g, o) /\ ReadsOwn(g, y)
    BY <2>1, <2>2 DEF StructInv, AllRead
  <2> QED BY <2>1, <2>2, <2>3, <2>4 DEF o, TextOf
<1>3. SameTexts(h, g)
  <2>1. Texts(h) \subseteq Texts(g)
    BY <1>1 DEF Texts
  <2>2. ASSUME NEW a \in Texts(h)
        PROVE  /\ Repr(g, a) = Repr(h, a) /\ Count(g, a) = Count(h, a)
               /\ Repr(h, a) # "Normal" =>
                    /\ (RightIsNil(g, a) <=> RightIsNil(h, a)) /\ Left(g, a) = Left(h, a)
                    /\ ~RightIsNil(h, a) => Right(g, a) = Right(h, a)
    <3> DEFINE o == Owner(h, a)
               y == h.objects[o]
    <3>1. /\ o \in DOMAIN h.objects /\ IsText(y) /\ y.at = a /\ o \in DOMAIN g.objects /\ g.objects[o] = y
          /\ Made(h, o) /\ Made(g, o) /\ ReadsOwn(h, y) /\ ReadsOwn(g, y)
      BY <1>2
    <3> HIDE DEF o
    <3>2. /\ Repr(h, a) = y.words[1].repr /\ Count(h, a) = Len(y.text)
          /\ ~Whole(y) => /\ (RightIsNil(h, a) <=> y.words[5] = Nil) /\ Left(h, a) = y.words[4].at
                          /\ y.words[5] # Nil => Right(h, a) = y.words[5].at
      BY <3>1, ReadText
    <3>3. /\ Repr(g, a) = y.words[1].repr /\ Count(g, a) = Len(y.text)
          /\ ~Whole(y) => /\ (RightIsNil(g, a) <=> y.words[5] = Nil) /\ Left(g, a) = y.words[4].at
                          /\ y.words[5] # Nil => Right(g, a) = y.words[5].at
      BY <3>1, ReadText
    <3> QED BY <3>2, <3>3 DEF Whole
  <2> QED BY <2>1, <2>2 DEF SameTexts
<1>4. ASSUME SpeltInv(h), NEW a \in Texts(h), Repr(h, a) = "Normal", NEW i \in 1..Count(h, a)
      PROVE  Read(g, Offset(a, 2 + i)) = Char(TextOf(h, a)[i])
  <2> DEFINE o == Owner(h, a)
             y == h.objects[o]
  <2>1. /\ o \in DOMAIN h.objects /\ IsText(y) /\ y.at = a /\ o \in DOMAIN g.objects /\ g.objects[o] = y
        /\ Made(h, o) /\ ReadsOwn(h, y) /\ ReadsOwn(g, y) /\ TextOf(h, a) = y.text
    BY <1>2
  <2> HIDE DEF o
  <2>2. Whole(y) /\ Count(h, a) = Len(y.text)
    BY <1>4, <2>1, ReadText DEF Whole
  <2>3. DOMAIN y.words = 1..(3 + Len(y.text)) /\ Len(y.text) \in Nat
    BY <2>1, <2>2, TextWords
  <2>4. 3 + i \in DOMAIN y.words /\ (3 + i) - 1 = 2 + i
    <3> DEFINE m == Len(y.text)
    <3>1. m \in Nat /\ i \in 1..m /\ DOMAIN y.words = 1..(3 + m)
      BY <2>2, <2>3
    <3> HIDE DEF m
    <3> QED BY <3>1
  <2>5. y.words[3 + i] = Char(y.text[i])
    BY <1>4, <2>1, <2>2 DEF SpeltInv, Spelt
  <2>6. y.words[3 + i] # Untouched
    BY <2>5, WordsDiffer
  <2>7. Read(g, Offset(a, (3 + i) - 1)) = y.words[3 + i]
    BY <2>1, <2>4, <2>6 DEF ReadsOwn
  <2> QED BY <2>1, <2>4, <2>5, <2>7
<1> QED BY <1>3, <1>4 DEF SpeltOut

(***************************************************************************)
(* The answer of HString::value.                                           *)
(***************************************************************************)

\* The heap of Value before the string is told of its characters.
Answered(h, o) ==
  LET a == h.objects[o].at
      result == Top(h, "new")
      fresh == NewString(h, "new", Count(h, a), <<>>, h.objects[o].text)
      flat == Put(fresh, "new", Flatten(fresh)[a][result.i + 3].chars)
  IN [flat EXCEPT !.objects[Len(flat.objects)].words = ReadAll(flat, result, 3 + Count(h, a))]

\* Value is the answer and the two stores that make it the string's left half.
LEMMA ValueStores ==
  ASSUME NEW h, NEW o
  PROVE  Value(h, o) = Store(Store(Answered(h, o), o, 4, Nil), o, 3, Ref(Top(h, "new")))
BY DEF Value, Answered

\* A string of two that was not asked before, in a heap where all strings read as written.
Asked(h, o) ==
  /\ GoodHeap(h, TRUE) /\ AllRead(h) /\ o \in DOMAIN h.objects /\ IsText(h.objects[o])
  /\ ~Whole(h.objects[o]) /\ h.objects[o].words[5] # Nil

\* A half of the string is misplaced.
Bad(h, o) == Misplaced(h)[h.objects[o].at] = TRUE

\* The string with its characters.
Answer(h, o, y) ==
  LET g == Answered(h, o)
      n == Len(h.objects[o].text) IN
  /\ Grown(h, g, "new", 4 + n, y) /\ Shaped(y.words) /\ ReadsOwn(g, y) /\ ~y.short
  /\ IsText(y) /\ Whole(y) /\ y.words[3] = Num(n) /\ Len(y.words) = 3 + n /\ y.text = h.objects[o].text
  /\ \A j \in 1..(3 + n) : y.words[j] = Read(g, Offset(y.at, j - 1))
  /\ ~Bad(h, o) => Spelt(y)
  /\ Bad(h, o) => \E i \in 1..n : y.words[3 + i] \notin Characters

\* What the string that is to hold the characters looks like before they are written.
LEMMA FreshString ==
  ASSUME NEW h, NEW o, Asked(h, o)
  PROVE  LET x == h.objects[o]
             n == Len(x.text)
             g == NewString(h, "new", Count(h, x.at), <<>>, x.text)
             z == Entered(h, "new", "String", "Normal", <<Num(0), Num(n)>>, n, x.text)
             b == h.top["new"] + 4 IN
         /\ x.text \in Seq(Letters) /\ n \in Nat /\ x.at \in Texts(h) /\ x.at \in Addresses /\ Count(h, x.at) = n
         /\ g \in Heaps /\ Grown(h, g, "new", 4 + n, z)
         /\ \A a \in Addresses : a.space # "new" \/ a.i <= h.top["new"] \/ a.i > h.top["new"] + 3 => Read(g, a) = Read(h, a)
         /\ \A a \in Addresses : a.space = "new" /\ a.i = h.top["new"] + 1 =>
              Read(g, a) \in Headers /\ Read(g, a).tag = "String" /\ Read(g, a).repr = "Normal"
         /\ \A a \in Addresses : a.space = "new" /\ a.i = h.top["new"] + 3 => Read(g, a) = Num(n)
         /\ Placed(Flatten(g)[x.at][b], b, x.text, EndsShort(h)[x.at], Bad(h, o))
<1> DEFINE x == h.objects[o]
           n == Len(x.text)
           g == NewString(h, "new", n, <<>>, x.text)
           ws == <<Num(0), Num(n)>> \o <<>>
           z == Entered(h, "new", "String", "Normal", <<Num(0), Num(n)>>, n, x.text)
           b == h.top["new"] + 4
           t == h.top["new"]
<1>1. /\ GoodHeap(h, TRUE) /\ HeapInv(h) /\ StructInv(h) /\ SpeltInv(h) /\ FreshInv(h) /\ AllRead(h)
      /\ o \in DOMAIN h.objects /\ IsText(x) /\ Made(h, o) /\ ReadsOwn(h, x) /\ h \in Heaps
  BY DEF Asked, GoodHeap, HeapInv, StructInv, AllRead
<1>2. x.text \in Seq(Letters) /\ n \in Nat /\ x.at \in Addresses /\ Count(h, x.at) = n
  BY <1>1, TextWords, ReadText
<1>3. x.at \in Texts(h) /\ TextOf(h, x.at) = x.text
  BY <1>1, OwnerIs DEF TextOf
<1>4. "new" \in Spaces /\ <<>> \in Seq(Words) /\ Len(<<>>) = 0
  BY DEF Spaces
<1>5. t \in Nat
  BY <1>1, <1>4, TopIs
<1>6. ws = <<Num(0), Num(n)>> /\ Len(ws) = 2 /\ ws[2] = Num(n)
  <2>1. Num(0) \in Words /\ Num(n) \in Words
    BY <1>2, WordsIs
  <2>2. <<Num(0), Num(n)>> \in Seq(Words) /\ Len(<<Num(0), Num(n)>>) = 2
    BY <2>1
  <2> QED BY <2>2
<1>7. /\ GoodHeap(g, FALSE)
      /\ Makes(h, "new", "String", "Normal", ws, 4 + n, n, x.text)
  <2>1. GoodHeap(h, FALSE)
    BY <1>1 DEF GoodHeap
  <2>2. Len(<<>>) <= n
    BY <1>2, <1>4
  <2>3. /\ GoodHeap(NewString(h, "new", Len(x.text), <<>>, x.text), FALSE)
        /\ Makes(h, "new", "String", "Normal", <<Num(0), Num(Len(x.text))>> \o <<>>, 4 + Len(x.text), Len(x.text), x.text)
    <3> HIDE DEF x
    <3> QED BY <1>2, <1>4, <2>1, <2>2, NewStringIsGood
  <2> QED BY <2>3
<1>8. g = New(h, "new", "String", "Normal", ws, 4 + n, x.text)
  BY DEF NewString
<1> DEFINE all == Headed("new", "String", "Normal", ws)
<1>a. /\ Grown(h, g, "new", 4 + n, Entered(h, "new", "String", "Normal", ws, n, x.text))
      /\ ReadsOwn(g, Entered(h, "new", "String", "Normal", ws, n, x.text)) /\ Len(all) = 1 + Len(ws)
      /\ all[1].tag = "String" /\ all[1].repr = "Normal" /\ \A i \in 1..Len(ws) : all[i + 1] = ws[i]
      /\ \A a \in Addresses :
           Read(g, a) = IF a.space = "new" /\ a.i \in (t + 1)..(t + Len(all)) THEN all[a.i - t] ELSE Read(h, a)
  <2> HIDE DEF ws, x, n
  <2> QED BY <1>7, <1>8 DEF Makes
<1>9. /\ Grown(h, g, "new", 4 + n, z) /\ ReadsOwn(g, z) /\ Len(all) = 3 /\ all[1].tag = "String" /\ all[1].repr = "Normal"
      /\ all[3] = Num(n)
      /\ \A a \in Addresses :
           Read(g, a) = IF a.space = "new" /\ a.i \in (t + 1)..(t + Len(all)) THEN all[a.i - t] ELSE Read(h, a)
  <2>1. z = Entered(h, "new", "String", "Normal", ws, n, x.text)
    BY <1>6
  <2> HIDE DEF ws, x, n, all, z, g
  <2>2. 2 \in 1..Len(ws) /\ all[2 + 1] = ws[2]
    BY <1>6, <1>a
  <2> QED BY <1>6, <1>a, <2>1, <2>2
<1>10. all[1] \in Headers
  BY BoundsAssumption DEF Headed, Header, Headers, Kinds, Reprs
<1> HIDE DEF all
<1>11. \A a \in Addresses : a.space # "new" \/ a.i <= t \/ a.i > t + 3 => Read(g, a) = Read(h, a)
  <2> SUFFICES ASSUME NEW a \in Addresses, a.space # "new" \/ a.i <= t \/ a.i > t + 3 PROVE Read(g, a) = Read(h, a)
    OBVIOUS
  <2>1. a.i \in Int
    BY DEF Addresses
  <2>2. a.space # "new" \/ a.i \notin (t + 1)..(t + 3)
    BY <1>5, <2>1
  <2> QED BY <1>9, <2>2
<1>12. \A a \in Addresses : a.space = "new" /\ a.i = t + 1 =>
         Read(g, a) \in Headers /\ Read(g, a).tag = "String" /\ Read(g, a).repr = "Normal"
  <2> SUFFICES ASSUME NEW a \in Addresses, a.space = "new", a.i = t + 1 PROVE Read(g, a) = all[1]
    BY <1>9, <1>10
  <2>1. a.i \in (t + 1)..(t + 3) /\ a.i - t = 1
    BY <1>5
  <2> QED BY <1>9, <2>1
<1>13. \A a \in Addresses : a.space = "new" /\ a.i = t + 3 => Read(g, a) = Num(n)
  <2> SUFFICES ASSUME NEW a \in Addresses, a.space = "new", a.i = t + 3 PROVE Read(g, a) = all[3]
    BY <1>9
  <2>1. a.i \in (t + 1)..(t + 3) /\ a.i - t = 3
    BY <1>5
  <2> QED BY <1>9, <2>1
<1>14. HeapInv(g) /\ StructInv(g) /\ g \in Heaps
  BY <1>7 DEF GoodHeap, HeapInv
<1> HIDE DEF g, z, ws
<1>15. AllRead(g)
  <2>1. 4 + n \in Nat
    BY <1>2
  <2> HIDE DEF n, x
  <2> QED BY <1>1, <1>4, <1>9, <2>1, GrownReads
<1>16. Lettered(h) /\ Lettered(g)
  BY <1>1, <1>14, <1>15, TextsAreLegible DEF Lettered
<1>17. SameTexts(h, g) /\ SpeltOut(h, g)
  BY <1>1, <1>9, <1>14, <1>15, GrownTexts
<1>18. b \in Nat
  BY <1>5
<1>19. Placed(Flatten(g)[x.at][b], b, TextOf(h, x.at), EndsShort(h)[x.at], Misplaced(h)[x.at] = TRUE)
  BY <1>3, <1>16, <1>17, <1>18, FlattenPlaces
<1>20. Placed(Flatten(g)[x.at][b], b, x.text, EndsShort(h)[x.at], Bad(h, o))
  BY <1>3, <1>19 DEF Bad
<1> QED BY <1>2, <1>3, <1>9, <1>11, <1>12, <1>13, <1>14, <1>20 DEF g, z

\* The flat string of HString::value holds the text unless a half is misplaced, and then a word in it is no character.
LEMMA AnswerIs ==
  ASSUME NEW h, NEW o, Asked(h, o)
  PROVE  \E y : Answer(h, o, y)
<1> DEFINE x == h.objects[o]
           n == Len(x.text)
           t == h.top["new"]
           b == t + 4
           res == Top(h, "new")
           fresh == NewString(h, "new", Count(h, x.at), <<>>, x.text)
           z == Entered(h, "new", "String", "Normal", <<Num(0), Num(n)>>, n, x.text)
           run == Flatten(fresh)[x.at][b]
           flat == Put(fresh, "new", run.chars)
           ws == ReadAll(flat, res, 3 + n)
           g == Answered(h, o)
           y == [at |-> res, words |-> ws, text |-> x.text, short |-> FALSE]
<1>1. /\ x.text \in Seq(Letters) /\ n \in Nat /\ x.at \in Texts(h) /\ x.at \in Addresses /\ Count(h, x.at) = n
      /\ fresh \in Heaps /\ Grown(h, fresh, "new", 4 + n, z)
      /\ \A a \in Addresses : a.space # "new" \/ a.i <= t \/ a.i > t + 3 => Read(fresh, a) = Read(h, a)
      /\ \A a \in Addresses : a.space = "new" /\ a.i = t + 1 =>
           Read(fresh, a) \in Headers /\ Read(fresh, a).tag = "String" /\ Read(fresh, a).repr = "Normal"
      /\ \A a \in Addresses : a.space = "new" /\ a.i = t + 3 => Read(fresh, a) = Num(n)
      /\ Placed(run, b, x.text, EndsShort(h)[x.at], Bad(h, o))
  BY FreshString
<1>2. h \in Heaps /\ FreshInv(h) /\ "new" \in Spaces
  BY DEF Asked, GoodHeap, HeapInv, Spaces
<1>3. res \in Addresses /\ res.space = "new" /\ res.i = t + 1 /\ t \in Nat
  BY <1>2, TopIs
<1>4. res.i + 3 = b
  BY <1>3
<1>5. g = [flat EXCEPT !.objects[Len(flat.objects)].words = ws]
  BY <1>1, <1>4 DEF Answered
<1> HIDE DEF run, fresh, res, z, x, g
<1>6. run \in Runs /\ \A p \in DOMAIN run.chars : b <= p /\ p < b + n
  BY <1>1 DEF Placed
<1>7. run.chars \in Memories
  BY <1>6 DEF Runs
<1>8. /\ flat \in Heaps /\ flat.top = fresh.top /\ flat.objects = fresh.objects
      /\ \A a \in Addresses :
           Read(flat, a) = IF a.space = "new" /\ a.i \in DOMAIN run.chars THEN run.chars[a.i] ELSE Read(fresh, a)
  BY <1>1, <1>2, <1>7, ReadPut
<1> HIDE DEF flat
<1>9. ws \in Seq(Words) /\ Len(ws) = 3 + n /\ \A j \in 1..(3 + n) : ws[j] = Read(flat, Offset(res, j - 1))
  <2>1. 3 + n \in Nat
    BY <1>1
  <2> HIDE DEF n
  <2> QED BY <1>3, <1>8, <2>1, ReadAllIs
<1> HIDE DEF ws
<1>10. \A j \in 1..(3 + n) : /\ Offset(res, j - 1) \in Addresses /\ Offset(res, j - 1).space = "new"
                             /\ Offset(res, j - 1).i = t + j
  <2> SUFFICES ASSUME NEW j \in 1..(3 + n)
               PROVE  /\ Offset(res, j - 1) \in Addresses /\ Offset(res, j - 1).space = "new"
                      /\ Offset(res, j - 1).i = t + j
    OBVIOUS
  <2>1. j - 1 \in Int
    BY <1>1
  <2>2. Offset(res, j - 1) \in Addresses /\ Offset(res, j - 1).space = "new" /\ Offset(res, j - 1).i = res.i + (j - 1)
    BY <1>3, <2>1, OffsetIs
  <2>3. res.i + (j - 1) = t + j
    BY <1>1, <1>3
  <2> QED BY <2>2, <2>3
<1>11. y \in Entries
  BY <1>1, <1>3, <1>9 DEF Entries
<1>12. /\ g \in Heaps /\ g.top = flat.top /\ g.mem = flat.mem /\ g.objects = Append(h.objects, y)
  <2> DEFINE N == Len(h.objects)
  <2>1. fresh.objects = Append(h.objects, z) /\ h.objects \in Seq(Entries) /\ z \in Entries
    BY <1>1, <1>2 DEF Grown, Heaps
  <2>2. N \in Nat /\ Len(flat.objects) = N + 1 /\ flat.objects \in Seq(Entries) /\ flat.objects[N + 1] = z
        /\ flat.objects = Append(h.objects, z)
    BY <1>8, <2>1
  <2>3. [z EXCEPT !.words = ws] = y
    <3>1. z.at = res /\ z.text = x.text /\ z.short = FALSE
      BY DEF z, Entered, res, n
    <3>2. z \in [at : Addresses, words : Seq(Words), text : Seq(Letters), short : BOOLEAN]
      BY <2>1 DEF Entries
    <3>3. [z EXCEPT !.words = ws] = [at |-> z.at, words |-> ws, text |-> z.text, short |-> z.short]
      BY <3>2
    <3> QED BY <3>1, <3>3
  <2>4. g = [flat EXCEPT !.objects = [flat.objects EXCEPT ![N + 1] = y]]
    <3> HIDE DEF N, y
    <3>1. g = [flat EXCEPT !.objects[N + 1].words = ws]
      BY <1>5, <2>2
    <3>2. flat \in [mem : [Spaces -> Memories], top : [Spaces -> Nat], objects : Seq(Entries)]
      BY <1>8 DEF Heaps
    <3>3. [flat.objects EXCEPT ![N + 1].words = ws] = [flat.objects EXCEPT ![N + 1] = y]
      BY <2>2, <2>3
    <3> QED BY <3>1, <3>2, <3>3
  <2>5. [flat.objects EXCEPT ![N + 1] = y] = Append(h.objects, y)
    <3> HIDE DEF y, N
    <3>1. DOMAIN h.objects = 1..N /\ h.objects \in Seq(Entries) /\ N \in Nat
      BY <2>1, <2>2 DEF N
    <3>2. DOMAIN Append(h.objects, z) = 1..(N + 1) /\ DOMAIN Append(h.objects, y) = 1..(N + 1)
          /\ Append(h.objects, y)[N + 1] = y /\ \A p \in 1..N : Append(h.objects, z)[p] = Append(h.objects, y)[p]
      BY <1>11, <2>1, <3>1 DEF N
    <3>3. DOMAIN [flat.objects EXCEPT ![N + 1] = y] = 1..(N + 1)
      BY <2>2, <3>2
    <3>4. \A p \in 1..(N + 1) : [flat.objects EXCEPT ![N + 1] = y][p] = Append(h.objects, y)[p]
      <4> TAKE p \in 1..(N + 1)
      <4>1. CASE p = N + 1
        BY <2>2, <3>2, <4>1
      <4>2. CASE p # N + 1
        <5>1. p \in 1..N
          BY <3>1, <4>2
        <5> QED BY <2>2, <3>2, <4>2, <5>1
      <4> QED BY <4>1, <4>2
    <3>5. [flat.objects EXCEPT ![N + 1] = y] = [p \in 1..(N + 1) |-> [flat.objects EXCEPT ![N + 1] = y][p]]
      BY <3>3
    <3>6. Append(h.objects, y) = [p \in 1..(N + 1) |-> Append(h.objects, y)[p]]
      <4>1. Append(h.objects, y) \in Seq(Entries)
        BY <1>11, <2>1
      <4> DEFINE f == Append(h.objects, y)
      <4>2. f \in [1..(N + 1) -> Entries]
        <5>1. f \in Seq(Entries) /\ Len(f) = N + 1
          BY <1>11, <2>1, <3>1 DEF N
        <5> HIDE DEF f
        <5>2. f \in [1..Len(f) -> Entries]
          BY <5>1
        <5> QED BY <5>1, <5>2
      <4> HIDE DEF f
      <4>3. f = [p \in 1..(N + 1) |-> f[p]]
        BY <4>2
      <4> QED BY <4>3 DEF f
    <3> QED BY <3>4, <3>5, <3>6
  <2>6. Append(h.objects, y) \in Seq(Entries)
    BY <1>11, <2>1
  <2> HIDE DEF y
  <2> QED BY <1>8, <2>4, <2>5, <2>6 DEF Heaps
<1>13. \A a : Read(g, a) = Read(flat, a)
  BY <1>12 DEF Read
<1>14. Grown(h, g, "new", 4 + n, y)
  <2>1. ASSUME NEW a \in Addresses, a.space # "new" \/ a.i <= t \/ a.i > t + (4 + n)
        PROVE  Read(g, a) = Read(h, a)
    <3>1. a.i \in Int
      BY DEF Addresses
    <3>2. ~(a.space = "new" /\ a.i \in DOMAIN run.chars)
      BY <1>1, <1>3, <1>6, <2>1, <3>1, SMTT(30)
    <3>3. a.space # "new" \/ a.i <= t \/ a.i > t + 3
      BY <1>1, <1>3, <2>1, <3>1
    <3> QED BY <1>1, <1>8, <1>13, <3>2, <3>3
  <2>2. g.top = [h.top EXCEPT !["new"] = @ + (4 + n)]
    BY <1>1, <1>8, <1>12 DEF Grown
  <2>3. y.at = Top(h, "new")
    BY DEF res
  <2> HIDE DEF y, n
  <2> QED BY <1>11, <1>12, <2>1, <2>2, <2>3 DEF Grown
<1>15. /\ ws[1] \in Headers /\ ws[1].tag = "String" /\ ws[1].repr = "Normal" /\ ws[3] = Num(n)
  <2>1. ASSUME NEW j \in 1..3 PROVE ws[j] = Read(fresh, Offset(res, j - 1))
    <3>1. j \in 1..(3 + n) /\ t + j \notin DOMAIN run.chars
      BY <1>1, <1>3, <1>6, SMTT(30)
    <3> QED BY <1>8, <1>9, <1>10, <3>1
  <2>2. 1 \in 1..3 /\ 3 \in 1..3 /\ 1 \in 1..(3 + n) /\ 3 \in 1..(3 + n)
    BY <1>1
  <2> QED BY <1>1, <1>10, <2>1, <2>2
<1>16. Shaped(ws)
  <2>1. CountAt("String") = 2 /\ Counted("String") /\ Owned("String", "Normal", n) = 3 + n
    BY DEF CountAt, Counted, Owned
  <2>2. ws[3] \in [k : {"number"}, n : Nat] /\ ws[3].n = n
    BY <1>1, <1>15 DEF Num
  <2>3. Len(ws) >= 1 /\ 2 < Len(ws) /\ 2 + 1 = 3
    BY <1>1, <1>9
  <2>4. CountOf(ws) = n
    BY <1>15, <2>1, <2>2, <2>3 DEF CountOf
  <2> QED BY <1>9, <1>15, <2>1, <2>2, <2>3, <2>4 DEF Shaped
<1>17. \A j \in 1..(3 + n) : y.words[j] = Read(g, Offset(y.at, j - 1))
  BY <1>9, <1>13
<1>18. ReadsOwn(g, y)
  <2>1. DOMAIN y.words = 1..(3 + n)
    BY <1>9
  <2> HIDE DEF y
  <2> QED BY <1>17, <2>1 DEF ReadsOwn
<1>19. \A i \in 1..n : 3 + i \in 1..(3 + n) /\ t + (3 + i) = b + i - 1 /\ 3 + i - 1 \in Int
  <2>1. t \in Nat /\ n \in Nat /\ b = t + 4
    BY <1>1, <1>3
  <2> HIDE DEF t, n, b
  <2> QED BY <2>1
<1> HIDE DEF b
<1>20. ~Bad(h, o) => Spelt(y)
  <2> SUFFICES ASSUME ~Bad(h, o), NEW i \in 1..n PROVE ws[3 + i] = Char(x.text[i])
    BY DEF Spelt, n
  <2>1. b + i - 1 \in DOMAIN run.chars /\ run.chars[b + i - 1] = Char(x.text[i])
    BY <1>1 DEF Placed
  <2>2. ws[3 + i] = Read(flat, Offset(res, 3 + i - 1)) /\ Offset(res, 3 + i - 1) \in Addresses
        /\ Offset(res, 3 + i - 1).space = "new" /\ Offset(res, 3 + i - 1).i = b + i - 1
    BY <1>9, <1>10, <1>19, SMTT(30)
  <2> QED BY <1>8, <2>1, <2>2
<1>21. Bad(h, o) => \E i \in 1..n : ws[3 + i] \notin Characters
  <2> SUFFICES ASSUME Bad(h, o) PROVE \E i \in 1..n : ws[3 + i] \notin Characters
    OBVIOUS
  <2>1. PICK i \in 1..n : b + i - 1 \notin DOMAIN run.chars
    BY <1>1 DEF Placed
  <2>2. ws[3 + i] = Read(flat, Offset(res, 3 + i - 1)) /\ Offset(res, 3 + i - 1) \in Addresses
        /\ Offset(res, 3 + i - 1).space = "new" /\ Offset(res, 3 + i - 1).i = b + i - 1
    BY <1>9, <1>10, <1>19, SMTT(30)
  <2>3. b + i - 1 > t + 3 /\ b + i - 1 > t
    BY <1>1, <1>3 DEF b
  <2>5. ws[3 + i] = Read(h, Offset(res, 3 + i - 1))
    BY <1>1, <1>8, <2>1, <2>2, <2>3
  <2> QED BY <1>2, <2>2, <2>3, <2>5 DEF FreshInv
<1>22. IsText(y) /\ Whole(y) /\ y.words[3] = Num(n) /\ Len(y.words) = 3 + n /\ y.text = x.text /\ ~y.short
       /\ Shaped(y.words)
  BY <1>9, <1>15, <1>16 DEF IsText, Whole
<1>23. Bad(h, o) => \E i \in 1..n : y.words[3 + i] \notin Characters
  BY <1>21
<1> HIDE DEF y
<1>24. Answer(h, o, y)
  BY <1>14, <1>17, <1>18, <1>20, <1>22, <1>23 DEF Answer, g, x, n, b
<1> QED BY <1>24

(***************************************************************************)
(* The string that was asked.                                              *)
(***************************************************************************)

\* The words of a string of two are still those of a string when a half is exchanged.
LEMMA HalfExchanged ==
  ASSUME NEW words \in Seq(Words), Shaped(words), words[1].tag = "String", NEW i \in {4, 5}, i <= Len(words), NEW w \in Words
  PROVE  LET other == [words EXCEPT ![i] = w] IN
         /\ other \in Seq(Words) /\ Shaped(other) /\ Len(other) = Len(words) /\ other[1] = words[1] /\ other[3] = words[3]
         /\ other[i] = w /\ \A j \in DOMAIN words : j # i => other[j] = words[j]
<1> DEFINE other == [words EXCEPT ![i] = w]
<1>1. other \in Seq(Words) /\ Len(other) = Len(words)
  OBVIOUS
<1>2. DOMAIN words = 1..Len(words) /\ \A j \in DOMAIN words : other[j] = IF j = i THEN w ELSE words[j]
  OBVIOUS
<1>3. Counted("String") /\ CountAt("String") = 2
  BY DEF Counted, CountAt
<1>4. 1 \in DOMAIN words /\ 3 \in DOMAIN words /\ i \in DOMAIN words /\ Len(words) \in Nat
  BY <1>2
<1>5. other[1] = words[1] /\ other[3] = words[3] /\ other[i] = w
  BY <1>2, <1>4
<1> HIDE DEF other
<1>6. CountOf(other) = CountOf(words)
  BY <1>3, <1>5 DEF CountOf
<1>7. Shaped(other)
  BY <1>1, <1>3, <1>5, <1>6 DEF Shaped
<1> QED BY <1>1, <1>2, <1>5, <1>7 DEF other

\* What g is when the halves of a string of two are given up for one string.
Redirected(k, g, o, at) ==
  /\ HeapInv(g) /\ FreshInv(g) /\ AllRead(g)
  /\ DOMAIN g.objects = DOMAIN k.objects
  /\ \A p \in DOMAIN k.objects : p # o => g.objects[p] = k.objects[p]
  /\ g.objects[o].at = k.objects[o].at /\ g.objects[o].text = k.objects[o].text
  /\ g.objects[o].words[1] = k.objects[o].words[1] /\ g.objects[o].words[3] = k.objects[o].words[3]
  /\ g.objects[o].words[4] = Ref(at) /\ g.objects[o].words[5] = Nil
  /\ \A b \in Addresses :
       b.space # k.objects[o].at.space \/ b.i > k.objects[o].at.i + 4 => Read(g, b) = Read(k, b)

\* A write of a half into a string of two.
LEMMA HalfStored ==
  ASSUME NEW h, HeapInv(h), FreshInv(h), AllRead(h), NEW o \in DOMAIN h.objects, IsText(h.objects[o]),
         Len(h.objects[o].words) = 5, NEW n \in {3, 4}, NEW w \in Words, w \notin Characters
  PROVE  LET g == Store(h, o, n, w) IN
         /\ HeapInv(g) /\ FreshInv(g) /\ AllRead(g) /\ Stored(h, g, o, n, w)
         /\ Len(g.objects[o].words) = 5 /\ IsText(g.objects[o])
         /\ g.objects[o].words[n + 1] = w
         /\ \A j \in 1..5 : j # n + 1 => g.objects[o].words[j] = h.objects[o].words[j]
<1> DEFINE g == Store(h, o, n, w)
           x == h.objects[o]
           y == g.objects[o]
<1>1. h \in Heaps /\ x.words \in Seq(Words) /\ Shaped(x.words) /\ n \in 0..(Len(x.words) - 1) /\ DOMAIN x.words = 1..5
  <2>1. h \in Heaps /\ Shaped(x.words)
    BY DEF HeapInv, ShapeInv
  <2>2. x.words \in Seq(Words)
    BY <2>1, EntryOf
  <2> QED BY <2>1, <2>2
<1>2. Stored(h, g, o, n, w)
  BY <1>1, StoreIs
<1>3. n + 1 \in {4, 5} /\ n + 1 <= Len(x.words) /\ n # 0 /\ x.words[1].tag = "String"
  BY DEF IsText
<1> HIDE DEF g
<1>4. y.words = [x.words EXCEPT ![n + 1] = w]
  BY <1>2 DEF Stored
<1>5. /\ Shaped(y.words) /\ Len(y.words) = 5 /\ y.words[1] = x.words[1] /\ y.words[n + 1] = w
      /\ \A j \in 1..5 : j # n + 1 => y.words[j] = x.words[j]
  <2> HIDE DEF x, y
  <2>1. LET other == [x.words EXCEPT ![n + 1] = w] IN
         /\ Shaped(other) /\ Len(other) = Len(x.words) /\ other[1] = x.words[1]
         /\ other[n + 1] = w /\ \A j \in DOMAIN x.words : j # n + 1 => other[j] = x.words[j]
    BY <1>1, <1>3, HalfExchanged
  <2>2. Len(x.words) = 5
    BY DEF x
  <2> QED BY <1>1, <1>4, <2>1, <2>2
<1>6. HeapInv(g)
  BY <1>1, <1>2, <1>5, StoreKeeps
<1>7. FreshInv(g)
  BY <1>2, StoreIsFresh
<1>8. AllRead(g)
  BY <1>1, <1>2, <1>3, StoreReadsAll
<1>9. IsText(y)
  BY <1>5 DEF IsText
<1> QED BY <1>2, <1>5, <1>6, <1>7, <1>8, <1>9 DEF g

\* The two stores at the end of HString::value.
LEMMA RedirectedIs ==
  ASSUME NEW k, HeapInv(k), FreshInv(k), AllRead(k), NEW o \in DOMAIN k.objects, IsText(k.objects[o]),
         Len(k.objects[o].words) = 5, NEW at \in Addresses
  PROVE  Redirected(k, Store(Store(k, o, 4, Nil), o, 3, Ref(at)), o, at)
<1> DEFINE m == Store(k, o, 4, Nil)
           g == Store(m, o, 3, Ref(at))
<1>1. Nil \in Words /\ Ref(at) \in Words
  BY WordsIs
<1>2. Nil \notin Characters /\ Ref(at) \notin Characters
  <2>1. \A c \in Characters : c.k = "char"
    BY DEF Characters
  <2>2. Nil.k = "nil" /\ Ref(at).k = "reference"
    BY DEF Nil, Ref
  <2> QED BY <2>1, <2>2
<1>3. /\ HeapInv(m) /\ FreshInv(m) /\ AllRead(m) /\ Stored(k, m, o, 4, Nil)
      /\ Len(m.objects[o].words) = 5 /\ IsText(m.objects[o]) /\ m.objects[o].words[5] = Nil
      /\ \A j \in 1..5 : j # 5 => m.objects[o].words[j] = k.objects[o].words[j]
  <2>1. LET f == Store(k, o, 4, Nil) IN
      /\ HeapInv(f) /\ FreshInv(f) /\ AllRead(f) /\ Stored(k, f, o, 4, Nil)
      /\ Len(f.objects[o].words) = 5 /\ IsText(f.objects[o]) /\ f.objects[o].words[4 + 1] = Nil
      /\ \A j \in 1..5 : j # 4 + 1 => f.objects[o].words[j] = k.objects[o].words[j]
    BY <1>1, <1>2, HalfStored
  <2> QED BY <2>1
<1> HIDE DEF m
<1>4. o \in DOMAIN m.objects /\ DOMAIN m.objects = DOMAIN k.objects
      /\ m.objects[o].at = k.objects[o].at /\ m.objects[o].text = k.objects[o].text
  BY <1>3 DEF Stored
<1>5. /\ HeapInv(g) /\ FreshInv(g) /\ AllRead(g) /\ Stored(m, g, o, 3, Ref(at))
      /\ g.objects[o].words[4] = Ref(at)
      /\ \A j \in 1..5 : j # 4 => g.objects[o].words[j] = m.objects[o].words[j]
  <2>1. LET f == Store(m, o, 3, Ref(at)) IN
      /\ HeapInv(f) /\ FreshInv(f) /\ AllRead(f) /\ Stored(m, f, o, 3, Ref(at))
      /\ f.objects[o].words[3 + 1] = Ref(at)
      /\ \A j \in 1..5 : j # 3 + 1 => f.objects[o].words[j] = m.objects[o].words[j]
    <3>1. /\ HeapInv(m) /\ FreshInv(m) /\ AllRead(m) /\ o \in DOMAIN m.objects
          /\ IsText(m.objects[o]) /\ Len(m.objects[o].words) = 5
      BY <1>3, <1>4
    <3>2. 3 \in {3, 4} /\ Ref(at) \in Words /\ Ref(at) \notin Characters
      BY <1>1, <1>2
    <3> QED BY <3>1, <3>2, HalfStored
  <2> QED BY <2>1
<1> HIDE DEF g
<1>6. /\ g.objects[o].words[1] = k.objects[o].words[1] /\ g.objects[o].words[3] = k.objects[o].words[3]
      /\ g.objects[o].words[5] = Nil
  BY <1>3, <1>5
<1>7. \A p \in DOMAIN k.objects : p # o => g.objects[p] = k.objects[p]
  BY <1>3, <1>4, <1>5 DEF Stored
<1>8. /\ DOMAIN g.objects = DOMAIN k.objects
      /\ g.objects[o].at = k.objects[o].at /\ g.objects[o].text = k.objects[o].text
  BY <1>4, <1>5 DEF Stored
<1>9. ASSUME NEW b \in Addresses, b.space # k.objects[o].at.space \/ b.i > k.objects[o].at.i + 4
      PROVE  Read(g, b) = Read(k, b)
  <2>1. k.objects[o].at.i \in Int
    BY EntryOf DEF HeapInv
  <2>2. Read(m, b) = Read(k, b)
    BY <1>3, <1>9, <2>1 DEF Stored
  <2>3. Read(g, b) = Read(m, b)
    BY <1>4, <1>5, <1>9, <2>1 DEF Stored
  <2> QED BY <2>2, <2>3
<1>10. Redirected(k, g, o, at)
  BY <1>5, <1>6, <1>7, <1>8, <1>9 DEF Redirected
<1> QED BY <1>10 DEF g, m

\* A string of two becomes a string of one.
LEMMA RedirectedIsGood ==
  ASSUME NEW k, NEW right \in BOOLEAN, GoodHeap(k, right), NEW o \in DOMAIN k.objects,
         IsText(k.objects[o]), ~Whole(k.objects[o]), NEW q \in DOMAIN k.objects,
         IsText(k.objects[q]), Whole(k.objects[q]), k.objects[q].text = k.objects[o].text,
         NEW g, Redirected(k, g, o, k.objects[q].at)
  PROVE  GoodHeap(g, right)
<1>1. HeapInv(g) /\ FreshInv(g) /\ q # o /\ DOMAIN g.objects = DOMAIN k.objects
      /\ StructInv(k) /\ (right => SpeltInv(k))
  BY DEF Redirected, GoodHeap
<1>2. \A p \in DOMAIN k.objects : p # o => g.objects[p] = k.objects[p]
  BY DEF Redirected
<1> DEFINE x == k.objects[o]
           y == g.objects[o]
<1>3. /\ y.at = x.at /\ y.text = x.text /\ y.words[1] = x.words[1] /\ y.words[3] = x.words[3]
      /\ y.words[4] = Ref(k.objects[q].at) /\ y.words[5] = Nil /\ IsText(y) /\ ~Whole(y)
  BY DEF Redirected, IsText, Whole
<1>4. StructInv(g)
  <2> SUFFICES ASSUME NEW p \in DOMAIN g.objects, IsText(g.objects[p]) PROVE Made(g, p)
    BY DEF StructInv
  <2>1. CASE p = o
    <3>1. y.words[3] = Num(Len(y.text))
      BY <1>1, <1>3 DEF StructInv, Made
    <3>2. OfOne(g, y, q)
      BY <1>1, <1>2, <1>3 DEF OfOne
    <3> QED BY <1>1, <1>3, <2>1, <3>1, <3>2 DEF Made
  <2>2. CASE p # o
    <3> DEFINE z == k.objects[p]
    <3>1. g.objects[p] = z /\ IsText(z) /\ Made(k, p)
      BY <1>1, <1>2, <2>2 DEF StructInv
    <3>2. CASE Whole(z)
      BY <3>1, <3>2 DEF Made
    <3>3. CASE ~Whole(z) /\ z.words[5] = Nil
      <4>1. PICK m \in DOMAIN k.objects : OfOne(k, z, m)
        BY <3>1, <3>3 DEF Made
      <4>2. m # o
        BY <4>1 DEF OfOne
      <4>3. OfOne(g, z, m)
        BY <1>2, <4>1, <4>2 DEF OfOne
      <4> QED BY <1>1, <3>1, <3>3, <4>3 DEF Made
    <3>4. CASE ~Whole(z) /\ z.words[5] # Nil
      <4>1. PICK l, r \in DOMAIN k.objects : l < p /\ r < p /\ OfTwo(k, z, l, r)
        BY <3>1, <3>4 DEF Made
      <4>2. \A m \in DOMAIN k.objects :
              IsText(k.objects[m]) => IsText(g.objects[m]) /\ g.objects[m].at = k.objects[m].at
                                        /\ g.objects[m].text = k.objects[m].text
        BY <1>2, <1>3
      <4>3. OfTwo(g, z, l, r)
        BY <4>1, <4>2 DEF OfTwo
      <4> QED BY <1>1, <3>1, <3>4, <4>1, <4>3 DEF Made
    <3> QED BY <3>2, <3>3, <3>4
  <2> QED BY <2>1, <2>2
<1>5. right => SpeltInv(g)
  BY <1>1, <1>2, <1>3 DEF SpeltInv
<1> QED BY <1>1, <1>4, <1>5 DEF GoodHeap

\* AskValue: the text comes out unless a half is misplaced.
LEMMA ValueIs ==
  ASSUME NEW h, NEW o, Asked(h, o)
  PROVE  LET x == h.objects[o] IN
         /\ GoodHeap(Value(h, o), ~Bad(h, o)) /\ Carries(h, Value(h, o))
         /\ TextAt(Value(h, o))[x.at] = Chars(x.text) <=> ~Bad(h, o)
<1> DEFINE x == h.objects[o]
           n == Len(x.text)
           t == h.top["new"]
           N == Len(h.objects)
           right == ~Bad(h, o)
           k == Answered(h, o)
           g == Value(h, o)
<1>1. PICK y : Answer(h, o, y)
  BY AnswerIs
<1>2. /\ GoodHeap(h, TRUE) /\ HeapInv(h) /\ AllRead(h) /\ o \in DOMAIN h.objects /\ IsText(x) /\ Made(h, o)
      /\ ~Whole(x) /\ h \in Heaps /\ "new" \in Spaces
  BY DEF Asked, GoodHeap, HeapInv, StructInv, Spaces
<1>3. /\ Grown(h, k, "new", 4 + n, y) /\ Shaped(y.words) /\ ReadsOwn(k, y) /\ ~y.short
      /\ IsText(y) /\ Whole(y) /\ y.words[3] = Num(n) /\ Len(y.words) = 3 + n /\ y.text = x.text
      /\ \A j \in 1..(3 + n) : y.words[j] = Read(k, Offset(y.at, j - 1))
      /\ (right => Spelt(y)) /\ (~right => \E i \in 1..n : y.words[3 + i] \notin Characters)
  BY <1>1 DEF Answer
<1>4. x.text \in Seq(Letters) /\ n \in Nat /\ x.at \in Addresses /\ DOMAIN x.words = 1..5 /\ Len(x.words) = 5
  <2>1. x.words \in Seq(Words)
    BY <1>2, EntryOf
  <2>2. x.text \in Seq(Letters) /\ n \in Nat /\ x.at \in Addresses /\ DOMAIN x.words = 1..5
    BY <1>2, TextWords
  <2>3. DOMAIN x.words = 1..Len(x.words) /\ Len(x.words) \in Nat
    BY <2>1
  <2>4. Len(x.words) = 5
    <3> DEFINE l == Len(x.words)
    <3>1. l \in Nat /\ 1..5 = 1..l
      BY <2>2, <2>3
    <3> HIDE DEF l
    <3>2. 5 \in 1..l /\ (l > 5 => l \in 1..5)
      BY <3>1
    <3>3. l = 5
      BY <3>1, <3>2
    <3> QED BY <3>3 DEF l
  <2> QED BY <2>2, <2>4
<1>5. right \in BOOLEAN /\ GoodHeap(h, right)
  BY <1>2 DEF GoodHeap
<1>6. g = Store(Store(k, o, 4, Nil), o, 3, Ref(Top(h, "new")))
  BY ValueStores
<1>7. Top(h, "new") \in Addresses /\ Top(h, "new").space = "new" /\ Top(h, "new").i = t + 1 /\ t \in Nat
      /\ y.at = Top(h, "new") /\ k.objects = Append(h.objects, y) /\ y \in Entries
  BY <1>2, <1>3, TopIs DEF Grown
<1> HIDE DEF k, g, right
<1>8. N \in Nat /\ DOMAIN h.objects = 1..N /\ DOMAIN k.objects = 1..(N + 1) /\ k.objects[N + 1] = y
      /\ k.objects[o] = x /\ o \in 1..N
  <2>1. h.objects \in Seq(Entries)
    BY <1>2 DEF Heaps
  <2> HIDE DEF x
  <2>2. N \in Nat /\ DOMAIN h.objects = 1..N /\ DOMAIN k.objects = 1..(N + 1) /\ k.objects[N + 1] = y
        /\ \A p \in 1..N : k.objects[p] = h.objects[p]
    BY <1>7, <2>1
  <2> QED BY <1>2, <2>2 DEF x
<1>9. GoodHeap(k, right) /\ AllRead(k)
  <2>1. Made(k, N + 1)
    BY <1>3, <1>8 DEF Made
  <2>2. 4 + n >= Extent(y) /\ 4 + n \in Nat
    BY <1>3, <1>4 DEF Extent
  <2> HIDE DEF x, n
  <2>3. GoodHeap(k, right)
    BY <1>2, <1>3, <1>5, <2>1, <2>2, GrownIsGood
  <2>4. AllRead(k)
    BY <1>2, <1>3, <2>2, GrownReads
  <2> QED BY <2>3, <2>4
<1>10. Redirected(k, g, o, y.at)
  <2> HIDE DEF x
  <2>1. HeapInv(k) /\ FreshInv(k) /\ o \in DOMAIN k.objects /\ IsText(k.objects[o]) /\ Len(k.objects[o].words) = 5
    BY <1>2, <1>4, <1>8, <1>9 DEF GoodHeap
  <2> QED BY <1>6, <1>7, <1>9, <2>1, RedirectedIs
<1>11. GoodHeap(g, right)
  <2> HIDE DEF x
  <2>1. N + 1 \in DOMAIN k.objects /\ o \in DOMAIN k.objects
    BY <1>8
  <2> QED BY <1>2, <1>3, <1>5, <1>8, <1>9, <1>10, <2>1, RedirectedIsGood
<1>12. HeapInv(g) /\ StructInv(g) /\ AllRead(g) /\ Lettered(g)
  <2>1. HeapInv(g) /\ StructInv(g) /\ AllRead(g)
    BY <1>10, <1>11 DEF GoodHeap, Redirected
  <2> QED BY <2>1, TextsAreLegible DEF Lettered
<1>13. /\ o \in DOMAIN g.objects /\ g.objects[o].at = x.at /\ IsText(g.objects[o]) /\ ~Whole(g.objects[o])
       /\ g.objects[o].words[4] = Ref(y.at) /\ g.objects[o].words[5] = Nil
       /\ N + 1 \in DOMAIN g.objects /\ g.objects[N + 1] = y
  <2>1. N + 1 # o /\ o \in 1..(N + 1) /\ N + 1 \in 1..(N + 1)
    BY <1>8
  <2>2. g.objects[o].words[1] = x.words[1]
    BY <1>8, <1>10 DEF Redirected
  <2> QED BY <1>2, <1>8, <1>10, <2>1, <2>2 DEF Redirected, IsText, Whole
<1>14. x.at \in Texts(g) /\ Repr(g, x.at) # "Normal" /\ RightIsNil(g, x.at) /\ Left(g, x.at) = y.at
  <2>1. x.at \in Texts(g)
    BY <1>12, <1>13, OwnerIs
  <2>2. Made(g, o) /\ ReadsOwn(g, g.objects[o])
    BY <1>12, <1>13 DEF StructInv, AllRead
  <2>3. /\ Repr(g, x.at) = g.objects[o].words[1].repr
        /\ RightIsNil(g, x.at) /\ Left(g, x.at) = Ref(y.at).at
    BY <1>12, <1>13, <2>2, ReadText
  <2>4. Ref(y.at).at = y.at
    BY DEF Ref
  <2> QED BY <1>13, <2>1, <2>3, <2>4 DEF Whole
<1>15. y.at \in Texts(g) /\ Repr(g, y.at) = "Normal" /\ Count(g, y.at) = n
  <2>1. y.at \in Texts(g)
    BY <1>3, <1>12, <1>13, OwnerIs
  <2>2. Made(g, N + 1) /\ ReadsOwn(g, y)
    BY <1>3, <1>12, <1>13 DEF StructInv, AllRead
  <2>3. Repr(g, y.at) = y.words[1].repr /\ Count(g, y.at) = Len(y.text)
    BY <1>3, <1>12, <1>13, <2>2, ReadText
  <2> QED BY <1>3, <2>1, <2>3 DEF Whole
<1>16. x.at.space # "new" \/ x.at.i + 4 <= t
  <2>1. ~x.short
    BY <1>2, TextNotShort
  <2>2. x.at.i + 5 - 1 <= h.top[x.at.space]
    BY <1>2, <1>4, <2>1 DEF HeapInv, LayoutInv, Extent
  <2>3. x.at.i \in Int
    BY <1>4 DEF Addresses
  <2> QED BY <1>7, <2>2, <2>3
<1>17. ASSUME NEW i \in 1..n PROVE Read(g, Offset(y.at, 2 + i)) = y.words[3 + i]
  <2>1. 2 + i \in Int /\ 3 + i \in 1..(3 + n) /\ 3 + i - 1 = 2 + i /\ t + 1 + (2 + i) > t
    <3>1. t \in Nat /\ n \in Nat
      BY <1>4, <1>7
    <3> HIDE DEF t, n
    <3> QED BY <3>1
  <2>2. /\ Offset(y.at, 2 + i) \in Addresses /\ Offset(y.at, 2 + i).space = "new"
        /\ Offset(y.at, 2 + i).i = t + 1 + (2 + i)
    BY <1>7, <2>1, OffsetIs
  <2>3. Read(k, Offset(y.at, 2 + i)) = y.words[3 + i]
    BY <1>3, <2>1
  <2>4. Offset(y.at, 2 + i).space # x.at.space \/ Offset(y.at, 2 + i).i > x.at.i + 4
    <3>1. x.at.i \in Int
      BY <1>4 DEF Addresses
    <3> DEFINE c == x.at.i
    <3>2. c \in Int /\ t \in Nat /\ t + 1 + (2 + i) > t
      BY <1>7, <2>1, <3>1
    <3>3. CASE x.at.space # "new"
      BY <2>2, <3>3
    <3>4. CASE c + 4 <= t
      <4>1. t + 1 + (2 + i) > c + 4
        <5>1. i \in Int
          OBVIOUS
        <5> HIDE DEF t, c
        <5> QED BY <3>2, <3>4, <5>1
      <4> QED BY <2>2, <4>1 DEF c
    <3> QED BY <1>16, <3>3, <3>4
  <2>5. Read(g, Offset(y.at, 2 + i)) = Read(k, Offset(y.at, 2 + i))
    BY <1>8, <1>10, <2>2, <2>4 DEF Redirected
  <2> QED BY <2>3, <2>5
<1> DEFINE chars == [i \in 1..n |-> y.words[3 + i]]
<1>18. TextAt(g)[x.at] = chars
  <2>0. TextAt(g) = [b \in Texts(g) |-> TextOne(g, TextAt(g), b)]
    BY <1>12, TextAtIs
  <2> DEFINE f == TextAt(g)
  <2> HIDE DEF f
  <2>1. f[x.at] = TextOne(g, f, x.at) /\ f[y.at] = TextOne(g, f, y.at)
    BY <1>14, <1>15, <2>0 DEF f
  <2>2. f[y.at] = chars
    <3>1. f[y.at] = [i \in 1..n |-> Read(g, Offset(y.at, 2 + i))]
      BY <1>15, <2>1 DEF TextOne
    <3> QED BY <1>17, <3>1
  <2>3. f[x.at] = f[y.at] \o <<>>
    BY <1>14, <2>1 DEF TextOne
  <2>4. chars \in Seq(Words)
    <3>1. y.words \in Seq(Words)
      BY <1>7 DEF Entries
    <3>2. \A i \in 1..n : y.words[3 + i] \in Words
      BY <1>3, <1>4, <3>1
    <3> QED BY <1>4, <3>2
  <2>5. chars \o <<>> = chars
    <3> HIDE DEF chars
    <3> QED BY <2>4
  <2> QED BY <2>2, <2>3, <2>5 DEF f
<1>19. right => chars = Chars(x.text)
  <2> SUFFICES ASSUME right PROVE chars = Chars(x.text)
    OBVIOUS
  <2>1. \A i \in 1..n : y.words[3 + i] = Char(x.text[i])
    BY <1>3 DEF Spelt
  <2>2. DOMAIN x.text = 1..n
    BY <1>4
  <2> QED BY <2>1, <2>2 DEF Chars
<1>20. ~right => chars # Chars(x.text)
  <2> SUFFICES ASSUME ~right PROVE chars # Chars(x.text)
    OBVIOUS
  <2>1. PICK i \in 1..n : y.words[3 + i] \notin Characters
    BY <1>3
  <2>2. Chars(x.text)[i] = Char(x.text[i])
    BY <1>4, CharsIs
  <2>3. x.text[i] \in Letters
    BY <1>4
  <2>4. Char(x.text[i]) \in Characters
    BY <2>3 DEF Char, Characters
  <2>5. chars[i] = y.words[3 + i]
    OBVIOUS
  <2> QED BY <2>1, <2>2, <2>4, <2>5
<1>21. TextAt(g)[x.at] = Chars(x.text) <=> right
  <2> HIDE DEF chars
  <2> QED BY <1>18, <1>19, <1>20
<1>22. Carries(h, g)
  <2> HIDE DEF x, n
  <2> DEFINE m == Store(k, o, 4, Nil)
             w == Ref(Top(h, "new"))
  <2>1. HeapInv(k) /\ FreshInv(k) /\ AllRead(k) /\ o \in DOMAIN k.objects /\ IsText(k.objects[o])
        /\ Len(k.objects[o].words) = 5
    BY <1>2, <1>4, <1>8, <1>9 DEF GoodHeap
  <2>2. Nil \in Words /\ Nil \notin Characters /\ w \in Words
    <3>1. Nil.k = "nil"
      BY DEF Nil
    <3> QED BY <1>7, <3>1, WordsIs DEF Characters
  <2>3. HeapInv(m) /\ Stored(k, m, o, 4, Nil) /\ Len(m.objects[o].words) = 5
    BY <2>1, <2>2, HalfStored
  <2>4. Carries(k, m)
    <3>1. 4 \in 0..(Len(k.objects[o].words) - 1)
      BY <2>1
    <3> QED BY <2>1, <2>3, <3>1, StoredCarries
  <2> HIDE DEF m, w
  <2>5. Carries(m, Store(m, o, 3, w))
    <3>1. o \in DOMAIN m.objects /\ m \in Heaps
      BY <2>1, <2>3 DEF Stored
    <3>2. 3 \in 0..(Len(m.objects[o].words) - 1)
      BY <2>3
    <3>3. Stored(m, Store(m, o, 3, w), o, 3, w)
      BY <2>2, <3>1, <3>2, StoreIs
    <3> QED BY <2>3, <3>1, <3>2, <3>3, StoredCarries
  <2>6. Carries(h, k)
    <3>1. 4 + n \in Nat
      BY <1>4 DEF n, x
    <3> QED BY <1>2, <1>3, <3>1, GrownCarries
  <2>7. g = Store(m, o, 3, w)
    BY <1>6 DEF m, w
  <2> QED BY <2>4, <2>5, <2>6, <2>7, CarriesOn
<1> QED BY <1>11, <1>21, <1>22 DEF g, right

(***************************************************************************)
(* The heaps to start from.                                                *)
(***************************************************************************)

\* A heap in which every string reads as written.
Readable(h) == GoodHeap(h, TRUE) /\ AllRead(h) /\ First(h, "tmp")

\* Strings of a heap in which every string reads as written still do so after another is made.
LEMMA StringAdded ==
  ASSUME NEW h, Readable(h), NEW text \in Seq(Letters)
  PROVE  LET g == NewString(h, "new", Len(text), Chars(text), text) IN
         /\ Readable(g) /\ Len(g.objects) = Len(h.objects) + 1
         /\ IsText(g.objects[Len(h.objects) + 1])
         /\ \A p \in DOMAIN h.objects : g.objects[p] = h.objects[p]
<1> DEFINE n == Len(text)
           ws == <<Num(0), Num(n)>> \o Chars(text)
           g == NewString(h, "new", n, Chars(text), text)
           x == Entered(h, "new", "String", "Normal", ws, n, text)
           all == Headed("new", "String", "Normal", ws)
           N == Len(h.objects)
<1>1. GoodHeap(h, TRUE) /\ HeapInv(h) /\ AllRead(h) /\ h \in Heaps /\ "new" \in Spaces
  BY DEF Readable, GoodHeap, HeapInv, Spaces
<1>2. Chars(text) \in Seq(Words) /\ Len(Chars(text)) = n /\ n \in Nat /\ Len(Chars(text)) <= n
  BY CharsIs
<1>3. /\ GoodHeap(g, TRUE) /\ Carries(h, g)
      /\ Makes(h, "new", "String", "Normal", ws, 4 + n, n, text)
  BY <1>1, <1>2, NewStringIsGood
<1>4. g = New(h, "new", "String", "Normal", ws, 4 + n, text)
  BY DEF NewString
<1>5. Owned("String", "Normal", n) = 3 + n /\ 1 \in 1..(3 + n) /\ 4 + n \in Nat
  BY <1>2 DEF Owned
<1>6. ws \in Seq(Words)
  <2>1. Num(0) \in Words /\ Num(n) \in Words
    BY <1>2, WordsIs
  <2>2. <<Num(0), Num(n)>> \in Seq(Words)
    BY <2>1
  <2> QED BY <1>2, <2>2, CatIs
<1> HIDE DEF n, ws, g, x, all
<1>7. /\ Grown(h, g, "new", 4 + n, x) /\ ReadsOwn(g, x) /\ all[1].tag = "String" /\ Len(all) = 1 + Len(ws)
      /\ \A i \in 1..(3 + n) : x.words[i] = IF i \in 1..Len(all) THEN all[i] ELSE Untouched
  BY <1>3, <1>4, <1>5 DEF Makes, x, all
<1>8. IsText(x)
  <2>1. 1 \in 1..Len(all)
    BY <1>6, <1>7
  <2> QED BY <1>5, <1>7, <2>1 DEF IsText
<1>9. AllRead(g)
  BY <1>1, <1>5, <1>7, GrownReads
<1>10. N \in Nat /\ Len(g.objects) = N + 1 /\ g.objects[N + 1] = x /\ \A p \in DOMAIN h.objects : g.objects[p] = h.objects[p]
  <2>1. h.objects \in Seq(Entries) /\ g.objects = Append(h.objects, x) /\ x \in Entries
    BY <1>1, <1>7 DEF Heaps, Grown
  <2> QED BY <2>1
<1>11. First(g, "tmp")
  BY <1>3 DEF Readable, Carries, Spaces
<1> QED BY <1>3, <1>8, <1>9, <1>10, <1>11 DEF Readable, g, n

\* The same for a string of two.
LEMMA PairAdded ==
  ASSUME NEW h, Readable(h), NEW l \in DOMAIN h.objects, NEW r \in DOMAIN h.objects,
         IsText(h.objects[l]), IsText(h.objects[r])
  PROVE  LET g == NewCons(h, "new", l, r) IN
         /\ Readable(g) /\ Len(g.objects) = Len(h.objects) + 1
         /\ IsText(g.objects[Len(h.objects) + 1])
         /\ \A p \in DOMAIN h.objects : g.objects[p] = h.objects[p]
<1> DEFINE g == NewCons(h, "new", l, r)
           N == Len(h.objects)
<1>1. GoodHeap(h, TRUE) /\ HeapInv(h) /\ AllRead(h) /\ h \in Heaps /\ "new" \in Spaces /\ 5 \in Nat
  BY DEF Readable, GoodHeap, HeapInv, Spaces
<1>2. ReadsOwn(h, h.objects[l]) /\ ReadsOwn(h, h.objects[r])
  BY <1>1 DEF AllRead
<1>3. /\ GoodHeap(g, TRUE) /\ Carries(h, g)
      /\ \E x : Grown(h, g, "new", 5, x) /\ ReadsOwn(g, x) /\ IsText(x)
  BY <1>1, <1>2, NewConsIsGood
<1> HIDE DEF g
<1>4. PICK x : Grown(h, g, "new", 5, x) /\ ReadsOwn(g, x) /\ IsText(x)
  BY <1>3
<1>5. AllRead(g)
  BY <1>1, <1>4, GrownReads
<1>6. N \in Nat /\ Len(g.objects) = N + 1 /\ g.objects[N + 1] = x /\ \A p \in DOMAIN h.objects : g.objects[p] = h.objects[p]
  <2>1. h.objects \in Seq(Entries) /\ g.objects = Append(h.objects, x) /\ x \in Entries
    BY <1>1, <1>4 DEF Heaps, Grown
  <2> QED BY <2>1
<1>7. First(g, "tmp")
  BY <1>3 DEF Readable, Carries, Spaces
<1> QED BY <1>3, <1>4, <1>5, <1>6, <1>7 DEF Readable, g

\* The heap without objects.
LEMMA EmptyIsReadable == Readable(Empty)
<1>1. Empty \in Heaps
  <2>1. <<>> \in Memories
    <3>1. <<>> \in Seq(Words) /\ Len(<<>>) = 0
      OBVIOUS
    <3>2. <<>> \in [1..0 -> Words] /\ 1..0 \in SUBSET Int
      BY <3>1
    <3> QED BY <3>2 DEF Memories
  <2>2. <<>> \in Seq(Entries)
    OBVIOUS
  <2> QED BY <2>1, <2>2 DEF Empty, Heaps
<1>2. Empty.objects = <<>> /\ DOMAIN Empty.objects = {}
  BY DEF Empty
<1>3. FreshInv(Empty)
  <2> SUFFICES ASSUME NEW b \in Addresses PROVE Read(Empty, b) \notin Characters
    BY DEF FreshInv
  <2>1. b.space \in Spaces
    BY DEF Addresses
  <2>2. Empty.mem[b.space] = <<>> /\ DOMAIN <<>> = {}
    BY <2>1 DEF Empty
  <2>3. Read(Empty, b) = Untouched
    BY <2>2 DEF Read
  <2>4. \A c \in Characters : c.k = "char"
    BY DEF Characters
  <2>5. Untouched.k = "untouched"
    BY DEF Untouched
  <2> QED BY <2>3, <2>4, <2>5
<1>4. First(Empty, "tmp")
  BY DEF First, Empty, Spaces
<1> QED BY <1>1, <1>2, <1>3, <1>4 DEF Readable, GoodHeap, HeapInv, ShapeInv, LayoutInv, ReadInv, StructInv, SpeltInv, AllRead

\* The heaps to start from are good ones, and every string in them reads as written.
LEMMA InitIsReadable ==
  ASSUME Init
  PROVE  Readable(heap)
<1> DEFINE one == NewString(Empty, "new", 1, Chars(<<"a">>), <<"a">>)
           two == NewString(one, "new", 2, Chars(<<"b", "c">>), <<"b", "c">>)
           both == NewCons(two, "new", 2, 1)
<1>1. <<"a">> \in Seq(Letters) /\ Len(<<"a">>) = 1 /\ <<"b", "c">> \in Seq(Letters) /\ Len(<<"b", "c">>) = 2
  BY DEF Letters
<1>2. Len(Empty.objects) = 0
  BY DEF Empty
<1>3. Readable(one) /\ Len(one.objects) = 1 /\ IsText(one.objects[1])
  <2>1. LET g == NewString(Empty, "new", Len(<<"a">>), Chars(<<"a">>), <<"a">>) IN
        /\ Readable(g) /\ Len(g.objects) = Len(Empty.objects) + 1
        /\ IsText(g.objects[Len(Empty.objects) + 1])
    BY <1>1, EmptyIsReadable, StringAdded
  <2>2. Len(Empty.objects) + 1 = 1
    BY <1>2
  <2> QED BY <1>1, <2>1, <2>2
<1> HIDE DEF one
<1>4. /\ Readable(two) /\ Len(two.objects) = 2 /\ IsText(two.objects[2])
      /\ \A p \in DOMAIN one.objects : two.objects[p] = one.objects[p]
  <2>1. LET g == NewString(one, "new", Len(<<"b", "c">>), Chars(<<"b", "c">>), <<"b", "c">>) IN
        /\ Readable(g) /\ Len(g.objects) = Len(one.objects) + 1
        /\ IsText(g.objects[Len(one.objects) + 1])
        /\ \A p \in DOMAIN one.objects : g.objects[p] = one.objects[p]
    BY <1>1, <1>3, StringAdded
  <2>2. Len(one.objects) + 1 = 2
    BY <1>3
  <2> QED BY <1>1, <2>1, <2>2
<1> HIDE DEF two
<1>5. \A h : Readable(h) => h.objects \in Seq(Entries)
  BY DEF Readable, GoodHeap, HeapInv, Heaps
<1>6. DOMAIN one.objects = 1..1 /\ DOMAIN two.objects = 1..2
  BY <1>3, <1>4, <1>5
<1>7. 1 \in DOMAIN two.objects /\ 2 \in DOMAIN two.objects /\ IsText(two.objects[1])
  BY <1>3, <1>4, <1>6
<1>8. /\ Readable(both) /\ Len(both.objects) = 3 /\ IsText(both.objects[3])
      /\ \A p \in DOMAIN two.objects : both.objects[p] = two.objects[p]
  <2>1. LET g == NewCons(two, "new", 2, 1) IN
        /\ Readable(g) /\ Len(g.objects) = Len(two.objects) + 1
        /\ IsText(g.objects[Len(two.objects) + 1])
        /\ \A p \in DOMAIN two.objects : g.objects[p] = two.objects[p]
    BY <1>4, <1>7, PairAdded
  <2>2. Len(two.objects) + 1 = 3
    BY <1>4
  <2> QED BY <2>1, <2>2
<1> HIDE DEF both
<1>9. DOMAIN both.objects = 1..3
  BY <1>5, <1>8
<1>10. \A p \in 1..3 : p \in DOMAIN both.objects /\ IsText(both.objects[p])
  BY <1>4, <1>6, <1>7, <1>8, <1>9
<1>11. ASSUME NEW l \in 1..3, NEW r \in 1..3 PROVE Readable(NewCons(both, "new", l, r))
  BY <1>8, <1>10, PairAdded
<1>12. heap \in {two, NewCons(both, "new", 1, 3), NewCons(both, "new", 3, 2), NewCons(both, "new", 3, 3)}
  BY DEF Init, one, two, both
<1> QED BY <1>4, <1>11, <1>12

(***************************************************************************)
(* The theorems.                                                           *)
(***************************************************************************)

\* A copy was given the words of its object's size, and its object owns those of its count.
CopiedInv ==
  \/ copied = [tag |-> "none", owned |-> 0, read |-> 0]
  \/ \E tag \in Kinds, repr \in Reprs, count \in Nat :
       /\ copied.tag = tag
       /\ copied.owned = Owned(tag, repr, count) /\ copied.read = Size(tag, repr, count)

AskedInv == asked.right \in BOOLEAN /\ (asked.right <=> ~asked.misplaced)

\* What the swap of a collection found was a heap as before any, and what was handed out since is apart from it.
BeforeInv ==
  /\ First(heap, "tmp")
  /\ Swapped =>
       /\ gcType = "None" /\ HeapInv(before.heap) /\ First(before.heap, "tmp")
       /\ Since(heap, before.heap, before.space)

IInv == GoodHeap(heap, asked.right) /\ CopiedInv /\ AskedInv /\ BeforeInv

\* The inductive invariant holds at the start.
LEMMA InitInv ==
  ASSUME Init
  PROVE  IInv
<1>1. GoodHeap(heap, TRUE) /\ First(heap, "tmp")
  BY InitIsReadable DEF Readable
<1> QED BY <1>1 DEF IInv, Init, CopiedInv, AskedInv, BeforeInv, Swapped

\* What was found by the last swap stays so in a step that leaves it alone and carries the heap on.
LEMMA BeforeKept ==
  ASSUME BeforeInv, Carries(heap, heap'), UNCHANGED <<gcType, before>>
  PROVE  BeforeInv'
BY DEF BeforeInv, Swapped, Carries, Spaces

\* A step that adds an object or writes a word keeps the rest of the state.
LEMMA BuildInv ==
  ASSUME IInv, NEW h, Build(h), GoodHeap(h, asked.right), Carries(heap, h)
  PROVE  IInv'
<1>1. BeforeInv'
  BY BeforeKept DEF IInv, Build
<1> QED BY <1>1 DEF IInv, Build, CopiedInv, AskedInv

\* Numbers, booleans and functions are made.
LEMMA BuildFixedInv ==
  ASSUME IInv, BuildFixed
  PROVE  IInv'
<1>1. asked.right \in BOOLEAN /\ GoodHeap(heap, asked.right)
  BY DEF IInv, AskedInv
<1>2. CASE \E s \in Spaces, tag \in {"Boolean", "Number"} : Build(NewBoxed(heap, s, tag))
  BY <1>1, <1>2, BuildInv, NewBoxedIsGood
<1>3. CASE Build(NewFunction(heap))
  BY <1>1, <1>3, BuildInv, NewFunctionIsGood
<1> QED BY <1>2, <1>3 DEF BuildFixed

\* Contexts, maps and external data are made.
LEMMA BuildSizedInv ==
  ASSUME IInv, BuildSized
  PROVE  IInv'
<1>1. asked.right \in BOOLEAN /\ GoodHeap(heap, asked.right)
  BY DEF IInv, AskedInv
<1>2. CASE \E n \in 0..MaxSlots : Build(NewContext(heap, "new", n))
  <2>1. PICK n \in 0..MaxSlots : Build(NewContext(heap, "new", n))
    BY <1>2
  <2>2. n \in Nat /\ "new" \in Spaces
    BY DEF Spaces
  <2> QED BY <1>1, <2>1, <2>2, BuildInv, NewContextIsGood
<1>3. CASE \E n \in 1..2 : Build(NewMap(heap, n)) \/ Build(NewData(heap, n))
  <2>1. PICK n \in 1..2 : Build(NewMap(heap, n)) \/ Build(NewData(heap, n))
    BY <1>3
  <2>2. n \in Nat
    OBVIOUS
  <2> QED BY <1>1, <2>1, <2>2, BuildInv, NewMapIsGood, NewDataIsGood
<1> QED BY <1>2, <1>3 DEF BuildSized

\* Objects and arrays are made.
LEMMA BuildObjectInv ==
  ASSUME IInv, BuildObject
  PROVE  IInv'
<1>1. asked.right \in BOOLEAN /\ GoodHeap(heap, asked.right)
  BY DEF IInv, AskedInv
<1> DEFINE object == WithMap(heap, "Object", <<>>, 1)
           array == WithMap(heap, "Array", <<Num(0)>>, 1)
<1>2. GoodHeap(object, asked.right) /\ Carries(heap, object)
  BY <1>1, WithMapIsGood
<1>3. GoodHeap(array, asked.right) /\ Carries(heap, array)
  BY <1>1, WithMapIsGood
<1> QED BY <1>2, <1>3, BuildInv DEF BuildObject

\* Strings, of characters or of two others, are made.
LEMMA BuildStringInv ==
  ASSUME IInv, BuildString
  PROVE  IInv'
<1>1. asked.right \in BOOLEAN /\ GoodHeap(heap, asked.right) /\ HeapInv(heap)
  BY DEF IInv, AskedInv, GoodHeap
<1>2. PICK s \in Spaces :
        \/ \E text \in {<<>>, <<"x">>} : Build(NewString(heap, s, Len(text), Chars(text), text))
        \/ \E l, r \in Strings : Alone(l) /\ Alone(r) /\ Build(NewCons(heap, s, l, r))
  BY DEF BuildString
<1>3. CASE \E text \in {<<>>, <<"x">>} : Build(NewString(heap, s, Len(text), Chars(text), text))
  <2>1. PICK text \in {<<>>, <<"x">>} : Build(NewString(heap, s, Len(text), Chars(text), text))
    BY <1>3
  <2>2. text \in Seq(Letters)
    <3>1. "x" \in Letters
      BY DEF Letters
    <3> HIDE DEF Letters
    <3>2. <<>> \in Seq(Letters) /\ <<"x">> \in Seq(Letters)
      BY <3>1
    <3> QED BY <2>1, <3>2
  <2>3. Chars(text) \in Seq(Words) /\ Len(Chars(text)) <= Len(text)
    <3>1. Len(text) \in Nat
      BY <2>2
    <3> QED BY <2>2, <3>1, CharsIs
  <2>4. /\ GoodHeap(NewString(heap, s, Len(text), Chars(text), text), asked.right)
        /\ Carries(heap, NewString(heap, s, Len(text), Chars(text), text))
    <3> HIDE DEF Letters
    <3> QED BY <1>1, <2>2, <2>3, NewStringIsGood
  <2> QED BY <2>1, <2>4, BuildInv
<1>4. CASE \E l, r \in Strings : Alone(l) /\ Alone(r) /\ Build(NewCons(heap, s, l, r))
  <2>1. PICK l \in Strings, r \in Strings : Alone(l) /\ Alone(r) /\ Build(NewCons(heap, s, l, r))
    BY <1>4
  <2>2. /\ l \in DOMAIN heap.objects /\ r \in DOMAIN heap.objects /\ l \in Objects /\ r \in Objects
        /\ IsText(heap.objects[l]) /\ IsText(heap.objects[r])
    BY DEF Strings, Objects, TagOf, IsText
  <2>3. ReadsOwn(heap, heap.objects[l]) /\ ReadsOwn(heap, heap.objects[r])
    BY <1>1, <2>1, <2>2, AloneReads
  <2>4. GoodHeap(NewCons(heap, s, l, r), asked.right) /\ Carries(heap, NewCons(heap, s, l, r))
    BY <1>1, <2>2, <2>3, NewConsIsGood
  <2> QED BY <2>1, <2>4, BuildInv
<1> QED BY <1>2, <1>3, <1>4

\* The program writes to an object.
LEMMA WriteInv ==
  ASSUME IInv, Write
  PROVE  IInv'
<1>1. asked.right \in BOOLEAN /\ GoodHeap(heap, asked.right)
  BY DEF IInv, AskedInv
<1>2. PICK o \in Objects : \E n \in Fields(heap.objects[o].words) : Build(Store(heap, o, n, Num(7)))
  BY DEF Write
<1>3. PICK n \in Fields(heap.objects[o].words) : Build(Store(heap, o, n, Num(7)))
  BY <1>2
<1> QED BY <1>1, <1>3, BuildInv, WriteIsGood

\* Where every string is alone, every string reads as written.
LEMMA StringsRead ==
  ASSUME HeapInv(heap), \A o \in Strings : Alone(o)
  PROVE  AllRead(heap)
<1> SUFFICES ASSUME NEW o \in DOMAIN heap.objects, IsText(heap.objects[o]) PROVE ReadsOwn(heap, heap.objects[o])
  BY DEF AllRead
<1>1. o \in Strings /\ o \in Objects
  BY DEF Strings, Objects, TagOf, IsText
<1> QED BY <1>1, AloneReads

\* A string is asked for its characters.
LEMMA AskValueInv ==
  ASSUME IInv, AskValue
  PROVE  IInv'
<1>1. asked.right = TRUE
  <2>1. Grows(1)
    BY DEF AskValue, Program
  <2> QED BY <2>1 DEF IInv, AskedInv, Grows
<1>2. GoodHeap(heap, TRUE) /\ HeapInv(heap) /\ StructInv(heap)
  BY <1>1 DEF IInv, GoodHeap
<1>3. AllRead(heap)
  BY <1>2, StringsRead DEF AskValue
<1>4. PICK o \in Strings :
        LET a == heap.objects[o].at IN
        /\ Repr(heap, a) = "Cons" /\ ~RightIsNil(heap, a)
        /\ heap' = Value(heap, o)
        /\ asked' = [misplaced |-> Misplaced(heap)[a],
                     right |-> TextAt(heap')[a] = Chars(heap.objects[o].text)]
  BY DEF AskValue
<1> DEFINE x == heap.objects[o]
<1>5. o \in DOMAIN heap.objects /\ IsText(x)
  BY DEF Strings, Objects, TagOf, IsText
<1>6. ReadsOwn(heap, x) /\ Made(heap, o)
  BY <1>2, <1>3, <1>5 DEF AllRead, StructInv
<1>7. ~Whole(x) /\ x.words[5] # Nil
  <2>1. Repr(heap, x.at) = x.words[1].repr /\ (~Whole(x) => (RightIsNil(heap, x.at) <=> x.words[5] = Nil))
    BY <1>2, <1>5, <1>6, ReadText
  <2>2. ~Whole(x)
    BY <1>4, <2>1 DEF Whole
  <2> QED BY <1>4, <2>1, <2>2
<1>8. Asked(heap, o)
  BY <1>2, <1>3, <1>5, <1>7 DEF Asked
<1>9. /\ GoodHeap(heap', ~Bad(heap, o)) /\ Carries(heap, heap')
      /\ TextAt(heap')[x.at] = Chars(x.text) <=> ~Bad(heap, o)
  BY <1>4, <1>8, ValueIs
<1>10. Misplaced(heap)[x.at] <=> Bad(heap, o)
  <2>1. Lettered(heap)
    BY <1>2, <1>3, TextsAreLegible DEF Lettered
  <2>2. x.at \in Texts(heap)
    BY <1>2, <1>5, OwnerIs
  <2>3. Misplaced(heap) = [a \in Texts(heap) |-> MisplacedOne(heap, Misplaced(heap), a)]
    BY <2>1, MisplacedIs
  <2> DEFINE f == Misplaced(heap)
  <2> HIDE DEF f
  <2>4. f[x.at] = MisplacedOne(heap, f, x.at)
    BY <2>2, <2>3 DEF f
  <2>5. MisplacedOne(heap, f, x.at) \in BOOLEAN
    BY DEF MisplacedOne
  <2>6. f[x.at] \in BOOLEAN
    BY <2>4, <2>5
  <2> QED BY <2>6 DEF f, Bad
<1>11. asked'.right \in BOOLEAN /\ (asked'.right <=> ~Bad(heap, o)) /\ (asked'.misplaced <=> Bad(heap, o))
  BY <1>4, <1>9, <1>10
<1>12. AskedInv'
  BY <1>11 DEF AskedInv
<1>13. GoodHeap(heap', asked'.right)
  BY <1>9, <1>11 DEF GoodHeap
<1>14. CopiedInv'
  BY DEF IInv, AskValue, CopiedInv
<1>15. BeforeInv'
  BY <1>9, BeforeKept DEF IInv, AskValue
<1> QED BY <1>12, <1>13, <1>14, <1>15 DEF IInv

\* A collection begins.
LEMMA CollectGarbageInv ==
  ASSUME IInv, CollectGarbage
  PROVE  IInv'
<1>1. BeforeInv'
  BY DEF IInv, BeforeInv, CollectGarbage, Swapped
<1> QED BY <1>1 DEF IInv, CollectGarbage, CopiedInv, AskedInv

\* An object is copied.
LEMMA CopyToInv ==
  ASSUME IInv, CopyTo
  PROVE  IInv'
<1>1. asked.right \in BOOLEAN /\ GoodHeap(heap, asked.right) /\ HeapInv(heap) /\ heap \in Heaps
  BY DEF IInv, AskedInv, GoodHeap, HeapInv
<1>2. PICK o \in Objects :
        /\ Alone(o) /\ heap' = Copy(heap, o, gcType)
        /\ copied' = [tag |-> TagOf(o), owned |-> Len(heap.objects[o].words),
                      read |-> heap'.top.new + heap'.top.old + heap'.top.tmp
                                 - (heap.top.new + heap.top.old + heap.top.tmp)]
  BY DEF CopyTo
<1> DEFINE words == heap.objects[o].words
           size == Size(words[1].tag, words[1].repr, CountOf(words))
<1>3. o \in DOMAIN heap.objects /\ ReadsOwn(heap, heap.objects[o]) /\ ~heap.objects[o].short
  BY <1>1, <1>2, AloneReads DEF Objects
<1>4. /\ GoodHeap(heap', asked.right)
      /\ First(heap, "tmp") => First(heap', "tmp")
      /\ \E s \in Spaces : heap'.top = [heap.top EXCEPT ![s] = @ + size]
  BY <1>1, <1>2, <1>3, CopyIsGood
<1>5. words[1] \in Headers /\ CountOf(words) \in Nat /\ Len(words) = Owned(words[1].tag, words[1].repr, CountOf(words))
  BY <1>1, <1>3, ReadHeader
<1>6. words[1].tag \in Kinds /\ words[1].repr \in Reprs
  BY <1>5 DEF Headers
<1>7. size \in Nat
  BY <1>5, <1>6, SizeIs
<1>8. heap'.top.new + heap'.top.old + heap'.top.tmp - (heap.top.new + heap.top.old + heap.top.tmp) = size
  <2>1. heap.top \in [Spaces -> Nat] /\ "new" \in Spaces /\ "old" \in Spaces /\ "tmp" \in Spaces
    BY <1>1 DEF Heaps, Spaces
  <2>2. PICK s \in {"new", "old", "tmp"} : heap'.top = [heap.top EXCEPT ![s] = @ + size]
    BY <1>4 DEF Spaces
  <2> HIDE DEF size
  <2>3. heap.top["new"] \in Nat /\ heap.top["old"] \in Nat /\ heap.top["tmp"] \in Nat
    BY <2>1
  <2> QED BY <1>7, <2>1, <2>2, <2>3
<1>9. CopiedInv'
  <2>1. copied'.tag = words[1].tag /\ copied'.owned = Len(words) /\ copied'.read = size
    BY <1>2, <1>8 DEF TagOf
  <2> QED BY <1>5, <1>6, <2>1 DEF CopiedInv
<1>10. asked' = asked
  BY DEF CopyTo
<1>11. BeforeInv'
  BY <1>4 DEF IInv, BeforeInv, CopyTo, Swapped
<1> QED BY <1>4, <1>9, <1>10, <1>11 DEF IInv, AskedInv

\* What a swap leaves is good for a heap: no object is followed, and no character lies above a top.
LEMMA RestartIsGood ==
  ASSUME NEW h, HeapInv(h), FreshInv(h), NEW sp \in Spaces
  PROVE  LET g == Restart(h, {sp, "tmp"}) IN
         GoodHeap(g, TRUE) /\ First(g, "tmp") /\ Since(g, h, sp)
<1> DEFINE S == {sp, "tmp"}
           g == Restart(h, S)
<1>1. h \in Heaps /\ h.mem \in [Spaces -> Memories] /\ h.top \in [Spaces -> Nat] /\ <<>> \in Memories
  <2>1. Empty \in Heaps /\ "new" \in Spaces
    BY EmptyIsReadable DEF Readable, GoodHeap, HeapInv, Spaces
  <2>2. Empty.mem["new"] = <<>> /\ Empty.mem["new"] \in Memories
    BY <2>1 DEF Empty, Heaps
  <2> QED BY <2>2 DEF HeapInv, Heaps
<1>2. /\ g.mem = [s \in Spaces |-> IF s \in S THEN <<>> ELSE h.mem[s]]
      /\ g.top = [s \in Spaces |-> IF s \in S THEN 0 ELSE h.top[s]]
      /\ g.objects = <<>> /\ DOMAIN g.objects = {}
      /\ g = [mem |-> g.mem, top |-> g.top, objects |-> g.objects]
  BY DEF Restart
<1>3. g \in Heaps
  <2>1. g.mem \in [Spaces -> Memories] /\ g.top \in [Spaces -> Nat] /\ g.objects \in Seq(Entries)
    <3>1. <<>> \in Seq(Entries)
      OBVIOUS
    <3> HIDE DEF g
    <3> QED BY <1>1, <1>2, <3>1
  <2> HIDE DEF g
  <2> QED BY <1>2, <2>1 DEF Heaps
<1>4. "tmp" \in Spaces
  BY DEF Spaces
<1> HIDE DEF g
<1>5. ASSUME NEW a \in Addresses
      PROVE  Read(g, a) = IF a.space \in S THEN Untouched ELSE Read(h, a)
  <2>1. a.space \in Spaces
    BY DEF Addresses
  <2>2. CASE a.space \in S
    <3>1. g.mem[a.space] = <<>> /\ DOMAIN <<>> = {}
      BY <1>2, <2>1, <2>2
    <3> QED BY <2>2, <3>1 DEF Read
  <2>3. CASE a.space \notin S
    <3>1. g.mem[a.space] = h.mem[a.space]
      BY <1>2, <2>1, <2>3
    <3> QED BY <2>3, <3>1 DEF Read
  <2> QED BY <2>2, <2>3
<1>6. FreshInv(g)
  <2> SUFFICES ASSUME NEW a \in Addresses, a.i > g.top[a.space] PROVE Read(g, a) \notin Characters
    BY DEF FreshInv
  <2>1. a.space \in Spaces
    BY DEF Addresses
  <2>2. CASE a.space \in S
    <3>1. Untouched.k = "untouched" /\ \A c \in Characters : c.k = "char"
      BY DEF Untouched, Characters
    <3> QED BY <1>5, <2>2, <3>1
  <2>3. CASE a.space \notin S
    BY <1>2, <1>5, <2>1, <2>3 DEF FreshInv
  <2> QED BY <2>2, <2>3
<1>7. GoodHeap(g, TRUE)
  BY <1>2, <1>3, <1>6 DEF GoodHeap, HeapInv, ShapeInv, LayoutInv, ReadInv, StructInv, SpeltInv
<1>8. First(g, "tmp") /\ First(g, sp)
  BY <1>2, <1>4 DEF First
<1>9. Since(g, h, sp)
  <2>1. \A s \in Spaces \ {sp, "tmp"} : g.top[s] = h.top[s] /\ h.top[s] \in Nat
    BY <1>1, <1>2
  <2>2. \A s \in Spaces \ {sp, "tmp"} : g.top[s] >= h.top[s]
    BY <2>1
  <2>3. \A a \in Addresses : a.space = sp => Read(g, a) = Untouched
    BY <1>5
  <2>4. \A a \in Addresses : a.space \notin {sp, "tmp"} => Read(g, a) = Read(h, a)
    BY <1>5
  <2> QED BY <1>1, <1>2, <1>8, <2>2, <2>3, <2>4 DEF Since
<1> QED BY <1>7, <1>8, <1>9 DEF g

\* The collection ends.
LEMMA SwapInv ==
  ASSUME IInv, Swap
  PROVE  IInv'
<1>1. HeapInv(heap) /\ FreshInv(heap) /\ First(heap, "tmp") /\ Collected \in Spaces
  BY DEF IInv, GoodHeap, BeforeInv, Collected, Spaces
<1>2. /\ heap' = Restart(heap, {Collected, "tmp"}) /\ before' = [space |-> Collected, heap |-> heap]
      /\ gcType' = "None" /\ copied' = copied /\ asked' = asked
  BY DEF Swap
<1> DEFINE sp == Collected
<1>3. sp \in Spaces /\ sp = Collected
  BY <1>1
<1> HIDE DEF sp
<1>4. GoodHeap(heap', TRUE) /\ First(heap', "tmp") /\ Since(heap', heap, sp)
  BY <1>1, <1>2, <1>3, RestartIsGood
<1>5. BeforeInv'
  <2>1. before'.space = sp /\ before'.heap = heap
    BY <1>2, <1>3
  <2> QED BY <1>1, <1>2, <1>4, <2>1 DEF BeforeInv, Swapped
<1>6. GoodHeap(heap', asked'.right)
  BY <1>4 DEF GoodHeap
<1> QED BY <1>2, <1>5, <1>6 DEF IInv, CopiedInv, AskedInv

\* Whatever is made, written and flattened, and copied in a collection, objects keep their shape and their places and
\* strings what they are made of, and nothing but what a short copy lacks is written above the top of a space; what is
\* made after the swap is apart from the objects promoted, and lies on the copies in the space collected: IInv is inductive.
THEOREM ObjectsInductive == Spec => []IInv
<1>1. Init => IInv
  BY InitInv
<1>2. IInv /\ [Next]_vars => IInv'
  <2> SUFFICES ASSUME IInv, [Next]_vars PROVE IInv'
    OBVIOUS
  <2>1. CASE UNCHANGED vars
    BY <2>1 DEF IInv, CopiedInv, AskedInv, BeforeInv, Swapped, vars
  <2>2. CASE Next
    BY <2>2, BuildFixedInv, BuildSizedInv, BuildObjectInv, BuildStringInv, WriteInv, AskValueInv, CollectGarbageInv,
       CopyToInv, SwapInv DEF Next
  <2> QED BY <2>1, <2>2
<1> QED BY <1>1, <1>2, PTL DEF Spec

\* Objects of any number and size, made, written and flattened in any order and then copied, and those made after the
\* swap, read as what was last written to them: constructors, accessors and copy_to agree about their words, but for
\* short copies of contexts.
THEOREM ObjectsReadAsWritten == Spec => []ReadsAsWritten
<1>1. IInv => ReadsAsWritten
  BY DEF IInv, GoodHeap, HeapInv, ReadInv, Exempt, ReadsOwn, ReadsAsWritten, Objects
<1> QED BY <1>1, ObjectsInductive, PTL

\* After a swap promoted objects read as they did, however many are made, and the copies in the space collected do until
\* their words are handed out: the first object made there always lies on the first of them.
THEOREM SurvivorsAreOverrun == Spec => []SurvivorsOverrun
<1>1. IInv => SurvivorsOverrun
  <2> SUFFICES ASSUME IInv, Swapped PROVE SurvivorsOverrun
    BY DEF SurvivorsOverrun
  <2> DEFINE b == before.heap
             sp == before.space
  <2>1. HeapInv(b) /\ First(b, "tmp") /\ Since(heap, b, sp) /\ heap \in Heaps /\ b \in Heaps /\ sp \in Spaces
    BY DEF IInv, BeforeInv, GoodHeap, HeapInv, Since
  <2>2. ASSUME NEW o \in DOMAIN b.objects, b.objects[o].at.space # sp, ~Exempt(b, o), NEW i \in DOMAIN b.objects[o].words
        PROVE  LET a == Offset(b.objects[o].at, i - 1) IN
               \/ b.objects[o].words[i] \in {Untouched, ReadSince(a)}
               \/ a.space = "tmp" /\ a.i <= heap.top[sp]
    <3> DEFINE x == b.objects[o]
               a == Offset(x.at, i - 1)
    <3>1. x.words[i] \in {Untouched, Read(b, a)} /\ ~x.short
      BY <2>1, <2>2 DEF HeapInv, ReadInv, ReadsOwn, ShapeInv, Exempt
    <3>2. x \in Entries /\ x.at.i \in Int /\ Len(x.words) \in Nat
      BY <2>1, EntryOf
    <3>3. i \in 1..Len(x.words) /\ a \in Addresses /\ a.space = x.at.space /\ a.i = x.at.i + i - 1
      BY <3>2, OwnAddress
    <3>4. x.at.i + Len(x.words) - 1 <= b.top[x.at.space]
      BY <2>1, <3>1 DEF HeapInv, LayoutInv, Extent
    <3>5. a.space \in Spaces /\ a.i \in Int /\ b.top[a.space] \in Nat /\ heap.top[sp] \in Nat
      <4>1. a.space \in Spaces /\ a.i \in Int
        BY <3>3 DEF Addresses
      <4> QED BY <2>1, <4>1 DEF Heaps
    <3> DEFINE now == IF a.space = "tmp" THEN At(sp, a.i) ELSE a
               l == Len(x.words)
    <3>6. ReadSince(a) = IF Read(heap, now) = Untouched THEN Read(b, a) ELSE Read(heap, now)
      BY DEF ReadSince
    <3>7. CASE a.space = "tmp" /\ ~(a.i <= heap.top[sp])
      <4>1. now \in Addresses /\ now.space = sp /\ now.i = a.i
        BY <2>1, <3>5, <3>7 DEF At, Addresses
      <4>2. now.i > heap.top[sp]
        BY <3>5, <3>7, <4>1
      <4>3. Read(heap, now) = Untouched
        BY <2>1, <4>1, <4>2 DEF Since
      <4> QED BY <3>1, <3>6, <4>3
    <3>8. CASE a.space # "tmp"
      <4>1. a.i <= b.top[a.space]
        <5>1. l \in Nat /\ i \in 1..l /\ x.at.i + l - 1 <= b.top[a.space]
          BY <3>2, <3>3, <3>4
        <5> HIDE DEF l
        <5> QED BY <3>2, <3>3, <3>5, <5>1
      <4>2. Read(heap, a) = Read(b, a)
        BY <2>1, <2>2, <3>3, <3>8, <4>1 DEF Since
      <4> QED BY <3>1, <3>6, <3>8, <4>2
    <3> QED BY <3>7, <3>8
  <2>3. ASSUME b.top["tmp"] > 0, heap.top[sp] > 0
        PROVE  \E o \in DOMAIN b.objects, p \in Objects :
                 b.objects[o].at = At("tmp", 1) /\ heap.objects[p].at = At(sp, 1)
    BY <2>1, <2>3 DEF First, Since, Objects
  <2> QED BY <2>2, <2>3 DEF SurvivorsOverrun
<1> QED BY <1>1, ObjectsInductive, PTL

\* copy_to reads what its object owns, for any number of slots, characters or bytes, but for maps and for contexts of more
\* than two slots, where it reads beyond by exactly the stated amounts.
THEOREM CopiesStayInside == Spec => []CopyStaysInside
<1>1. IInv => CopyStaysInside
  <2> SUFFICES ASSUME CopiedInv PROVE CopyStaysInside
    BY DEF IInv
  <2>1. CASE copied = [tag |-> "none", owned |-> 0, read |-> 0]
    BY <2>1 DEF CopyStaysInside
  <2>2. CASE \E tag \in Kinds, repr \in Reprs, count \in Nat :
               /\ copied.tag = tag
               /\ copied.owned = Owned(tag, repr, count) /\ copied.read = Size(tag, repr, count)
    <3>1. PICK tag \in Kinds, repr \in Reprs, count \in Nat :
                 /\ copied.tag = tag
                 /\ copied.owned = Owned(tag, repr, count) /\ copied.read = Size(tag, repr, count)
      BY <2>2
    <3>2. Owned(tag, repr, count) \in Nat /\ Size(tag, repr, count) \in Nat
      BY OwnedIs, SizeIs
    <3>3. CASE tag = "Context"
      <4>1. Owned(tag, repr, count) = 3 + count /\ Size(tag, repr, count) = 1 + 2 * count
        BY <3>3, SizeIs
      <4> QED BY <3>1, <3>3, <4>1 DEF CopyStaysInside
    <3>4. CASE tag = "Map"
      <4>1. Size(tag, repr, count) = Owned(tag, repr, count) + 1
        BY <3>4, SizeIs
      <4> QED BY <3>1, <3>2, <3>4, <4>1 DEF CopyStaysInside
    <3>5. CASE tag \notin {"Context", "Map"}
      <4>1. Size(tag, repr, count) = Owned(tag, repr, count)
        BY <3>5, SizeIs
      <4> QED BY <3>1, <3>2, <3>5, <4>1 DEF CopyStaysInside
    <3> QED BY <3>3, <3>4, <3>5
  <2> QED BY <2>1, <2>2 DEF CopiedInv
<1> QED BY <1>1, ObjectsInductive, PTL

\* The characters of strings that are not made of others are read where they were written.
LEMMA TextsSpeltOut ==
  ASSUME NEW h, HeapInv(h), StructInv(h), SpeltInv(h), AllRead(h)
  PROVE  SpeltOut(h, h)
<1> SUFFICES ASSUME NEW a \in Texts(h), Repr(h, a) = "Normal", NEW i \in 1..Count(h, a)
             PROVE  Read(h, Offset(a, 2 + i)) = Char(TextOf(h, a)[i])
  BY DEF SpeltOut
<1> DEFINE o == Owner(h, a)
           x == h.objects[o]
<1>1. o \in DOMAIN h.objects /\ IsText(x) /\ x.at = a /\ TextOf(h, a) = x.text
  BY OwnerOf DEF TextOf
<1>2. Made(h, o) /\ ReadsOwn(h, x)
  BY <1>1 DEF StructInv, AllRead
<1> HIDE DEF o
<1>3. Whole(x) /\ Count(h, a) = Len(x.text)
  BY <1>1, <1>2, ReadText DEF Whole
<1>4. Len(x.text) \in Nat /\ DOMAIN x.words = 1..(3 + Len(x.text))
  BY <1>1, <1>2, <1>3, TextWords
<1>5. x.words[3 + i] = Char(x.text[i])
  BY <1>1, <1>3 DEF SpeltInv, Spelt
<1>6. x.words[3 + i] # Untouched
  BY <1>5, WordsDiffer
<1>7. 3 + i \in DOMAIN x.words /\ 3 + i - 1 = 2 + i
  <2> DEFINE n == Len(x.text)
  <2>1. n \in Nat /\ i \in 1..n
    BY <1>3, <1>4
  <2> HIDE DEF n
  <2>2. 3 + i \in 1..(3 + n) /\ 3 + i - 1 = 2 + i
    BY <2>1
  <2> QED BY <1>4, <2>2 DEF n
<1>8. Read(h, Offset(x.at, 3 + i - 1)) = x.words[3 + i]
  BY <1>1, <1>2, <1>6, <1>7, ReadWord
<1> QED BY <1>1, <1>5, <1>7, <1>8

\* However strings share their halves, and however deep they are, flatten_cons brings out their text, unless a half is
\* misplaced; then it never does.
THEOREM TextsAreKept == Spec => []TextKept
<1>1. IInv => TextKept
  <2> SUFFICES ASSUME IInv PROVE TextKept
    OBVIOUS
  <2>1. ASSUME asked.right, \A o \in Strings : Alone(o), NEW o \in Strings
        PROVE  TextAt(heap)[heap.objects[o].at] = Chars(heap.objects[o].text)
    <3>1. HeapInv(heap) /\ StructInv(heap) /\ SpeltInv(heap)
      BY <2>1 DEF IInv, GoodHeap
    <3>2. AllRead(heap)
      BY <2>1, <3>1, StringsRead
    <3>3. Lettered(heap) /\ SpeltOut(heap, heap)
      BY <3>1, <3>2, TextsAreLegible, TextsSpeltOut DEF Lettered
    <3>4. o \in DOMAIN heap.objects /\ IsText(heap.objects[o])
      BY DEF Strings, Objects, TagOf, IsText
    <3>5. heap.objects[o].at \in Texts(heap) /\ TextOf(heap, heap.objects[o].at) = heap.objects[o].text
      BY <3>1, <3>4, OwnerIs DEF TextOf
    <3>6. TextAt(heap)[heap.objects[o].at] = Chars(TextOf(heap, heap.objects[o].at))
      BY <3>3, <3>5, TextComesOut
    <3> QED BY <3>5, <3>6
  <2> QED BY <2>1 DEF TextKept, IInv, AskedInv
<1> QED BY <1>1, ObjectsInductive, PTL
=============================================================================
