---------------------------- MODULE SpaceProofs ----------------------------
(***************************************************************************)
(* For every page size, every set of requests and any number of pages: the  *)
(* blocks a space hands out are boxed and inside their page, they overlap    *)
(* exactly where a search or a swap started a page over, the bump cell stays *)
(* on a page the space owns, and what is unmapped is exact.                  *)
(*                                                                          *)
(* The page a search ends on is never tested; that its last page fits every *)
(* small request follows because no page of the vector is ever moved in:    *)
(* its top stays 1.  And the search always reports a gap, because a space   *)
(* in use has a page.                                                       *)
(***************************************************************************)
EXTENDS Space, TLAPS

\* A collection uses the temporary space, and nothing else does.
InUse(s) == s = "space" \/ collecting

PagesUntouched ==
  \A s \in Spaces : \A k \in DOMAIN pages[s] :
    /\ pages[s][k].top = 1
    /\ pages[s][k].limit = pages[s][k].size
    /\ pages[s][k].size >= PageSize

PagesMapped ==
  \A s \in Spaces : \A k \in DOMAIN pages[s] :
    length[pages[s][k].data] = pages[s][k].size

PagesApart ==
  \A s, t \in Spaces : \A j \in DOMAIN pages[s], k \in DOMAIN pages[t] :
    pages[s][j].data = pages[t][k].data => s = t /\ j = k

\* A page copy that an allocation may bump: the space owns the page.
Copies(s, c) ==
  /\ c.top % 2 = 1
  /\ \E k \in DOMAIN pages[s] : pages[s][k].data = c.data /\ pages[s][k].limit = c.limit

CellInv ==
  \A s \in Spaces :
    IF InUse(s) THEN Copies(s, cell[s]) ELSE blocks[s] = {} /\ earlier[s] = {}

\* The blocks of the current selection.
CurrentApart ==
  \A s \in Spaces :
    /\ \A b \in blocks[s] : b.data = cell[s].data /\ b.lo + b.len <= cell[s].top
    /\ \A b, c \in blocks[s] :
         b # c => b.lo + b.len <= c.lo \/ c.lo + c.len <= b.lo

FromFirst(bs, p) == \E b \in bs : b.data = p /\ b.lo = 1

\* Every page that holds a block holds one from its first address on, because every
\* selection starts there: two selections of one page are bound to overlap.
EarlierInv ==
  \A s \in Spaces :
    /\ blocks[s] = {} /\ InUse(s) => cell[s].top = 1
    /\ blocks[s] # {} => FromFirst(blocks[s], cell[s].data)
    /\ \A e \in earlier[s] :
         e.len > 0 /\ PageOf(s, e.data) /\ FromFirst(earlier[s], e.data)
    /\ selected[s] = "new" => \A e \in earlier[s] : e.data # cell[s].data

PagesInv ==
  /\ PagesUntouched /\ PagesMapped /\ PagesApart
  /\ ~collecting => pages["tmp"] = <<>>
  /\ GrowsOnlyByEmbedder /\ UnmapExact

BlocksInv ==
  /\ CellInv /\ SmallBlocksInBounds /\ CurrentApart
  /\ \A s \in Spaces : \A b \in blocks[s] : b.len > 0

IInv == TypeOK /\ PagesInv /\ BlocksInv /\ EarlierInv

(***************************************************************************)
(* Sizes.                                                                   *)
(***************************************************************************)

LEMMA EvenIsEven ==
  ASSUME NEW bytes \in Nat \ {0}
  PROVE  Even(bytes) \in Nat /\ Even(bytes) > 0 /\ Even(bytes) % 2 = 0
  BY DEF Even

LEMMA SmallerIsItsRemainder ==
  ASSUME NEW x \in Nat, NEW y \in Nat, x < y
  PROVE  x % y = x
  BY Z3

LEMMA RoundUpIsAPage ==
  ASSUME NEW bytes \in Nat \ {0}
  PROVE  RoundUp(bytes, PageSize) \in Nat /\ RoundUp(bytes, PageSize) >= PageSize
<1>1. CASE bytes % PageSize = 0
  <2>1. bytes >= PageSize
    BY <1>1, SmallerIsItsRemainder, PageSizeAssumption
  <2>. QED BY <1>1, <2>1, PageSizeAssumption DEF RoundUp
<1>2. CASE bytes % PageSize # 0
  BY <1>2, PageSizeAssumption DEF RoundUp
<1>. QED BY <1>1, <1>2

LEMMA TotalOfOne ==
  ASSUME NEW ps \in Seq(Page), Len(ps) = 1
  PROVE  TotalSize(ps) \in Nat
<1>. DEFINE f == [k \in 0..1 |-> IF k = 0 THEN 0 ELSE ps[1].size]
            IsSum(g) == g = [k \in 0..1 |-> IF k = 0 THEN 0 ELSE g[k - 1] + ps[k].size]
<1>1. ps[1].size \in Nat
  <2>1. ps[1] \in Page
    OBVIOUS
  <2>. QED BY <2>1 DEF Page
<1>2. IsSum(f)
  BY <1>1
<1>3. TotalSize(ps) = (CHOOSE g : IsSum(g))[1]
  BY DEF TotalSize
<1>4. IsSum(CHOOSE g : IsSum(g))
  <2>. HIDE DEF IsSum
  <2>. QED BY <1>2
<1>. DEFINE h == CHOOSE g : IsSum(g)
<1>5. h = [k \in 0..1 |-> IF k = 0 THEN 0 ELSE h[k - 1] + ps[k].size]
  BY <1>4
<1>. HIDE DEF h
<1>6. h[0] = 0 /\ h[1] = h[0] + ps[1].size
  BY <1>5
<1>. QED BY <1>1, <1>3, <1>6 DEF h

LEMMA SpaceNames == Spaces = {"space", "tmp"} /\ "space" # "tmp"
  BY DEF Spaces

(***************************************************************************)
(* Allocation.                                                              *)
(***************************************************************************)

LEMMA TakeKeepsBlocks ==
  ASSUME PageSizeAssumption, IInv,
         NEW s \in Spaces, InUse(s), NEW n \in Nat, n > 0, n % 2 = 0,
         NEW c \in Page, Copies(s, c),
         n + 1 <= PageSize => c.top + n <= c.limit,
         NEW old, old = {} \/ (old = blocks[s] /\ c = cell[s]),
         Take(s, c, n, old), UNCHANGED <<pages, collecting>>,
         \A t \in Spaces : t # s => earlier'[t] = earlier[t]
  PROVE  /\ cell' \in [Spaces -> Page] /\ blocks' \in [Spaces -> SUBSET Block]
         /\ BlocksInv'
<1>. DEFINE new == [data |-> c.data, lo |-> c.top, len |-> n]
            moved == [c EXCEPT !.top = @ + n]
<1>1. c.data \in PageIds /\ c.top \in Nat /\ c.limit \in Nat /\ c.size \in Nat
  BY DEF Page
<1>2. /\ moved \in Page /\ moved.top = c.top + n
      /\ moved.data = c.data /\ moved.limit = c.limit
  BY <1>1 DEF Page
<1>3. /\ new \in Block /\ new.data = c.data /\ new.lo = c.top /\ new.len = n
  BY <1>1 DEF Block
<1>4. /\ cell \in [Spaces -> Page] /\ blocks \in [Spaces -> SUBSET Block]
  BY DEF IInv, TypeOK
<1>5. /\ cell'[s] = moved /\ blocks'[s] = old \cup {new}
      /\ \A t \in Spaces : t # s => cell'[t] = cell[t] /\ blocks'[t] = blocks[t]
      /\ cell' = [cell EXCEPT ![s] = moved]
      /\ blocks' = [blocks EXCEPT ![s] = old \cup {new}]
  BY <1>4 DEF Take
<1>6. old \subseteq Block
  BY <1>4
<1>. HIDE DEF new, moved
<1>7. cell' \in [Spaces -> Page] /\ blocks' \in [Spaces -> SUBSET Block]
  BY <1>2, <1>3, <1>4, <1>5, <1>6
<1>8. CellInv'
  <2>1. Copies(s, cell[s])' 
    <3>1. (c.top + n) % 2 = 1
      BY <1>1 DEF Copies
    <3>. QED BY <1>2, <1>5, <3>1 DEF Copies
  <2>2. ASSUME NEW t \in Spaces, t # s
        PROVE  (IF InUse(t) THEN Copies(t, cell[t]) ELSE blocks[t] = {} /\ earlier[t] = {})'
    BY <1>5, <2>2 DEF IInv, BlocksInv, CellInv, Copies, InUse
  <2>. QED BY <2>1, <2>2 DEF CellInv, InUse
<1>9. \A b \in old : b.lo \in Nat /\ b.len \in Nat
  BY <1>6 DEF Block
<1>10. SmallBlocksInBounds'
  <2>1. ASSUME NEW b \in old
        PROVE  b.lo % 2 = 1 /\ (Small(b) => b.lo >= 1 /\ b.lo + b.len <= c.limit)
    BY <2>1 DEF IInv, BlocksInv, SmallBlocksInBounds
  <2>2. new.lo % 2 = 1 /\ (Small(new) => new.lo >= 1 /\ new.lo + new.len <= c.limit)
    BY <1>1, <1>3 DEF Copies, Small
  <2>3. ASSUME NEW t \in Spaces, NEW b \in blocks'[t]
        PROVE  b.lo % 2 = 1 /\ (Small(b) => b.lo >= 1 /\ b.lo + b.len <= cell'[t].limit)
    <3>1. CASE t = s
      BY <1>2, <1>5, <2>1, <2>2, <3>1
    <3>2. CASE t # s
      BY <1>5, <3>2 DEF IInv, BlocksInv, SmallBlocksInBounds
    <3>. QED BY <3>1, <3>2
  <2>. QED BY <2>3 DEF SmallBlocksInBounds, Small
<1>11. CurrentApart'
  <2>1. /\ \A b \in old : b.data = c.data /\ b.lo + b.len <= c.top
        /\ \A b, d \in old : b # d => b.lo + b.len <= d.lo \/ d.lo + d.len <= b.lo
    BY DEF IInv, BlocksInv, CurrentApart
  <2>2. /\ \A b \in blocks'[s] : b.data = cell'[s].data /\ b.lo + b.len <= cell'[s].top
        /\ \A b, d \in blocks'[s] : b # d => b.lo + b.len <= d.lo \/ d.lo + d.len <= b.lo
    BY <1>1, <1>2, <1>3, <1>5, <1>9, <2>1
  <2>3. ASSUME NEW t \in Spaces, t # s
        PROVE  /\ \A b \in blocks'[t] : b.data = cell'[t].data /\ b.lo + b.len <= cell'[t].top
               /\ \A b, d \in blocks'[t] : b # d => b.lo + b.len <= d.lo \/ d.lo + d.len <= b.lo
    BY <1>5, <2>3 DEF IInv, BlocksInv, CurrentApart
  <2>. QED BY <2>2, <2>3 DEF CurrentApart
<1>12. \A t \in Spaces : \A b \in blocks'[t] : b.len > 0
  BY <1>3, <1>5 DEF IInv, BlocksInv
<1>. QED BY <1>7, <1>8, <1>10, <1>11, <1>12 DEF BlocksInv

\* The page copy c is the selected one, or starts a page of the space over.
LEMMA TakeKeepsEarlier ==
  ASSUME IInv, NEW s \in Spaces, InUse(s), NEW n \in Nat, n > 0,
         NEW c \in Page, NEW old, Take(s, c, n, old), UNCHANGED <<pages, collecting>>,
         \/ old = blocks[s] /\ c = cell[s] /\ UNCHANGED <<earlier, selected>>
         \/ old = {} /\ c.top = 1 /\ Keep(s, "search")
  PROVE  EarlierInv' /\ earlier' \in [Spaces -> SUBSET Block] /\ selected' \in [Spaces -> Origins]
<1>. DEFINE new == [data |-> c.data, lo |-> c.top, len |-> n]
            moved == [c EXCEPT !.top = @ + n]
<1>1. /\ cell \in [Spaces -> Page] /\ blocks \in [Spaces -> SUBSET Block]
      /\ earlier \in [Spaces -> SUBSET Block] /\ selected \in [Spaces -> Origins]
  BY DEF IInv, TypeOK
<1>2. moved.data = c.data /\ new.data = c.data /\ new.lo = c.top
  BY DEF Page
<1>. HIDE DEF new, moved
<1>3. /\ cell'[s] = moved /\ blocks'[s] = old \cup {new}
      /\ \A t \in Spaces : t # s => cell'[t] = cell[t] /\ blocks'[t] = blocks[t]
  BY <1>1 DEF Take, moved, new
<1>4. \A t \in Spaces : \A p : PageOf(t, p)' <=> PageOf(t, p)
  BY DEF PageOf
<1>5. FromFirst(blocks'[s], cell'[s].data)
  <2>1. CASE old = blocks[s] /\ c = cell[s] /\ blocks[s] # {}
    BY <1>2, <1>3, <2>1 DEF IInv, EarlierInv, FromFirst
  <2>2. CASE c.top = 1
    BY <1>2, <1>3, <2>2 DEF FromFirst
  <2>3. CASE old = blocks[s] /\ c = cell[s] /\ blocks[s] = {}
    <3>1. c.top = 1
      BY <2>3 DEF IInv, EarlierInv
    <3>. QED BY <2>2, <3>1
  <2>. QED BY <2>1, <2>2, <2>3
<1>6. CASE old = blocks[s] /\ c = cell[s] /\ UNCHANGED <<earlier, selected>>
  <2>1. cell'[s].data = cell[s].data
    BY <1>2, <1>3, <1>6
  <2>. QED BY <1>1, <1>3, <1>4, <1>5, <1>6, <2>1 DEF IInv, EarlierInv, InUse
<1>7. CASE old = {} /\ Keep(s, "search")
  <2>1. /\ earlier'[s] = earlier[s] \cup blocks[s] /\ selected'[s] = "search"
        /\ \A t \in Spaces : t # s => earlier'[t] = earlier[t] /\ selected'[t] = selected[t]
        /\ earlier' \in [Spaces -> SUBSET Block] /\ selected' \in [Spaces -> Origins]
    BY <1>1, <1>7 DEF Keep, Origins
  <2>2. ASSUME NEW e \in earlier'[s]
        PROVE  e.len > 0 /\ PageOf(s, e.data) /\ FromFirst(earlier'[s], e.data)
    <3>1. CASE e \in earlier[s]
      BY <2>1, <3>1 DEF IInv, EarlierInv, FromFirst
    <3>2. CASE e \in blocks[s]
      <4>1. e.data = cell[s].data /\ e.len > 0
        BY <3>2 DEF IInv, BlocksInv, CurrentApart
      <4>2. FromFirst(blocks[s], cell[s].data)
        BY <3>2 DEF IInv, EarlierInv
      <4>3. PageOf(s, cell[s].data)
        BY DEF IInv, BlocksInv, CellInv, Copies, PageOf
      <4>. QED BY <2>1, <4>1, <4>2, <4>3 DEF FromFirst
    <3>. QED BY <2>1, <3>1, <3>2
  <2>3. "search" # "new"
    OBVIOUS
  <2>4. ASSUME NEW t \in Spaces, t # s
        PROVE  /\ blocks'[t] = {} /\ InUse(t)' => cell'[t].top = 1
               /\ blocks'[t] # {} => FromFirst(blocks'[t], cell'[t].data)
               /\ \A e \in earlier'[t] :
                    e.len > 0 /\ PageOf(t, e.data) /\ FromFirst(earlier'[t], e.data)
               /\ selected'[t] = "new" => \A e \in earlier'[t] : e.data # cell'[t].data
    BY <1>3, <2>1, <2>4 DEF IInv, EarlierInv, InUse
  <2>. QED BY <1>3, <1>4, <1>5, <2>1, <2>2, <2>3, <2>4 DEF EarlierInv, FromFirst
<1>. QED BY <1>6, <1>7

\* The overlaps are exactly those of a page started over.
LEMMA OverlapsFollow == IInv => OverlapsWhereRestarted
<1>. SUFFICES ASSUME IInv, NEW s \in Spaces
              PROVE  /\ \A b \in blocks[s] : b.data = cell[s].data /\ b.lo + b.len <= cell[s].top
                     /\ \A b, c \in blocks[s] : b # c => Apart(b, c)
                     /\ \A e \in earlier[s] : PageOf(s, e.data)
                     /\ (\E b \in blocks[s], e \in earlier[s] : ~Apart(b, e)) <=>
                          (blocks[s] # {} /\ \E e \in earlier[s] : e.data = cell[s].data)
                     /\ selected[s] = "new" => \A e \in earlier[s] : e.data # cell[s].data
  BY DEF OverlapsWhereRestarted
<1>1. /\ \A b \in blocks[s] : b.data = cell[s].data /\ b.lo + b.len <= cell[s].top /\ b.len > 0
      /\ \A b, c \in blocks[s] : b # c => Apart(b, c)
  BY DEF IInv, BlocksInv, CurrentApart, Apart
<1>2. /\ \A e \in earlier[s] : PageOf(s, e.data) /\ e.len > 0
      /\ selected[s] = "new" => \A e \in earlier[s] : e.data # cell[s].data
  BY DEF IInv, EarlierInv
<1>3. ASSUME NEW b \in blocks[s], NEW e \in earlier[s], ~Apart(b, e)
      PROVE  e.data = cell[s].data
  BY <1>1, <1>3 DEF Apart
<1>4. ASSUME blocks[s] # {}, NEW e \in earlier[s], e.data = cell[s].data
      PROVE  \E b \in blocks[s], f \in earlier[s] : ~Apart(b, f)
  <2>1. PICK b \in blocks[s] : b.data = cell[s].data /\ b.lo = 1
    BY <1>4 DEF IInv, EarlierInv, FromFirst
  <2>2. PICK f \in earlier[s] : f.data = cell[s].data /\ f.lo = 1
    BY <1>4 DEF IInv, EarlierInv, FromFirst
  <2>3. b.len \in Nat /\ f.len \in Nat
    BY DEF IInv, TypeOK, Block
  <2>4. b.len > 0 /\ f.len > 0
    BY <1>1, <1>2
  <2>. QED BY <2>1, <2>2, <2>3, <2>4 DEF Apart
<1>. QED BY <1>1, <1>2, <1>3, <1>4

LEMMA PagesStay ==
  PagesInv /\ UNCHANGED <<pages, mapped, length, collecting, needsGC, added>> => PagesInv'
  BY DEF PagesInv, PagesUntouched, PagesMapped, PagesApart, GrowsOnlyByEmbedder, UnmapExact, PageOf

LEMMA AllocateHereKeeps ==
  ASSUME PageSizeAssumption, RequestsAssumption, IInv,
         NEW s \in Spaces, NEW bytes \in Requests, AllocateHere(s, bytes)
  PROVE  IInv'
<1>. DEFINE n == Even(bytes)
<1>1. n \in Nat /\ n > 0 /\ n % 2 = 0
  BY EvenIsEven, RequestsAssumption
<1>. HIDE DEF n
<1>2. cell[s] \in Page /\ InUse(s)
  BY SpaceNames DEF IInv, TypeOK, AllocateHere, Usable, InUse
<1>3. Copies(s, cell[s])
  BY <1>2 DEF IInv, BlocksInv, CellInv
<1>4. /\ cell[s].top + n <= cell[s].limit
      /\ Take(s, cell[s], n, blocks[s])
      /\ UNCHANGED <<pages, collecting, earlier, selected>>
  BY DEF AllocateHere, Fits, n
<1>5. /\ cell' \in [Spaces -> Page] /\ blocks' \in [Spaces -> SUBSET Block]
      /\ BlocksInv'
  BY <1>1, <1>2, <1>3, <1>4, TakeKeepsBlocks
<1>6. PagesInv'
  BY PagesStay DEF IInv, AllocateHere
<1>7. EarlierInv' /\ earlier' \in [Spaces -> SUBSET Block] /\ selected' \in [Spaces -> Origins]
  <2>. DEFINE c == cell[s]
              old == blocks[s]
  <2>1. /\ c \in Page /\ Take(s, c, n, old) /\ UNCHANGED <<pages, collecting>>
        /\ old = blocks[s] /\ c = cell[s] /\ UNCHANGED <<earlier, selected>>
    BY <1>2, <1>4
  <2>. HIDE DEF c, old
  <2>. QED BY <1>1, <1>2, <2>1, TakeKeepsEarlier
<1>8. TypeOK'
  BY <1>5, <1>7 DEF IInv, TypeOK, AllocateHere
<1>. QED BY <1>5, <1>6, <1>7, <1>8 DEF IInv

\* The search reports a gap, and the page it ends on holds every small request.
LEMMA AllocateElsewhereKeeps ==
  ASSUME PageSizeAssumption, RequestsAssumption, IInv,
         NEW s \in Spaces, NEW bytes \in Requests, AllocateElsewhere(s, bytes)
  PROVE  IInv'
<1>. DEFINE n == Even(bytes)
<1>1. n \in Nat /\ n > 0 /\ n % 2 = 0
  BY EvenIsEven, RequestsAssumption
<1>. HIDE DEF n
<1>2. InUse(s) /\ pages[s] \in Seq(Page) /\ Len(pages[s]) \in Nat
  BY SpaceNames DEF IInv, TypeOK, AllocateElsewhere, Usable, InUse
<1>3. Len(pages[s]) > 0
  BY <1>2 DEF IInv, BlocksInv, CellInv, Copies
<1>4. PICK k \in 0..Len(pages[s]) :
        /\ SearchEnds(pages[s], n, k)
        /\ GapFound(pages[s], k) =>
             /\ Take(s, pages[s][k], n, {}) /\ Keep(s, "search")
             /\ UNCHANGED <<pages, size, mapped, length, needsGC>>
  BY DEF AllocateElsewhere, n
<1>5. k \in DOMAIN pages[s] /\ GapFound(pages[s], k)
  BY <1>2, <1>3, <1>4 DEF SearchEnds, GapFound
<1>6. pages[s][k] \in Page
  BY <1>2, <1>5
<1>7. Copies(s, pages[s][k]) /\ (n + 1 <= PageSize => pages[s][k].top + n <= pages[s][k].limit)
  <2>1. /\ pages[s][k].top = 1 /\ pages[s][k].limit = pages[s][k].size
        /\ pages[s][k].size >= PageSize
    BY <1>5 DEF IInv, PagesInv, PagesUntouched
  <2>2. pages[s][k].size \in Nat
    BY <1>6 DEF Page
  <2>. QED BY <1>1, <1>5, <2>1, <2>2, PageSizeAssumption DEF Copies
<1>8. /\ Take(s, pages[s][k], n, {}) /\ Keep(s, "search")
      /\ UNCHANGED <<pages, size, mapped, length, needsGC>>
      /\ UNCHANGED <<sizeLimit, collecting, wild, added>>
      /\ intact' = [intact EXCEPT ![s] = TRUE]
  BY <1>4, <1>5 DEF AllocateElsewhere
<1>9. /\ cell' \in [Spaces -> Page] /\ blocks' \in [Spaces -> SUBSET Block]
      /\ BlocksInv'
  <2>. DEFINE c == pages[s][k]
              old == {}
  <2>1. /\ c \in Page /\ Copies(s, c) /\ (n + 1 <= PageSize => c.top + n <= c.limit)
        /\ Take(s, c, n, old) /\ UNCHANGED <<pages, collecting>>
    BY <1>6, <1>7, <1>8
  <2>2. old = {} \/ (old = blocks[s] /\ c = cell[s])
    OBVIOUS
  <2>3. \A t \in Spaces : t # s => earlier'[t] = earlier[t]
    BY <1>8 DEF Keep, IInv, TypeOK
  <2>. HIDE DEF c, old
  <2>. QED BY <1>1, <1>2, <2>1, <2>2, <2>3, TakeKeepsBlocks
<1>10. PagesInv'
  BY <1>8, PagesStay DEF IInv
<1>11. EarlierInv' /\ earlier' \in [Spaces -> SUBSET Block] /\ selected' \in [Spaces -> Origins]
  <2>. DEFINE c == pages[s][k]
              old == {}
  <2>1. /\ c \in Page /\ Take(s, c, n, old) /\ UNCHANGED <<pages, collecting>>
        /\ old = {} /\ c.top = 1 /\ Keep(s, "search")
    BY <1>5, <1>6, <1>8 DEF IInv, PagesInv, PagesUntouched
  <2>. HIDE DEF c, old
  <2>. QED BY <1>1, <1>2, <2>1, TakeKeepsEarlier
<1>12. TypeOK'
  BY <1>8, <1>9, <1>11 DEF IInv, TypeOK
<1>. QED BY <1>9, <1>10, <1>11, <1>12 DEF IInv

(***************************************************************************)
(* New pages.                                                               *)
(***************************************************************************)

\* mmap gives a space t a page x that no space has: it is appended to those of t.
LEMMA NewPageKeepsPages ==
  ASSUME PageSizeAssumption, IInv, NEW t \in Spaces, NEW p \in PageIds,
         NEW real \in Nat, real >= PageSize, Mmap(p, real),
         NEW more, more = Append(pages[t], NewPage(p, real)),
         pages' = [pages EXCEPT ![t] = more]
  PROVE  /\ pages' \in [Spaces -> Seq(Page)] /\ NewPage(p, real) \in Page
         /\ mapped' \in [PageIds -> Nat] /\ length' \in [PageIds -> Nat]
         /\ PagesUntouched' /\ PagesMapped' /\ PagesApart' /\ UnmapExact'
         /\ \A s \in Spaces : \A c : Copies(s, c) => Copies(s, c)'
         /\ Copies(t, NewPage(p, real))'
<1>. DEFINE x == NewPage(p, real)
<1>1. /\ x \in Page /\ x.data = p /\ x.top = 1 /\ x.limit = real /\ x.size = real
  BY DEF NewPage, Page
<1>. HIDE DEF x
<1>2. /\ pages \in [Spaces -> Seq(Page)]
      /\ mapped \in [PageIds -> Nat] /\ length \in [PageIds -> Nat]
  BY DEF IInv, TypeOK
<1>3. pages[t] \in Seq(Page) /\ more = Append(pages[t], x)
  BY <1>2 DEF x
<1>4. /\ more \in Seq(Page) /\ Len(more) = Len(pages[t]) + 1
      /\ DOMAIN more = DOMAIN pages[t] \cup {Len(pages[t]) + 1}
      /\ Len(pages[t]) + 1 \notin DOMAIN pages[t]
      /\ \A k \in DOMAIN pages[t] : more[k] = pages[t][k]
      /\ more[Len(pages[t]) + 1] = x
  BY <1>1, <1>3
<1>. DEFINE z == Len(pages[t]) + 1
<1>. HIDE DEF z
<1>5. /\ pages' \in [Spaces -> Seq(Page)]
      /\ DOMAIN pages'[t] = DOMAIN pages[t] \cup {z} /\ z \notin DOMAIN pages[t]
      /\ pages'[t][z] = x
      /\ \A s \in Spaces : DOMAIN pages[s] \subseteq DOMAIN pages'[s]
      /\ \A s \in Spaces : \A k \in DOMAIN pages[s] : pages'[s][k] = pages[s][k]
      /\ \A s \in Spaces : \A k \in DOMAIN pages'[s] :
           (s = t /\ k = z) \/ k \in DOMAIN pages[s]
  BY <1>2, <1>4 DEF z
<1>6. \A s \in Spaces : \A k \in DOMAIN pages[s] :
        pages[s][k] \in Page /\ pages[s][k].data \in PageIds /\ pages[s][k].size \in Nat
  <2>1. \A s \in Spaces : \A k \in DOMAIN pages[s] : pages[s][k] \in Page
    BY <1>2
  <2>. QED BY <2>1 DEF Page
<1>7. \A s \in Spaces : \A k \in DOMAIN pages[s] :
        pages[s][k].data # p /\ length[pages[s][k].data] = pages[s][k].size
        /\ mapped[pages[s][k].data] = pages[s][k].size
  BY <1>6, PageSizeAssumption
     DEF IInv, PagesInv, PagesMapped, PagesUntouched, UnmapExact, Mmap
<1>8. /\ mapped' \in [PageIds -> Nat] /\ length' \in [PageIds -> Nat]
      /\ mapped'[p] = real /\ length'[p] = real
      /\ \A q \in PageIds : q # p => mapped'[q] = mapped[q] /\ length'[q] = length[q]
  BY <1>2 DEF Mmap
<1>9. PagesUntouched'
  BY <1>1, <1>5 DEF IInv, PagesInv, PagesUntouched
<1>10. ASSUME NEW s \in Spaces, NEW k \in DOMAIN pages'[s]
       PROVE  /\ length'[pages'[s][k].data] = pages'[s][k].size
              /\ mapped'[pages'[s][k].data] = pages'[s][k].size
  <2>1. CASE s = t /\ k = z
    BY <1>1, <1>5, <1>8, <2>1
  <2>2. CASE k \in DOMAIN pages[s]
    <3>1. pages'[s][k] = pages[s][k]
      BY <1>5, <2>2
    <3>. DEFINE q == pages[s][k].data
    <3>2. q \in PageIds /\ q # p /\ length[q] = pages[s][k].size /\ mapped[q] = pages[s][k].size
      BY <1>6, <1>7, <2>2
    <3>3. length'[q] = pages[s][k].size /\ mapped'[q] = pages[s][k].size
      <4>. HIDE DEF q
      <4>. QED BY <1>8, <3>2
    <3>. QED BY <3>1, <3>3
  <2>. QED BY <1>5, <2>1, <2>2
<1>11. PagesApart'
  <2>. SUFFICES ASSUME NEW s \in Spaces, NEW u \in Spaces,
                       NEW j \in DOMAIN pages'[s], NEW k \in DOMAIN pages'[u],
                       pages'[s][j].data = pages'[u][k].data
                PROVE  s = u /\ j = k
    BY DEF PagesApart
  <2>1. CASE j \in DOMAIN pages[s] /\ k \in DOMAIN pages[u]
    BY <1>5, <2>1 DEF IInv, PagesInv, PagesApart
  <2>2. CASE s = t /\ j = z /\ k \in DOMAIN pages[u]
    BY <1>1, <1>5, <1>7, <2>2
  <2>3. CASE u = t /\ k = z /\ j \in DOMAIN pages[s]
    BY <1>1, <1>5, <1>7, <2>3
  <2>4. CASE s = t /\ j = z /\ u = t /\ k = z
    BY <2>4
  <2>. QED BY <1>5, <2>1, <2>2, <2>3, <2>4
<1>12. UnmapExact'
  <2>1. \A s \in Spaces : \A k \in DOMAIN pages'[s] :
          mapped'[pages'[s][k].data] = pages'[s][k].size
    BY <1>10
  <2>2. ASSUME NEW q \in PageIds, length'[q] > 0, ~PageOf("space", q)', ~PageOf("tmp", q)'
        PROVE  mapped'[q] = length'[q] - PageSize
    <3>1. q # p
      BY <1>1, <1>5, <2>2, SpaceNames DEF PageOf
    <3>2. ~PageOf("space", q) /\ ~PageOf("tmp", q)
      BY <1>5, <2>2, SpaceNames DEF PageOf
    <3>. QED BY <1>8, <2>2, <3>1, <3>2 DEF IInv, PagesInv, UnmapExact
  <2>. QED BY <2>1, <2>2 DEF UnmapExact
<1>13. \A s \in Spaces : \A c : Copies(s, c) => Copies(s, c)'
  BY <1>5 DEF Copies
<1>14. Copies(t, NewPage(p, real))'
  BY <1>1, <1>5 DEF Copies, NewPage
<1>. QED BY <1>1, <1>5, <1>8, <1>9, <1>10, <1>11, <1>12, <1>13, <1>14 DEF x, PagesMapped

\* The space t selects the new page, or any other of its own; it has no blocks yet.
LEMMA SelectKeepsBlocks ==
  ASSUME IInv, NEW t \in Spaces, NEW c \in Page, Copies(t, c)',
         \A s \in Spaces : \A d : Copies(s, d) => Copies(s, d)',
         \A s \in Spaces : InUse(s)' => s = t \/ InUse(s),
         cell' = [cell EXCEPT ![t] = c], blocks' = [blocks EXCEPT ![t] = {}]
  PROVE  /\ cell' \in [Spaces -> Page] /\ blocks' \in [Spaces -> SUBSET Block]
         /\ SmallBlocksInBounds' /\ CurrentApart'
         /\ \A s \in Spaces : \A b \in blocks'[s] : b.len > 0
         /\ \A s \in Spaces : InUse(s)' => Copies(s, cell[s])'
<1>1. cell \in [Spaces -> Page] /\ blocks \in [Spaces -> SUBSET Block]
  BY DEF IInv, TypeOK
<1>2. /\ cell'[t] = c /\ blocks'[t] = {}
      /\ \A s \in Spaces : s # t => cell'[s] = cell[s] /\ blocks'[s] = blocks[s]
      /\ cell' \in [Spaces -> Page] /\ blocks' \in [Spaces -> SUBSET Block]
  BY <1>1
<1>3. /\ SmallBlocksInBounds' /\ CurrentApart'
      /\ \A s \in Spaces : \A b \in blocks'[s] : b.len > 0
  BY <1>2 DEF IInv, BlocksInv, SmallBlocksInBounds, CurrentApart, Small
<1>4. ASSUME NEW s \in Spaces, InUse(s)'
      PROVE  Copies(s, cell[s])'
  <2>1. CASE s = t
    BY <1>2, <2>1 DEF Copies
  <2>2. CASE s # t
    <3>1. Copies(s, cell[s])
      BY <1>4, <2>2 DEF IInv, BlocksInv, CellInv
    <3>2. cell'[s] = cell[s]
      BY <1>2, <2>2
    <3>. QED BY <3>1, <3>2 DEF Copies
  <2>. QED BY <2>1, <2>2
<1>. QED BY <1>2, <1>3, <1>4

LEMMA AddPageKeeps ==
  ASSUME PageSizeAssumption, ExtraAssumption, IInv, NEW bytes \in Extra, AddPage(bytes)
  PROVE  IInv'
<1>. DEFINE real == RoundUp(bytes, PageSize)
<1>1. real \in Nat /\ real >= PageSize
  BY RoundUpIsAPage, ExtraAssumption
<1>. HIDE DEF real
<1>2. PICK p \in PageIds :
        /\ Mmap(p, real)
        /\ pages' = [pages EXCEPT !["space"] = Append(@, NewPage(p, real))]
        /\ size' = [size EXCEPT !["space"] = @ + real]
        /\ cell' = [cell EXCEPT !["space"] = NewPage(p, real)]
        /\ intact' = [intact EXCEPT !["space"] = TRUE]
  BY DEF AddPage, PushPage, Select, real
<1>3. /\ ~collecting /\ collecting' = collecting
      /\ blocks' = [blocks EXCEPT !["space"] = {}]
      /\ added' = added + 1 /\ Keep("space", "new")
      /\ UNCHANGED <<sizeLimit, needsGC, wild>>
  BY DEF AddPage
<1>. DEFINE more == Append(pages["space"], NewPage(p, real))
<1>4. "space" \in Spaces /\ pages' = [pages EXCEPT !["space"] = more]
  BY <1>2 DEF Spaces
<1>5. more = Append(pages["space"], NewPage(p, real))
  OBVIOUS
<1>. HIDE DEF more
<1>6. /\ pages' \in [Spaces -> Seq(Page)] /\ NewPage(p, real) \in Page
      /\ mapped' \in [PageIds -> Nat] /\ length' \in [PageIds -> Nat]
      /\ PagesUntouched' /\ PagesMapped' /\ PagesApart' /\ UnmapExact'
      /\ \A s \in Spaces : \A c : Copies(s, c) => Copies(s, c)'
      /\ Copies("space", NewPage(p, real))'
  BY <1>1, <1>2, <1>4, <1>5, NewPageKeepsPages
<1>7. /\ cell' \in [Spaces -> Page] /\ blocks' \in [Spaces -> SUBSET Block]
      /\ SmallBlocksInBounds' /\ CurrentApart'
      /\ \A s \in Spaces : \A b \in blocks'[s] : b.len > 0
      /\ \A s \in Spaces : InUse(s)' => Copies(s, cell[s])'
  <2>. DEFINE t == "space"
              c == NewPage(p, real)
  <2>1. /\ t \in Spaces /\ c \in Page /\ cell' = [cell EXCEPT ![t] = c]
        /\ blocks' = [blocks EXCEPT ![t] = {}]
    BY <1>2, <1>3, <1>4, <1>6
  <2>2. /\ \A s \in Spaces : \A d : Copies(s, d) => Copies(s, d)'
        /\ \A s \in Spaces : InUse(s)' => s = t \/ InUse(s)
    BY <1>3, <1>6 DEF InUse
  <2>3. Copies(t, c)'
    BY <1>6
  <2>. HIDE DEF t, c
  <2>. QED BY <2>1, <2>2, <2>3, SelectKeepsBlocks
<1>8. CellInv'
  BY <1>3, <1>7, SpaceNames DEF IInv, BlocksInv, CellInv, InUse, TypeOK, Keep
<1>9. GrowsOnlyByEmbedder' /\ (~collecting => pages["tmp"] = <<>>)'
  <2>1. pages'["tmp"] = pages["tmp"] /\ pages'["space"] = more
    BY <1>4, SpaceNames DEF IInv, TypeOK
  <2>2. Len(more) = Len(pages["space"]) + 1
    BY <1>4, <1>5, <1>6 DEF IInv, TypeOK
  <2>. QED BY <1>3, <2>1, <2>2 DEF IInv, TypeOK, PagesInv, GrowsOnlyByEmbedder
<1>10. EarlierInv' /\ earlier' \in [Spaces -> SUBSET Block] /\ selected' \in [Spaces -> Origins]
  <2>1. /\ pages["space"] \in Seq(Page) /\ pages \in [Spaces -> Seq(Page)]
        /\ cell \in [Spaces -> Page] /\ blocks \in [Spaces -> SUBSET Block]
        /\ earlier \in [Spaces -> SUBSET Block] /\ selected \in [Spaces -> Origins]
    BY SpaceNames DEF IInv, TypeOK
  <2>2. \A s \in Spaces : \A q : PageOf(s, q) => PageOf(s, q)'
    <3>1. \A k \in DOMAIN pages["space"] : k \in DOMAIN more /\ more[k] = pages["space"][k]
      BY <1>5, <1>6, <2>1
    <3>. QED BY <1>4, <2>1, <3>1 DEF PageOf
  <2>3. ~PageOf("space", p)
    <3>1. \A k \in DOMAIN pages["space"] : pages["space"][k].data = p => length[p] = pages["space"][k].size
      BY SpaceNames DEF IInv, PagesInv, PagesMapped
    <3>2. \A k \in DOMAIN pages["space"] : pages["space"][k].size >= PageSize
      BY SpaceNames DEF IInv, PagesInv, PagesUntouched
    <3>3. length[p] = 0
      BY <1>2 DEF Mmap
    <3>. QED BY <3>1, <3>2, <3>3, PageSizeAssumption DEF PageOf
  <2>4. /\ earlier'["space"] = earlier["space"] \cup blocks["space"]
        /\ earlier'["tmp"] = earlier["tmp"] /\ selected'["tmp"] = selected["tmp"]
        /\ blocks'["space"] = {} /\ blocks'["tmp"] = blocks["tmp"]
        /\ cell'["space"] = NewPage(p, real) /\ cell'["tmp"] = cell["tmp"]
        /\ earlier' \in [Spaces -> SUBSET Block] /\ selected' \in [Spaces -> Origins]
    BY <1>2, <1>3, <2>1, SpaceNames DEF Keep, Origins
  <2>5. cell'["space"].top = 1 /\ cell'["space"].data = p
    BY <2>4 DEF NewPage
  <2>6. ASSUME NEW e \in earlier'["space"]
        PROVE  e.len > 0 /\ PageOf("space", e.data) /\ FromFirst(earlier'["space"], e.data)
    <3>1. CASE e \in earlier["space"]
      BY <2>4, <3>1, SpaceNames DEF IInv, EarlierInv, FromFirst
    <3>2. CASE e \in blocks["space"]
      <4>1. e.data = cell["space"].data /\ e.len > 0
        BY <3>2, SpaceNames DEF IInv, BlocksInv, CurrentApart
      <4>2. FromFirst(blocks["space"], cell["space"].data)
        BY <3>2, SpaceNames DEF IInv, EarlierInv
      <4>3. PageOf("space", cell["space"].data)
        BY SpaceNames DEF IInv, BlocksInv, CellInv, Copies, PageOf, InUse
      <4>. QED BY <2>4, <4>1, <4>2, <4>3 DEF FromFirst
    <3>. QED BY <2>4, <3>1, <3>2
  <2>7. \A e \in earlier'["space"] : e.data # cell'["space"].data
    BY <2>3, <2>5, <2>6
  <2>8. blocks'["tmp"] = {} /\ earlier'["tmp"] = {} /\ ~InUse("tmp")'
    BY <1>3, <2>4, SpaceNames DEF IInv, BlocksInv, CellInv, InUse
  <2>. QED BY <2>2, <2>4, <2>5, <2>6, <2>7, <2>8, SpaceNames DEF EarlierInv
<1>11. TypeOK'
  BY <1>1, <1>2, <1>3, <1>6, <1>7, <1>10 DEF IInv, TypeOK
<1>. QED BY <1>6, <1>7, <1>8, <1>9, <1>10, <1>11 DEF IInv, PagesInv, BlocksInv

LEMMA BeginCollectionKeeps ==
  ASSUME PageSizeAssumption, IInv, BeginCollection
  PROVE  IInv'
<1>. DEFINE t == "tmp"
<1>1. PICK p \in PageIds :
        /\ Mmap(p, PageSize)
        /\ pages' = [pages EXCEPT ![t] = <<NewPage(p, PageSize)>>]
        /\ cell' = [cell EXCEPT ![t] = NewPage(p, PageSize)]
        /\ intact' = [intact EXCEPT ![t] = TRUE]
  BY DEF BeginCollection, Select
<1>2. /\ ~collecting /\ collecting'
      /\ blocks' = [blocks EXCEPT ![t] = {}] /\ blocks[t] = {} /\ earlier[t] = {}
      /\ size' = [size EXCEPT ![t] = 0] /\ sizeLimit' = [sizeLimit EXCEPT ![t] = 0]
      /\ selected' = [selected EXCEPT ![t] = "new"]
      /\ UNCHANGED <<needsGC, wild, added, earlier, blocks>>
  <2>1. ~collecting
    BY DEF BeginCollection
  <2>2. blocks[t] = {} /\ earlier[t] = {}
    BY <2>1, SpaceNames DEF IInv, BlocksInv, CellInv, InUse
  <2>3. blocks = [blocks EXCEPT ![t] = {}]
    BY <2>2, SpaceNames DEF IInv, TypeOK
  <2>. QED BY <2>2, <2>3 DEF BeginCollection
<1>. DEFINE c == NewPage(p, PageSize)
            more == Append(pages[t], c)
<1>3. t \in Spaces /\ pages[t] = <<>> /\ pages' = [pages EXCEPT ![t] = more]
  <2>1. pages[t] = <<>>
    BY <1>2 DEF IInv, PagesInv
  <2>2. more = <<c>>
    BY <2>1
  <2>. QED BY <1>1, <2>1, <2>2 DEF Spaces
<1>. DEFINE real == PageSize
<1>4. /\ more = Append(pages[t], NewPage(p, real))
      /\ real \in Nat /\ real >= PageSize /\ Mmap(p, real)
  BY <1>1, PageSizeAssumption
<1>5. c = NewPage(p, real) /\ cell' = [cell EXCEPT ![t] = c]
  BY <1>1
<1>. HIDE DEF t, c, more, real
<1>6. /\ pages' \in [Spaces -> Seq(Page)] /\ c \in Page
      /\ mapped' \in [PageIds -> Nat] /\ length' \in [PageIds -> Nat]
      /\ PagesUntouched' /\ PagesMapped' /\ PagesApart' /\ UnmapExact'
      /\ \A s \in Spaces : \A d : Copies(s, d) => Copies(s, d)'
      /\ Copies(t, c)'
  <2>1. /\ pages' \in [Spaces -> Seq(Page)] /\ NewPage(p, real) \in Page
        /\ mapped' \in [PageIds -> Nat] /\ length' \in [PageIds -> Nat]
        /\ PagesUntouched' /\ PagesMapped' /\ PagesApart' /\ UnmapExact'
        /\ \A s \in Spaces : \A d : Copies(s, d) => Copies(s, d)'
        /\ Copies(t, NewPage(p, real))'
    BY <1>3, <1>4, NewPageKeepsPages
  <2>. QED BY <1>5, <2>1 DEF Copies
<1>7. /\ cell' \in [Spaces -> Page] /\ blocks' \in [Spaces -> SUBSET Block]
      /\ SmallBlocksInBounds' /\ CurrentApart'
      /\ \A s \in Spaces : \A b \in blocks'[s] : b.len > 0
      /\ \A s \in Spaces : InUse(s)' => Copies(s, cell[s])'
  <2>1. /\ \A s \in Spaces : InUse(s)' => s = t \/ InUse(s)
        /\ Copies(t, c)'
    BY <1>5, <1>6, SpaceNames DEF InUse, t, c
  <2>. QED BY <1>2, <1>3, <1>5, <1>6, <2>1, SelectKeepsBlocks
<1>8. CellInv'
  BY <1>2, <1>7 DEF CellInv, InUse
<1>9. GrowsOnlyByEmbedder' /\ (~collecting => pages["tmp"] = <<>>)'
  <2>1. pages'["tmp"] = <<c>> /\ pages'["space"] = pages["space"]
    BY <1>1, <1>5, SpaceNames DEF IInv, TypeOK, t
  <2>. QED BY <1>2, <2>1 DEF IInv, PagesInv, GrowsOnlyByEmbedder
<1>10. EarlierInv'
  <2>1. /\ pages \in [Spaces -> Seq(Page)] /\ cell \in [Spaces -> Page]
        /\ selected \in [Spaces -> Origins]
    BY DEF IInv, TypeOK
  <2>2. /\ pages'["space"] = pages["space"] /\ cell'["space"] = cell["space"]
        /\ selected'["space"] = selected["space"] /\ cell'[t] = c
    BY <1>1, <1>2, <1>5, <2>1, SpaceNames DEF t
  <2>3. \A q : PageOf("space", q)' <=> PageOf("space", q)
    BY <2>2 DEF PageOf
  <2>4. c.top = 1
    BY <1>5 DEF NewPage
  <2>. QED BY <1>2, <2>2, <2>3, <2>4, SpaceNames DEF IInv, EarlierInv, InUse, t
<1>11. TypeOK'
  BY <1>1, <1>2, <1>6, <1>7 DEF IInv, TypeOK, Origins
<1>. QED BY <1>6, <1>7, <1>8, <1>9, <1>10, <1>11 DEF IInv, PagesInv, BlocksInv

LEMMA SwapKeeps ==
  ASSUME PageSizeAssumption, IInv, Swap
  PROVE  IInv'
<1>. DEFINE moved == Reversed(pages["tmp"])
            old == pages["space"]
            first == moved[1]
<1>1. pages["tmp"] \in Seq(Page) /\ Len(pages["tmp"]) = 1 /\ collecting
  BY SpaceNames DEF IInv, TypeOK, PagesInv, GrowsOnlyByEmbedder, Swap
<1>2. /\ moved = pages["tmp"] /\ first \in Page
      /\ moved \in Seq(Page) /\ Len(moved) = 1
  BY <1>1 DEF Reversed
<1>3. TotalSize(moved) \in Nat
  BY <1>2, TotalOfOne
<1>4. /\ mapped' = Unmap(mapped, old)
      /\ pages' = [s \in Spaces |-> IF s = "space" THEN moved ELSE <<>>]
      /\ size' = [size EXCEPT !["space"] = TotalSize(moved)]
      /\ cell' = [cell EXCEPT !["space"] = first]
      /\ intact' = [intact EXCEPT !["space"] = TRUE]
      /\ sizeLimit' = [sizeLimit EXCEPT !["space"] = 2 * TotalSize(moved)]
      /\ ~collecting' /\ blocks' = [s \in Spaces |-> {}] /\ added' = 0
      /\ earlier' = [s \in Spaces |->
                       IF s = "space" THEN earlier["tmp"] \cup blocks["tmp"] ELSE {}]
      /\ selected' = [selected EXCEPT !["space"] = "swap"]
      /\ UNCHANGED <<needsGC, length, wild>>
  BY DEF Swap, Select
<1>5. /\ pages'["space"] = pages["tmp"] /\ pages'["tmp"] = <<>>
      /\ pages' \in [Spaces -> Seq(Page)]
  BY <1>2, <1>4, SpaceNames
<1>6. /\ old \in Seq(Page) /\ pages["tmp"][1] = first
      /\ DOMAIN pages["tmp"] = {1} /\ DOMAIN pages'["tmp"] = {}
      /\ DOMAIN pages'["space"] = {1} /\ pages'["space"][1] = first
  BY <1>1, <1>2, <1>5, SpaceNames DEF IInv, TypeOK
<1>. HIDE DEF moved, old, first
<1>7. /\ first.data \in PageIds /\ first.limit \in Nat /\ first.size \in Nat /\ first.top = 1
      /\ first.limit = first.size /\ first.size >= PageSize
      /\ length[first.data] = first.size /\ mapped[first.data] = first.size
      /\ \A k \in DOMAIN old : old[k].data # first.data
  <2>1. first.data \in PageIds /\ first.limit \in Nat /\ first.size \in Nat
    BY <1>2 DEF Page
  <2>2. \A k \in DOMAIN old : old[k].data # first.data
    BY <1>6, SpaceNames DEF IInv, PagesInv, PagesApart, old
  <2>. QED BY <1>6, <2>1, <2>2, SpaceNames
           DEF IInv, PagesInv, PagesUntouched, PagesMapped, UnmapExact
<1>8. \A p \in PageIds : PageOf("space", p)' <=> p = first.data
  BY <1>6 DEF PageOf
<1>9. \A p \in PageIds : ~PageOf("tmp", p)' /\ (PageOf("tmp", p) <=> p = first.data)
  BY <1>6 DEF PageOf
<1>10. \A p \in PageIds :
         mapped'[p] = IF PageOf("space", p) THEN mapped[p] - PageSize ELSE mapped[p]
  BY <1>4 DEF Unmap, PageOf, old
<1>11. \A p \in PageIds : PageOf("space", p) =>
         mapped[p] = length[p] /\ mapped[p] >= PageSize /\ mapped[p] \in Nat
  <2>. SUFFICES ASSUME NEW p \in PageIds, PageOf("space", p)
                PROVE  mapped[p] = length[p] /\ mapped[p] >= PageSize /\ mapped[p] \in Nat
    OBVIOUS
  <2>1. PICK k \in DOMAIN pages["space"] : pages["space"][k].data = p
    BY DEF PageOf
  <2>2. mapped[p] = pages["space"][k].size /\ length[p] = pages["space"][k].size
    BY <2>1, SpaceNames DEF IInv, PagesInv, PagesMapped, UnmapExact
  <2>3. pages["space"][k].size >= PageSize
    BY <2>1, SpaceNames DEF IInv, PagesInv, PagesUntouched
  <2>. QED BY <2>2, <2>3 DEF IInv, TypeOK
<1>12. mapped' \in [PageIds -> Nat]
  <2>1. ASSUME NEW p \in PageIds
        PROVE  mapped'[p] \in Nat
    <3>1. mapped[p] \in Nat
      BY DEF IInv, TypeOK
    <3>. QED BY <1>10, <1>11, <3>1, PageSizeAssumption
  <2>. QED BY <1>4, <2>1 DEF Unmap
<1>13. ~PageOf("space", first.data)
  BY <1>7 DEF PageOf, old
<1>14. UnmapExact'
  <2>1. \A s \in Spaces : \A k \in DOMAIN pages'[s] :
          mapped'[pages'[s][k].data] = pages'[s][k].size
    BY <1>6, <1>7, <1>10, <1>13, SpaceNames
  <2>2. ASSUME NEW p \in PageIds, length'[p] > 0, ~PageOf("space", p)', ~PageOf("tmp", p)'
        PROVE  mapped'[p] = length'[p] - PageSize
    <3>1. length'[p] = length[p] /\ ~PageOf("tmp", p)
      BY <1>4, <1>8, <1>9, <2>2
    <3>2. CASE PageOf("space", p)
      BY <1>10, <1>11, <3>1, <3>2
    <3>3. CASE ~PageOf("space", p)
      BY <1>10, <2>2, <3>1, <3>3 DEF IInv, PagesInv, UnmapExact
    <3>. QED BY <3>2, <3>3
  <2>. QED BY <2>1, <2>2 DEF UnmapExact
<1>15. PagesUntouched' /\ PagesMapped' /\ PagesApart'
  BY <1>4, <1>6, <1>7, SpaceNames DEF PagesUntouched, PagesMapped, PagesApart
<1>16. GrowsOnlyByEmbedder' /\ (~collecting => pages["tmp"] = <<>>)'
  BY <1>1, <1>4, <1>5 DEF IInv, PagesInv, GrowsOnlyByEmbedder
<1>17. BlocksInv'
  <2>1. \A s \in Spaces : blocks'[s] = {}
    BY <1>4
  <2>2. cell'["space"] = first
    BY <1>4, SpaceNames DEF IInv, TypeOK
  <2>3. Copies("space", cell["space"])'
    BY <1>6, <1>7, <2>2 DEF Copies
  <2>. QED BY <1>4, <2>1, <2>3, SpaceNames
           DEF BlocksInv, CellInv, InUse, SmallBlocksInBounds, CurrentApart
<1>18. EarlierInv'
  <2>1. /\ earlier'["space"] = earlier["tmp"] \cup blocks["tmp"] /\ earlier'["tmp"] = {}
        /\ blocks'["space"] = {} /\ blocks'["tmp"] = {} /\ ~InUse("tmp")'
        /\ selected'["space"] = "swap" /\ cell'["space"] = first
    BY <1>4, SpaceNames DEF IInv, TypeOK, InUse
  <2>2. \A q : PageOf("space", q)' <=> PageOf("tmp", q)
    BY <1>5 DEF PageOf
  <2>3. ASSUME NEW e \in earlier'["space"]
        PROVE  e.len > 0 /\ PageOf("tmp", e.data) /\ FromFirst(earlier'["space"], e.data)
    <3>1. CASE e \in earlier["tmp"]
      BY <2>1, <3>1, SpaceNames DEF IInv, EarlierInv, FromFirst
    <3>2. CASE e \in blocks["tmp"]
      <4>1. e.data = cell["tmp"].data /\ e.len > 0
        BY <3>2, SpaceNames DEF IInv, BlocksInv, CurrentApart
      <4>2. FromFirst(blocks["tmp"], cell["tmp"].data)
        BY <3>2, SpaceNames DEF IInv, EarlierInv
      <4>3. PageOf("tmp", cell["tmp"].data)
        BY <1>1, SpaceNames DEF IInv, BlocksInv, CellInv, Copies, PageOf, InUse
      <4>. QED BY <2>1, <4>1, <4>2, <4>3 DEF FromFirst
    <3>. QED BY <2>1, <3>1, <3>2
  <2>. QED BY <1>7, <2>1, <2>2, <2>3, SpaceNames DEF EarlierInv
<1>19. TypeOK'
  <2>1. cell' \in [Spaces -> Page] /\ blocks' \in [Spaces -> SUBSET Block]
    BY <1>2, <1>4 DEF IInv, TypeOK
  <2>2. 2 * TotalSize(moved) \in Nat
    BY <1>3
  <2>3. size' \in [Spaces -> Nat] /\ sizeLimit' \in [Spaces -> Nat]
    BY <1>3, <1>4, <2>2 DEF IInv, TypeOK
  <2>4. intact' \in [Spaces -> BOOLEAN] /\ collecting' \in BOOLEAN
    BY <1>4 DEF IInv, TypeOK, Swap
  <2>5. earlier' \in [Spaces -> SUBSET Block] /\ selected' \in [Spaces -> Origins]
    BY <1>4, SpaceNames DEF IInv, TypeOK, Origins
  <2>. QED BY <1>4, <1>5, <1>12, <2>1, <2>3, <2>4, <2>5 DEF IInv, TypeOK
<1>. QED BY <1>14, <1>15, <1>16, <1>17, <1>18, <1>19 DEF IInv, PagesInv

(***************************************************************************)
(* The invariant.                                                           *)
(***************************************************************************)

LEMMA InitInv == PageSizeAssumption /\ Init => IInv
<1>. SUFFICES ASSUME PageSizeAssumption, Init PROVE IInv
  OBVIOUS
<1>1. PICK p \in PageIds :
        /\ pages = [s \in Spaces |-> IF s = "space" THEN <<NewPage(p, PageSize)>> ELSE <<>>]
        /\ cell = [s \in Spaces |-> NewPage(p, PageSize)]
        /\ mapped = [q \in PageIds |-> IF q = p THEN PageSize ELSE 0]
        /\ length = mapped
  BY DEF Init
<1>2. /\ intact = [s \in Spaces |-> s = "space"]
      /\ size = [s \in Spaces |-> 0] /\ sizeLimit = [s \in Spaces |-> 0]
      /\ needsGC = "None" /\ ~collecting /\ collecting \in BOOLEAN /\ wild = FALSE
      /\ blocks = [s \in Spaces |-> {}] /\ added = 0
      /\ earlier = [s \in Spaces |-> {}] /\ selected = [s \in Spaces |-> "new"]
  BY DEF Init
<1>. DEFINE c == NewPage(p, PageSize)
<1>3. /\ c \in Page /\ c.data = p /\ c.top = 1 /\ c.limit = PageSize /\ c.size = PageSize
  BY PageSizeAssumption DEF NewPage, Page
<1>. HIDE DEF c
<1>4. /\ pages["space"] = <<c>> /\ pages["tmp"] = <<>>
      /\ cell["space"] = c /\ pages \in [Spaces -> Seq(Page)]
      /\ cell \in [Spaces -> Page]
  BY <1>1, <1>3, SpaceNames DEF c
<1>5. /\ DOMAIN pages["space"] = {1} /\ pages["space"][1] = c
      /\ DOMAIN pages["tmp"] = {}
  BY <1>4
<1>6. mapped[p] = PageSize /\ \A q \in PageIds : q # p => mapped[q] = 0
  BY <1>1
<1>7. PagesUntouched /\ PagesMapped /\ PagesApart
  BY <1>1, <1>3, <1>5, <1>6, SpaceNames, PageSizeAssumption
     DEF PagesUntouched, PagesMapped, PagesApart
<1>8. UnmapExact
  BY <1>1, <1>3, <1>5, <1>6, SpaceNames DEF UnmapExact, PageOf
<1>9. GrowsOnlyByEmbedder /\ (~collecting => pages["tmp"] = <<>>)
  BY <1>2, <1>4 DEF GrowsOnlyByEmbedder
<1>10. BlocksInv
  <2>1. Copies("space", cell["space"])
    BY <1>3, <1>4, <1>5 DEF Copies
  <2>. QED BY <1>2, <2>1, SpaceNames
           DEF BlocksInv, CellInv, InUse, SmallBlocksInBounds, CurrentApart
<1>11. TypeOK
  BY <1>1, <1>2, <1>4, PageSizeAssumption DEF TypeOK, Origins
<1>12. EarlierInv
  BY <1>2, <1>3, <1>4, SpaceNames DEF EarlierInv, InUse
<1>. QED BY <1>7, <1>8, <1>9, <1>10, <1>11, <1>12 DEF IInv, PagesInv

LEMMA StepInv ==
  ASSUME PageSizeAssumption, RequestsAssumption, ExtraAssumption, IInv, [Next]_vars
  PROVE  IInv'
<1>1. ASSUME NEW s \in Spaces, NEW bytes \in Requests, Allocate(s, bytes)
      PROVE  IInv'
  BY <1>1, AllocateHereKeeps, AllocateElsewhereKeeps DEF Allocate
<1>2. ASSUME UNCHANGED <<pages, cell, size, sizeLimit, needsGC, mapped, length,
                         collecting, blocks, earlier, added, selected>>,
             wild' \in BOOLEAN, intact' \in [Spaces -> BOOLEAN]
      PROVE  IInv'
  <2>1. PagesInv'
    BY <1>2, PagesStay DEF IInv
  <2>2. TypeOK'
    BY <1>2 DEF IInv, TypeOK
  <2>3. BlocksInv'
    BY <1>2 DEF IInv, BlocksInv, CellInv, InUse, Copies, SmallBlocksInBounds, Small, CurrentApart
  <2>4. EarlierInv'
    BY <1>2 DEF IInv, EarlierInv, InUse, PageOf
  <2>. QED BY <2>1, <2>2, <2>3, <2>4 DEF IInv
<1>3. ASSUME NEW s \in Spaces, NEW bytes \in Requests, AllocateWild(s, bytes)
      PROVE  IInv'
  BY <1>2, <1>3 DEF AllocateWild, IInv, TypeOK
<1>4. ASSUME NEW s \in Spaces, Overwrite(s)
      PROVE  IInv'
  BY <1>2, <1>4 DEF Overwrite, IInv, TypeOK
<1>5. CASE UNCHANGED vars
  BY <1>2, <1>5 DEF vars, IInv, TypeOK
<1>6. ASSUME NEW bytes \in Extra, AddPage(bytes)
      PROVE  IInv'
  BY <1>6, AddPageKeeps
<1>. QED BY <1>1, <1>3, <1>4, <1>5, <1>6, BeginCollectionKeeps, SwapKeeps DEF Next

LEMMA Invariant == Spec => []IInv
<1>. USE PageSizeAssumption, RequestsAssumption, ExtraAssumption
<1>1. Init => IInv
  BY InitInv
<1>2. IInv /\ [Next]_vars => IInv'
  BY StepInv
<1>. QED BY <1>1, <1>2, PTL DEF Spec

\* Every variable of a space keeps its type; what is mapped never goes below zero.
THEOREM SpaceTypeOK == Spec => []TypeOK
<1>1. IInv => TypeOK
  BY DEF IInv
<1>. QED BY <1>1, Invariant, PTL

\* However pages are searched and spaces swapped (heap.rs 217-274), every small block
\* is inside the page it came from, and every address is odd.
THEOREM BlocksInBounds == Spec => []SmallBlocksInBounds
<1>1. IInv => SmallBlocksInBounds
  BY DEF IInv, BlocksInv
<1>. QED BY <1>1, Invariant, PTL

\* Two blocks of the pages a space owns overlap only where a search (heap.rs 226-240) or
\* a swap (heap.rs 272) started the page over, and there they always do, at the page's
\* first address: whatever the sizes of pages and requests, no order of calls avoids it.
THEOREM RestartsOverlap == Spec => []OverlapsWhereRestarted
<1>. QED BY OverlapsFollow, Invariant, PTL

\* The bump cell is a copy of a page the space owns, also across swap (heap.rs 265-291).
THEOREM CellStaysOwned == Spec => []CellOwned
<1>1. IInv => CellOwned
  BY SpaceNames DEF IInv, BlocksInv, CellInv, InUse, Copies, CellOwned, PageOf
<1>. QED BY <1>1, Invariant, PTL

\* The scan of the stack (gc.rs 174-179, heap.rs 204-215) finds every small block but
\* those behind the first PageSize bytes of a longer page.
THEOREM ScanSeesBlocks == Spec => []BlocksVisible
<1>1. IInv => BlocksVisible
  <2>. SUFFICES ASSUME IInv, NEW b \in blocks["space"], Small(b)
                PROVE  \/ ContainsPointer("space", b.data, b.lo)
                       \/ cell["space"].limit > PageSize /\ b.lo >= PageSize
    BY DEF BlocksVisible
  <2>1. b.lo \in Nat /\ b.len \in Nat /\ cell["space"].limit \in Nat
    BY SpaceNames DEF IInv, TypeOK, Block, Page
  <2>2. b.len > 0
    BY SpaceNames DEF IInv, BlocksInv
  <2>3. b.lo >= 1 /\ b.lo + b.len <= cell["space"].limit /\ b.data = cell["space"].data
    BY SpaceNames DEF IInv, BlocksInv, SmallBlocksInBounds, CurrentApart
  <2>4. PageOf("space", b.data)
    BY <2>3, SpaceNames DEF IInv, BlocksInv, CellInv, InUse, Copies, PageOf
  <2>. QED BY <2>1, <2>2, <2>3, <2>4, PageSizeAssumption DEF ContainsPointer, PageOf
<1>. QED BY <1>1, Invariant, PTL

\* allocate never adds a page and never asks for a collection (heap.rs 226-251).
THEOREM AllocateNeverGrows == Spec => []GrowsOnlyByEmbedder
<1>1. IInv => GrowsOnlyByEmbedder
  BY DEF IInv, PagesInv
<1>. QED BY <1>1, Invariant, PTL

\* No page of a space is ever unmapped, and a page no space owns any more gave back
\* page_size() bytes exactly once (heap.rs 258-274).
THEOREM UnmapIsExact == Spec => []UnmapExact
<1>1. IInv => UnmapExact
  BY DEF IInv, PagesInv
<1>. QED BY <1>1, Invariant, PTL
=============================================================================
