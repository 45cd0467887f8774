------------------------------- MODULE Space -------------------------------
(***************************************************************************)
(* The page-based bump allocator behind each generation of the heap        *)
(* (struct Space in src/src/heap.rs) and the collector's use of it: a       *)
(* temporary space is filled with the survivors and swapped in.             *)
(*                                                                         *)
(* An address is a page and an offset into it.  Pages start at an even      *)
(* address, so the parity of an offset is the parity of the address, which  *)
(* is what tells a boxed value from a small integer.                        *)
(*                                                                         *)
(* `select` makes `top` and `limit` point into the Page it is handed, and   *)
(* every caller hands it a copy that dies soon after: a local that is moved *)
(* into the vector, an element of a cloned vector, a temporary.  The bump   *)
(* pointer therefore lives in a detached copy, `cell`, and never in `pages`.*)
(* What a read through it finds is undefined: either the copy is still      *)
(* intact, or its storage has been reused (Overwrite) and the allocation    *)
(* that reads it is wild, after which nothing is claimed.                   *)
(***************************************************************************)
EXTENDS Integers, Sequences, FiniteSets

CONSTANTS
  PageSize,   \* the page size of the heap and of the operating system
  Requests,   \* the sizes, in bytes, that callers ask allocate for
  Extra,      \* the sizes an embedder asks the public add_page for
  ThisSpace,  \* which generation `space` is: "NewSpace" or "OldSpace"
  PageIds     \* bound: the pages mmap can hand out, each of them once

ASSUME PageSizeAssumption == PageSize \in Nat /\ PageSize >= 2
ASSUME RequestsAssumption == Requests \subseteq Nat \ {0}
ASSUME ExtraAssumption    == Extra \subseteq Nat \ {0}
ASSUME ThisSpaceAssumption == ThisSpace \in {"NewSpace", "OldSpace"}

VARIABLES
  pages,      \* pages[s]: the vector of pages of space s
  cell,       \* cell[s]: the Page copy that s.top and s.limit point into
  intact,     \* intact[s]: the storage of that copy has not been reused
  size,       \* size[s]
  sizeLimit,  \* sizeLimit[s]
  needsGC,    \* heap.needs_gc
  mapped,     \* mapped[p]: bytes of page p that are still mapped
  length,     \* history: length[p], the bytes mmap gave page p, 0 if never mapped
  collecting, \* a collection is filling the temporary space
  wild,       \* an allocation went through a reused cell
  blocks,     \* history: blocks[s], what allocate returned since the last select
  earlier,    \* history: earlier[s], the blocks it returned before that, in pages s owns
  added,      \* history: pages the embedder added since the last swap
  selected    \* history: selected[s], what chose its page: a new page, a search, a swap

vars == <<pages, cell, intact, size, sizeLimit, needsGC, mapped, length, collecting,
          wild, blocks, earlier, added, selected>>

Spaces  == {"space", "tmp"}
Page    == [data : PageIds, top : Nat, limit : Nat, size : Nat]
Block   == [data : PageIds, lo : Nat, len : Nat]
Origins == {"new", "search", "swap"}

(***************************************************************************)
(* Pages.                                                                   *)
(***************************************************************************)

\* Mutants, here and below: what a plausible slip in the code would do.
NewPageUntagged(p, x) == [data |-> p, top |-> 0, limit |-> x, size |-> x]

\* Page::new: top is one past the data pointer, so that addresses are odd.
NewPage(p, x) == [data |-> p, top |-> 1, limit |-> x, size |-> x]

\* mmap hands out a page that was never mapped before.
Mmap(p, n) ==
  /\ length[p] = 0
  /\ mapped' = [mapped EXCEPT ![p] = n]
  /\ length' = [length EXCEPT ![p] = n]

RoundDown(value, to) == value - (value % to)

\* add_page's roundup adds a whole page to a size that is not a multiple.
RoundUp(value, to) == IF value % to = 0 THEN value ELSE value + to

Even(bytes) == bytes + (bytes % 2)

FitsOneMore(c, n) == c.top + n <= c.limit + 1

Fits(c, n) == c.top + n <= c.limit

\* The sum of the sizes of the pages, as swap accumulates it.
TotalSize(ps) ==
  LET sum[k \in 0..Len(ps)] == IF k = 0 THEN 0 ELSE sum[k - 1] + ps[k].size
  IN sum[Len(ps)]

Reversed(ps) == [k \in 1..Len(ps) |-> ps[Len(ps) + 1 - k]]

(***************************************************************************)
(* Space::new, select.                                                      *)
(***************************************************************************)

Init ==
  \E p \in PageIds :
    /\ pages = [s \in Spaces |-> IF s = "space" THEN <<NewPage(p, PageSize)>> ELSE <<>>]
    /\ cell = [s \in Spaces |-> NewPage(p, PageSize)]
    /\ intact = [s \in Spaces |-> s = "space"]
    /\ size = [s \in Spaces |-> 0]
    /\ sizeLimit = [s \in Spaces |-> 0]
    /\ needsGC = "None"
    /\ mapped = [q \in PageIds |-> IF q = p THEN PageSize ELSE 0]
    /\ length = mapped
    /\ collecting = FALSE
    /\ wild = FALSE
    /\ blocks = [s \in Spaces |-> {}]
    /\ earlier = [s \in Spaces |-> {}]
    /\ added = 0
    /\ selected = [s \in Spaces |-> "new"]

\* What the space has handed out so far stays live when another page is selected.
Keep(s, how) ==
  /\ earlier' = [earlier EXCEPT ![s] = @ \cup blocks[s]]
  /\ selected' = [selected EXCEPT ![s] = how]

SelectDropped(s, page) ==
  /\ cell' = cell
  /\ intact' = [intact EXCEPT ![s] = TRUE]

Select(s, page) ==
  /\ cell' = [cell EXCEPT ![s] = page]
  /\ intact' = [intact EXCEPT ![s] = TRUE]

(***************************************************************************)
(* allocate.                                                                *)
(***************************************************************************)

\* The search re-selects pages in order until the selected one fits.  The
\* page it selects last is not tested any more.  k counts its iterations.
SearchEnds(ps, n, k) ==
  /\ \A j \in 1..(k - 1) : ~Fits(ps[j], n)
  /\ k = Len(ps) \/ (k > 0 /\ Fits(ps[k], n))

GapFoundUnlessLast(ps, k) == k > 0 /\ k < Len(ps)

\* The flag is set in every iteration, with the iteration's index from 0.
GapFound(ps, k) == k > 0 /\ k - 1 < Len(ps)

TakeShort(s, c, n, old) ==
  /\ cell' = [cell EXCEPT ![s] = [c EXCEPT !.top = @ + n - 2]]
  /\ blocks' = [blocks EXCEPT ![s] =
                  old \cup {[data |-> c.data, lo |-> c.top, len |-> n]}]

\* result = *top; *top += even_bytes, on the page copy c.
Take(s, c, n, old) ==
  /\ cell' = [cell EXCEPT ![s] = [c EXCEPT !.top = @ + n]]
  /\ blocks' = [blocks EXCEPT ![s] =
                  old \cup {[data |-> c.data, lo |-> c.top, len |-> n]}]

Usable(s) ==
  /\ ~wild
  /\ intact[s]
  /\ collecting <=> s = "tmp"

AllocateHere(s, bytes) ==
  LET n == Even(bytes) IN
  /\ Usable(s)
  /\ Fits(cell[s], n)
  /\ Take(s, cell[s], n, blocks[s])
  /\ UNCHANGED <<pages, intact, size, sizeLimit, needsGC, mapped, length,
                 collecting, wild, earlier, added, selected>>

\* What add_page does to the page vector, the accounting and the mappings.
PushPage(s, p, realSize) ==
  /\ Mmap(p, realSize)
  /\ pages' = [pages EXCEPT ![s] = Append(@, NewPage(p, realSize))]
  /\ size' = [size EXCEPT ![s] = @ + realSize]

AllocateElsewhere(s, bytes) ==
  LET n == Even(bytes) IN
  /\ Usable(s)
  /\ ~Fits(cell[s], n)
  /\ \E k \in 0..Len(pages[s]) :
       /\ SearchEnds(pages[s], n, k)
       /\ IF GapFound(pages[s], k)
          THEN /\ Take(s, pages[s][k], n, {})
               /\ Keep(s, "search")
               /\ UNCHANGED <<pages, size, mapped, length, needsGC>>
          ELSE /\ needsGC' = IF size[s] <= sizeLimit[s] THEN needsGC
                             ELSE IF s = "space" THEN ThisSpace ELSE "OldSpace"
               /\ \E p \in PageIds :
                    LET real == RoundUp(n + 1, PageSize) IN
                    /\ PushPage(s, p, real)
                    /\ Take(s, NewPage(p, real), n, {})
                    /\ Keep(s, "new")
  /\ intact' = [intact EXCEPT ![s] = TRUE]
  /\ UNCHANGED <<sizeLimit, collecting, wild, added>>

\* A read through a cell whose storage was reused: any address may come back.
\* A search frees the vector it selected from before it reads the result, so
\* the storage of an intact cell may be reused inside the call as well.
AllocateWild(s, bytes) ==
  /\ ~wild
  /\ collecting <=> s = "tmp"
  /\ intact[s] => ~Fits(cell[s], Even(bytes))
  /\ wild' = TRUE
  /\ UNCHANGED <<pages, cell, intact, size, sizeLimit, needsGC, mapped, length,
                 collecting, blocks, earlier, added, selected>>

(***************************************************************************)
(* add_page as the embedder's call, and the life of a collection.           *)
(***************************************************************************)

AddPage(bytes) ==
  LET real == RoundUp(bytes, PageSize) IN
  /\ ~wild /\ ~collecting
  /\ \E p \in PageIds :
       /\ PushPage("space", p, real)
       /\ Select("space", NewPage(p, real))
  /\ blocks' = [blocks EXCEPT !["space"] = {}]
  /\ Keep("space", "new")
  /\ added' = added + 1
  /\ UNCHANGED <<sizeLimit, needsGC, collecting, wild>>

\* collect_garbage makes the temporary space.
BeginCollection ==
  /\ ~wild /\ ~collecting
  /\ collecting' = TRUE
  /\ \E p \in PageIds :
       /\ Mmap(p, PageSize)
       /\ pages' = [pages EXCEPT !["tmp"] = <<NewPage(p, PageSize)>>]
       /\ Select("tmp", NewPage(p, PageSize))
  /\ size' = [size EXCEPT !["tmp"] = 0]
  /\ sizeLimit' = [sizeLimit EXCEPT !["tmp"] = 0]
  /\ selected' = [selected EXCEPT !["tmp"] = "new"]
  /\ UNCHANGED <<needsGC, wild, blocks, earlier, added>>

UnmapButFirst(m, ps) ==
  [p \in PageIds |-> IF \E k \in 2..Len(ps) : ps[k].data = p
                     THEN m[p] - PageSize ELSE m[p]]

\* clear unmaps page_size() bytes of every page, whatever the page's length.
Unmap(m, ps) ==
  [p \in PageIds |-> IF \E k \in DOMAIN ps : ps[k].data = p
                     THEN m[p] - PageSize ELSE m[p]]

\* swap pops the temporary space's pages from the end and selects the first.
Swap ==
  LET moved == Reversed(pages["tmp"]) IN
  /\ ~wild /\ collecting
  /\ mapped' = Unmap(mapped, pages["space"])
  /\ pages' = [s \in Spaces |-> IF s = "space" THEN moved ELSE <<>>]
  /\ size' = [size EXCEPT !["space"] = TotalSize(moved)]
  /\ Select("space", moved[1])
  /\ sizeLimit' = [sizeLimit EXCEPT !["space"] = 2 * TotalSize(moved)]
  /\ collecting' = FALSE
  /\ blocks' = [s \in Spaces |-> {}]
  /\ earlier' = [s \in Spaces |-> IF s = "space" THEN earlier["tmp"] \cup blocks["tmp"] ELSE {}]
  /\ selected' = [selected EXCEPT !["space"] = "swap"]
  /\ added' = 0
  /\ UNCHANGED <<needsGC, length, wild>>

\* The stack frame or heap block that held the selected copy is reused.
Overwrite(s) ==
  /\ ~wild
  /\ intact[s]
  /\ intact' = [intact EXCEPT ![s] = FALSE]
  /\ UNCHANGED <<pages, cell, size, sizeLimit, needsGC, mapped, length,
                 collecting, wild, blocks, earlier, added, selected>>

Allocate(s, bytes) == AllocateHere(s, bytes) \/ AllocateElsewhere(s, bytes)

Next ==
  \/ \E s \in Spaces, bytes \in Requests : Allocate(s, bytes)
  \/ \E s \in Spaces, bytes \in Requests : AllocateWild(s, bytes)
  \/ \E s \in Spaces : Overwrite(s)
  \/ \E bytes \in Extra : AddPage(bytes)
  \/ BeginCollection
  \/ Swap

Spec == Init /\ [][Next]_vars

----------------------------------------------------------------------------
(***************************************************************************)
(* Properties.                                                              *)
(***************************************************************************)

TypeOK ==
  /\ pages \in [Spaces -> Seq(Page)]
  /\ cell \in [Spaces -> Page]
  /\ intact \in [Spaces -> BOOLEAN]
  /\ size \in [Spaces -> Nat]
  /\ sizeLimit \in [Spaces -> Nat]
  /\ needsGC \in {"None", "NewSpace", "OldSpace"}
  /\ mapped \in [PageIds -> Nat]
  /\ length \in [PageIds -> Nat]
  /\ collecting \in BOOLEAN
  /\ wild \in BOOLEAN
  /\ blocks \in [Spaces -> SUBSET Block]
  /\ earlier \in [Spaces -> SUBSET Block]
  /\ added \in Nat
  /\ selected \in [Spaces -> Origins]

PageOf(s, p) == \E k \in DOMAIN pages[s] : pages[s][k].data = p

\* A small block fits a page that has just been selected.
Small(b) == b.len + 1 <= PageSize

\* allocate (heap.rs 217-256) hands out memory inside the selected page for every
\* request that a page can hold, although the page its search ends on is never
\* tested: re-selecting a page starts it over.  And every address it returns is odd
\* (heap.rs 24, 219: top starts one past an even pointer and only moves by even
\* amounts), so is_unboxed (heap.rs 408) takes no heap object for a small integer.
SmallBlocksInBounds ==
  \A s \in Spaces : \A b \in blocks[s] :
    /\ b.lo % 2 = 1
    /\ Small(b) => b.lo >= 1 /\ b.lo + b.len <= cell[s].limit

Apart(b, c) == b.data # c.data \/ b.lo + b.len <= c.lo \/ c.lo + c.len <= b.lo

\* Blocks handed out from one selection of a page are disjoint and end below the bump
\* pointer.  But the tops in the vector of pages are never bumped, so a search (heap.rs
\* 226-240) or a swap (heap.rs 272) starts the page it selects over, and the space
\* still owns what it handed out before: the next block overlaps a live one as soon as
\* one lies on that page, which is always so where the space has a single page, as
\* after every swap.  Only a page that add_page has just mapped is safe.
OverlapsWhereRestarted ==
  \A s \in Spaces :
    /\ \A b \in blocks[s] : b.data = cell[s].data /\ b.lo + b.len <= cell[s].top
    /\ \A b, c \in blocks[s] : b # c => Apart(b, c)
    /\ \A e \in earlier[s] : PageOf(s, e.data)
    /\ (\E b \in blocks[s], e \in earlier[s] : ~Apart(b, e)) <=>
         (blocks[s] # {} /\ \E e \in earlier[s] : e.data = cell[s].data)
    /\ selected[s] = "new" => \A e \in earlier[s] : e.data # cell[s].data

\* The bump cell, which is detached from the vector of pages, still designates a
\* page the space owns: swap (heap.rs 265-274) must not leave it on a page that
\* clear has unmapped.
CellOwned ==
  /\ PageOf("space", cell["space"].data)
  /\ collecting => PageOf("tmp", cell["tmp"].data)

\* contains_pointer (heap.rs 204-215).
ContainsPointer(s, p, off) ==
  \E k \in DOMAIN pages[s] :
    /\ pages[s][k].data = p
    /\ 1 <= off /\ off < PageSize

\* The collector's stack scan sees every small block of the space as a heap
\* pointer (gc.rs 174-179), unless it lies beyond the first PageSize bytes of a
\* page that add_page made longer than that.
BlocksVisible ==
  \A b \in blocks["space"] :
    Small(b) => \/ ContainsPointer("space", b.data, b.lo)
                \/ cell["space"].limit > PageSize /\ b.lo >= PageSize

\* allocate never maps a page and never asks for a collection: its search reports
\* a gap whenever the space has a page at all (heap.rs 228-232), which it always
\* has, so only the embedder's add_page grows a space.
GrowsOnlyByEmbedder ==
  /\ needsGC = "None"
  /\ Len(pages["space"]) = 1 + added
  /\ collecting => Len(pages["tmp"]) = 1

\* No page that a space owns has been unmapped (heap.rs 265-271: swap clears the old
\* pages before it moves in the new ones).  One that no space owns any more was
\* unmapped exactly once, and clear (heap.rs 258-264) gave back page_size() bytes of
\* it whatever its length: an ordinary page is gone whole, a longer one leaks the rest.
UnmapExact ==
  /\ \A s \in Spaces : \A k \in DOMAIN pages[s] :
       mapped[pages[s][k].data] = pages[s][k].size
  /\ \A p \in PageIds :
       (length[p] > 0 /\ ~PageOf("space", p) /\ ~PageOf("tmp", p)) =>
         mapped[p] = length[p] - PageSize

============================================================================
