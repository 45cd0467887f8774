# ExVM-RS: TLA+ models, model checking and proofs

ExVM-RS (`src/`) is the runtime of a JIT virtual machine for dynamically typed
languages: a page-based heap with two generations, a copying collector, tagged values and
objects with hash-table properties, a macro assembler and the entry stub that calls into
generated code. `src/jazz-jit/` is the x86-64 assembler it emits code with.

## 1. Inventory

| Component | Source | State it keeps | Operations |
|---|---|---|---|
| Space | `src/src/heap.rs` 7-28, 158-291 | `pages`, `top`/`limit` (pointers to the bump cell), `size`, `size_limit` | `new`, `select`, `allocate`, `add_page`, `clear`, `swap`, `contains_pointer` |
| Heap and handles | `src/src/heap.rs` 30-156, 1117-1146 | the two spaces, `needs_gc`, `references`, `weak_references` | `new`, `reference`, `allocate_tagged`, `space` |
| Values and objects | `src/src/heap.rs` 293-1192 | header word (tag, representation, generation, mark bits), fields | constructors, accessors, `size`, `copy_to`, generation and mark updates |
| Collector | `src/src/gc.rs` | `grey`, `weak`, `black` queues, `tmp_space`, `gc_type` | `collect_garbage` and its phases |
| Runtime | `src/src/runtime.rs` | none of its own: object maps | `rt_lookup_property`, `rt_grow_object`, `rt_to_number`, `rt_strict_cmp`, `rt_strcmp` |
| Strings | `src/src/heap.rs` 696-830 | flat characters, or two halves | `new`, `value`, `flatten_cons` |
| Hash | `src/src/lib.rs` 6-19 | none | `compute_hash` |
| Macro assembler, entry stub | `src/src/asm.rs`, `src/src/stubs.rs` | code buffer, relocation list | `pushad`/`popad`, `allocate`, `relocate`, `entry_stub` |
| Code buffer | `src/jazz-jit/src/assembler.rs`, `dseg.rs`, `lib.rs` | `data`, `labels`, `jumps`, data segment entries | labels, forward jumps, constants, `get_executable_memory` |
| Instruction encoders | `src/jazz-jit/src/assembler_x64.rs`, `avx.rs`, `constants_x64.rs` | none: append bytes | REX/ModRM/SIB/VEX encoders, register operations |
| Page memory | `src/src/heap.rs` 1194-1320 | OS mappings | `mmap`, `munmap`, `init_page_size` |

**Interactions.** The embedder calls `Heap::new`, registers handles, enters generated code
through the entry stub and calls `collect_garbage` when `needs_gc` says so. `rt_lookup_property` and
`rt_grow_object` call each other and `allocate_tagged`. `allocate_tagged` calls
`Space::allocate`, which calls `select` and may `add_page`. `HString::value` allocates a flat string and
has `flatten_cons` fill it. `collect_garbage` reads the heap's
handles and the stack, finds out with `contains_pointer` which words point into a space, fills
a temporary space through `copy_to` (again `Space::allocate`), rewrites slots through raw
pointers, and ends in `Space::swap`, which unmaps the old pages. The macro assembler and the
operations of the assembler append bytes through the instruction encoders to the code buffer, put
constants into its data segment, and `get_executable_memory` lays both out in one image. Nothing runs in
parallel: every call is synchronous, and the difficulty lies in what survives from one call to
the next through raw pointers, header bits and queues.

**What is hard here.**

- Memory handed out twice: the bump pointer moves in a copy of a `Page`, never in the vector of pages, so that
  every search and every `swap` starts a page over in which live objects lie.
- Pointers that outlive what they point to: the bump pointer itself, slots that still name an object whose page
  `swap` unmaps, prototypes that no collection follows, words read behind a replaced map.
- Two descriptions of one fact: the generation bits and the address of an object; the soft mark
  and the black queue; the forwarding mark and the copy; the words a constructor allocates, those
  its accessors reach and those `copy_to` moves.
- Recursion over shared state: the second collection that `collect_garbage` starts with the
  queues of the first, the lookup that grows a map by looking up its keys, the halves of a string
  written into one buffer.
- Termination: of a collection that never marks an original, of a search that no empty slot ends.
- Numbers: rounding of sizes and offsets, page bounds, masks, displacements relative to the
  *end* of an instruction whose length depends on its registers.
- Registers that coincide, and registers whose number the processor reads differently
  (RSP, RBP, R12, R13, the byte registers 4-7, the inverted bits of a VEX prefix).
- What the stack holds between a push and its pop, in code that jumps where nobody patched the
  displacement.

There is no persistence, no concurrency and no message passing in this code, so crash recovery,
reordering and retries do not arise. `PROJECT.json` lists each hazard at its line.

**What correctness means, per component.**

| Component | Properties |
|---|---|
| Space | addresses are boxed; small blocks are inside their page and visible to the scan; blocks overlap exactly where a page was started over; the bump cell stays on a page that is owned and mapped; growth and unmapping are exact |
| Collector | no assertion fires; a reference never comes to designate another object (`HeapGraph`), and one that leads to no object was overwritten, promoted or not followed, as no prototype is; generation and space agree; it comes to an end |
| Values and objects | an object reads as it was written, whatever is allocated, copied or flattened next to it, until its memory is handed out again after a swap, which is exactly where |
| Strings | the text of a string is what it was made of, whenever it is asked for |
| Runtime | elements survive growth, which adds nothing but foreign words; a search of a hash map ends, and where |
| Code buffer | jumps land; patched fields are disjoint; constants do not overlap and are read where they are |
| Instruction encoders | an operation computes what it is named for and spares other registers; its bytes decode as what was asked for |
| Macro assembler, entry stub | the code entered finds its arguments; registers come back as they were saved |

Several of the properties are stated with their exceptions, and as equivalences where possible:
where the code falls short of the obvious wish, the property says *exactly* where, so that
neither a better nor a worse encoder, search or collector would satisfy it.

## 2. Plan

Written, in this order, the most important behaviour first:

| Module | Models | Extended or instantiated by |
|---|---|---|
| `Collector` | the heap's object graph and `collect_garbage` | `MCCollector`, `CollectorProofs` |
| `HeapGraph` | what a program can tell of a collection: the abstract specification of `Collector` | `CollectorRefinement` |
| `CollectorRefinement` | the refinement mapping from `Collector` to `HeapGraph` | `MCCollector`, `CollectorProofs` |
| `Space` | one generation's space and the temporary space | `MCSpace`, `SpaceProofs` |
| `CodeBuffer` | `Assembler` and `DSeg` | `MCCodeBuffer`, `CodeBufferProofs` |
| `Operations` | three-address operations by the instructions they emit | `MCOperations`, `OperationsProofs` |
| `PropertyTable` | `rt_lookup_property` and `rt_grow_object` | `MCPropertyTable`, `PropertyTableProofs` |
| `Encoding` | REX, ModRM, SIB and immediates of every encoder, and a decoder | `VexEncoding` |
| `VexEncoding` | VEX prefixes and the encoders of `avx.rs` | `MCEncoding`, `EncodingProofs` |
| `Objects` | objects and strings word by word: constructors, accessors, `copy_to`, `flatten_cons` | `MCObjects`, `ObjectsProofs` |
| `Masm` | `Masm`'s parts and `entry_stub`, executed | `MCMasm`, `MasmProofs` |
| `CollectorProofs` | theorems about `Collector`, and that it implements `HeapGraph` | |
| `EncodingProofs` | lemmas about each encoder of `Encoding` and `VexEncoding`, and the theorems about both | |
| `SpaceProofs`, `CodeBufferProofs`, `OperationsProofs`, `PropertyTableProofs`, `ObjectsProofs`, `MasmProofs` | theorems about the modules they are named for | |

No operator is `RECURSIVE`: where strings are trees, `Objects` uses functions defined by recursion on the strings of a heap.
`Bitwise` is used in `MC` modules only. `Collector` takes from `Space` what an allocation does to what the
space holds (it may overwrite any of it) and what `swap` does (the collected space is unmapped as a whole); the
two are kept apart because their product is out of TLC's reach. Which blocks are overwritten is said by `Space`
(`OverlapsWhereRestarted`), which objects are, word by word and for the one restart that every collection ends with, by `Objects`
(`SurvivorsOverrun`); `Collector` claims what holds whichever they are. For the same reason `Objects` has one page for each space
that never fills, and `Masm` takes from `Encoding` that an instruction is encoded as what was asked for.

What would be left to do: the 32-bit width of the dense index.

## 3. The modules and the code

In every module an action stands for a whole call, or, where calls nest or loop over shared
state, for one turn of the loop; the comment on a variable names the field it stands for.
Operators that no property or action uses (`SizeShort`, `PopadSameOrder`, `UntagForgotten`, ...)
are slips that a mutated model substitutes for the operator next to them: for each property
`PROJECT.json` names one that breaks it.

**Space** (`heap.rs` 7-28, 158-291, 1194-1320). `pages[s]` is the vector `pages` of the space and of the
collector's `tmp_space`; `cell[s]` is the `Page` that `top` and `limit` point into. All callers hand
`select` a copy of a page that dies soon after, so the bump pointer never moves in `pages`. Reading
through it is undefined once the storage is reused: `Overwrite` may happen at any time and makes a
later `AllocateWild` end all claims; until then the copy is intact. `AllocateHere` bumps the cell,
`AllocateElsewhere` is the search of 221-256 with its `select`, `AddPage` the public `add_page`,
`BeginCollection` the creation of `tmp_space`, `Swap` `swap` with `clear`. An address is a page and an
offset; `mapped` counts the bytes of each page that `munmap` has not given back. Of what `allocate` returned, `blocks[s]` is
what it did since a page was last selected, `earlier[s]` what it did before that and lies in pages the space still owns (at a `swap`
the survivors in the temporary space's pages), and `selected[s]` tells how the page was chosen: only
`add_page` chooses one in which nothing lies.

**Collector** (`gc.rs`, with the accessors and `copy_to` of `heap.rs`). A cell is an object; a copy is a new
cell. Slots are the words the collector writes through pointers: stack words, the local and the
value of a handle, weak references, fields. `phase` is the place in `collect_garbage`:
`begin` → `handles` (`colour_persistent_handles`) → `scan`/`grey` (`colour_frames`: after each stack
word `process_grey` drains the queue) → `black` (the soft marks are reset) → `weak`
(`relocate_weak_handles`) → `refs` (`handle_weak_refs`) → `swap`, and from there to `begin` again for
the recursive second collection, or to `idle`. `ProcessGrey` treats one item: unboxed values are
skipped; an object of the other generation is visited in place under a soft mark (`MarkSoft`,
`SkipMarked`); an object of the collected one is copied (`CopyTo`), which ages original and copy
(`heap.rs` 555), pushes the copy's fields and redirects the slot. Because a space hands memory out again that is in use,
every allocation, a copy's too, adds any cells of the space it is made in to `lost` (`Overwrite`). `phase = "panic"` is a failed
assertion; `"wild"` is reached when the collector reads a header, or writes a slot, in memory that was unmapped or overwritten, or takes
for an object an odd stack word that only looks like an address (`ScanStray`: `contains_pointer` compares addresses). What it does
from there on is undefined and nothing is claimed. A word is also `HNil`, the nil object, which `process_grey` skips although by its
parity it is boxed, so that `relocate_weak_handles` reads its mark. The mutator may drop a root (`DropRoot`), make objects
that overwrite others (`Allocate`) and ask for a collection (`SetNeedsGC`, `CollectGarbage`): any graph and any roots are initial
states already. The callback of a weak reference may do the same, ask for either generation and take a request back (`Callback`).
`origin`, `fresh`, `start`, `seen` and `rounds` are history variables: no action reads them except `rounds` in the bound on
collections.

**HeapGraph** and **CollectorRefinement**. `HeapGraph` knows no addresses, generations or copies. The program built the graph
`edges` and has roots into it; `graph` is the part that can be followed, `dangling` the roots that lead to no object. Between
collections the program drops roots, asks, and makes objects, which takes edges away and adds none. While one is collecting,
edges of `edges` may go and come (an object is unmapped, a copy of it is made) and no others; a handle's
local may be set back to the handle's value, weak handles are dropped, a weak reference is dropped (when its
callback may ask for any collection and drop a root) or given its object's first word. A collection of the new generation is followed by
another unless the new one is what is asked for by then; one of the old generation ends and forgets what was asked for meanwhile.
The mapping takes every address to `origin`, the object it is a copy of, of any number of copies; an edge can be
followed if *some* readable cell of its object holds it and it leads to a readable one. `KeepsPromise` says that whatever a program finds
by following fields is right, however far copying has got and whatever was overwritten; it does not say that it finds everything. What is
missing, and why, is said by `GraphPreserved`, `DanglingOnlyPromoted` and `PrototypesDangle`.

**CodeBuffer** (`assembler.rs`, `dseg.rs`, `assembler_x64.rs` 32-53 and 185-217). Bytes are counted, not kept;
`rel[p]` is the displacement written at position `p`. `Emit`, `CreateLabel`, `BindLabel`, `Jump`,
`FixForwardJumps`, `AddConstant`, `LoadFloatConst` and `FloatNeg` are the calls of the same names.

**Operations** (`assembler_x64.rs` 56-217, 259-776). `Generate` emits one operation for any registers,
or panics as the assertions do; `Execute` runs one instruction (what the processor
does is marked external in the map). Arithmetic is a parameter (constant
operators under named assumptions), so that the module is about the flow between registers.

**PropertyTable** (`runtime.rs` 3-118, `heap.rs` 838-886, 979-1073). `stack` holds the activations of the two
functions that call each other; each step is one turn of the running one: of a search (`LookupHash` enters it, `Probe`
tries one slot; `at` is where the search is) or of the loop that moves a map's slots. Slots, masks and hashes count
words. Words read behind a map's end (`Words`) are nil or `Foreign`; `written` remembers what was stored under each index
and `inserted` which indices were inserted. Allocation beyond `MaxSize` ends in
`exhausted`, as `allocate_tagged` would.

**Encoding** (the encoders of `assembler_x64.rs`). A call emits a sequence of pieces (prefix, REX, opcode,
ModRM, SIB, number). `Decode` reads the pieces as the processor would: from the ModRM byte it knows whether
a SIB byte and how many displacement bytes follow, and if other pieces are there the instruction is
`Garbled`. A store whose scale is not the size of its operand is encoded like any other (`StoreMem`), and `emit_movb_imm_memscaleq` takes
the two-bit field itself for its scale. The decoder models the x86-64 format, which is not in the repository, and is marked external in
the map.

**VexEncoding** (`avx.rs`, and the encoders of `assembler_x64.rs` that go through it). The two or three bytes
of a VEX prefix are numbers put together as the code does it; `DecodeVex` takes them apart again, puts
the bits where a REX prefix would have them and reads the other operands with `Encoding`'s decoder. An
opcode asked for in a map there is none of, or with a third operand it does not have, is undefined.

**Objects** (`heap.rs` 338-1115). A space is the sequence of its words. `New` is `allocate_tagged` and the stores of a
constructor; `Owned` is how many words the accessors of an object reach, `Size` how many `copy_to` moves: the
two formulas are translated from different functions. `Value` is `HString::value` with `Flatten`
(`flatten_cons`), which writes both halves and goes on where the first is said to end: a function that gives for each
string and place in the buffer the characters written, by their positions, and the end. The steps build
objects of every kind, write to their words and ask strings for their characters in any order; `CollectGarbage` begins a collection,
in which any objects of the space collected are copied (`CopyTo`, into the temporary space or the one they are promoted to), and
`Swap` ends it: the space collected has the temporary space's page, of which nothing counts as handed out. From there on
`heap` is what was handed out and written since, on top of `before.heap`, what the swap found (`ReadSince` reads the two
together). The program is followed through one collection, and after the swap it leaves what survived alone: that makes what
happens to the survivors the allocator's doing and no one else's.
`heap.objects` remembers what was written, and `asked`, of the string flattened last, whether a half of it was `Misplaced` and
whether its text was right; after a wrong one nothing more is done. Contexts, functions, arrays and pairs of strings are built by generated code,
so they get the words that accessors reach.

**Masm** (`asm.rs`, `stubs.rs`). `Program` is the list of instructions that `entry_stub`, `pushad` and `popad`
around a call, `allocate`, or an allocation between the two emit; a small processor executes it over words that are an
offset to a base (caller's registers, the stack, the arguments, plain numbers). A jump to a label bound
later goes to the next instruction, because nothing calls `fix_forward_jumps` before the bytes are taken. `CallCode` is
any code that keeps stack and frame. Only the shifts in use have a meaning (`Power`).

## 4. The runs

The bounds are `PageIds`, `MaxCells`, `MaxLost`, `MaxCollections`, `MaxPos`, `MaxLabels`, `MaxData`, `MaxSize`, `MaxForeign`,
`MaxCalls`, `MaxObjects`, `MaxSlots`, `MaxWrites`, `MaxArgs`, all of them guards in the actions or sets that
inputs come from; the other constants choose an instance. Every run sets `CHECK_DEADLOCK FALSE`, because each of these
programs may stop: the embedder makes no further call, an execution ends, or a bound is reached.

| Run | Instance | What it shows |
|---|---|---|
| `space` | page of 8 bytes, requests of 3 (odd) and 9 (odd, larger than a page), `add_page` of 3 and 8, 4 pages | blocks are boxed, small ones in bounds; they overlap an earlier live one exactly if a search or a swap started the page over in which it lies; the scan sees them; the bump cell always designates an owned page; `allocate` never maps a page and never asks for a collection; `clear` unmaps one page's worth whatever the page's length |
| `collector_graph` | 2 objects of kinds Context and Array, `MinOldGen` 2, 6 cells, 2 lost, 1 stack word, 1 collection | no reference designates another object than before, and one that leads nowhere was overwritten, promoted or not dealt with; assertions hold; redirected slots get a fresh copy of their own |
| `collector_roots` | Context, Object or String over a String leaf, `MinOldGen` 2, 5 cells, 1 lost, a stack word, a handle, a weak reference, 2 collections | `Collector` implements `HeapGraph`, with all roots, a callback that asks for anything, and the leftovers of the first collection; generation and space agree between collections; of the references followed only those to objects promoted by this very collection dangle; prototypes are never followed; a weak reference comes out holding the object's first word |
| `collector_ends` | `MinOldGen` 5 as in the code, 2 contexts each old or at most two copies away from it, 7 cells, 1 lost, 1 collection, fair | a collection of the new space ends on every graph; of the old space exactly if no root leads to a cycle of old objects |
| `code_buffer` | instructions of 3 bytes, 16 bytes of code, 2 labels, 32 bytes of data | jumps land in every order of binding and fixing; fields and entries are disjoint; a load is off by exactly the length its instruction lacks to eight |
| `constants_read` (violated) | instructions of 1 byte, 9 bytes of code | `load_float4_const` reads one byte below its constant |
| `masks_aligned` (violated) | the same | a constant added later moves the mask of `float_neg` off its 16-byte boundary |
| `operations` | 7 general and 3 XMM registers of 3 bits, three register files | every operation gives its result for every choice of registers, but for three clashes with fixed registers, whose results are stated; and changes no other register than those listed |
| `property_table` | maps of 1 and 2 slots, `DENSE_LENGTH_MAX` 9, maps up to 16, 4 calls, 2 foreign words | dense elements survive every growth when sizes are powers of two, and growth adds nothing but foreign words; a hash map never takes a key |
| `encoding` | a register of each kind (1, RSP, RBP, 6, 8, R12, R13, RAX), scales 1, 4, 8, numbers -129, -128, 0, 127, 128, third operands 0 and 13 beside an address | which operands give other bytes than asked for, and no others. REX: an index with base RBP or R13 and displacement 0, an index RSP, `sub_imm_mem` on RSP, RBP, R12, R13 or of more than 127, byte registers 4-7 without REX, byte moves between registers with different high bits, moves from XMM to general registers with exchanged operands. VEX: everything with an address, the broadcasts, two-operand conversions given a third, moves to general registers |
| `objects` | `MinOldGen` 2, contexts of up to 3 slots, 5 objects and copies, 1 word written to, one collection of either space with its swap | objects read as written up to the end of the collection, and those made since the swap do, except a copied context of no or one slot and what comes to lie in the words it lacks; what was promoted reads as before for good, but the first object made in the space collected lies over the first copy left there; a copied map reads one word too many, a context of more than two slots as many as there are slots but two; the text of a string comes out unless a half no longer than the other has a longer left half itself |
| `masm` | 0 to 8 arguments, allocations of 16 bytes, every result register | the code entered finds its arguments, always above a word of padding, but without arguments the stub faults before it enters; it never returns, because the arguments stay on the stack and what it restores is taken from them; `popad` undoes `pushad`, except around an allocation, which leaves two words |

**Why the bounds are enough.** *Space*: 4 pages allow the first page, a temporary one, one the embedder adds
and one more collection; the request of 3 bytes is rounded up to 4, and fits a page of 8 once and one of 11 (`add_page` of 3)
twice, that of 9 only the latter. *Collector*: two objects make self-references, mutual references, sharing and
references between the generations; 6 cells leave room for four copies, so that an object is copied again and
again where references are shared or cyclic, and 5 for three, over two collections; one lost cell is enough for every single reference
to lead nowhere, two for both ends of one; 7 cells with `MinOldGen` 5 let an object start two copies below the old
generation and reach it.
When cells run out `CopyTo` is not enabled, which stands for an allocation that fails; liveness is not an
artefact of that, because `OldCycleNeverCollected` shows those and only those graphs to get stuck for which
the copying has no end, and `NewSpaceCollectionEnds` holds although it would fail if a graph used up the cells. Nor is it one of
overwriting: with `MaxLost` used up the collector goes on as if memory were fresh.
What the theorems of section 5 state needs no such argument.
*CodeBuffer*: 16 bytes hold three jumps or two loads around a label. *Operations*: 7 general registers
are the three fixed ones, R11 and one for each of the three operands. *PropertyTable*: index 3 makes a map of one slot grow
to nine, which is still dense and no power of two; growing further exceeds `DENSE_LENGTH_MAX`, which makes it a hash
map. *Encoding*: each number lies on one side of a bound the encoders or the processor know; a third operand
is encoded apart from an address, so that a low and a high one do. *Objects*: contexts of 0 to 3 slots lie on
both sides of the two where constructor and copy agree; the run starts from two strings and from pairs of
pairs of them, longer half left or right, shared or not, to which it adds objects of every kind in every order; one
write at any time to any word is enough for it to be lost; two of the five objects and copies may be copies, one twice, so that with `MinOldGen` 2 a new
object is promoted, and one may be made over what was left behind. *Masm*: 8 arguments are one more than the registers
the stub saves, so that every word it restores comes from an argument, padding or a saved register.

**Fairness.** Only `AgedSpec` of `MCCollector` has any: `WF_vars(Collection)`. `collect_garbage` is one synchronous call
without waiting or I/O, so once entered it takes its next step; nothing is assumed of the embedder.

**Findings.** The two violated runs state what the repository says of itself: `src/jazz-jit/examples/float4.rs` prints
the vector it loads, and the comment at `src/jazz-jit/src/assembler_x64.rs:192` says that the mask is aligned to 16
bytes. The code does neither. The exceptions written into the other properties (those of `space`, `collector_roots`, `encoding`, `objects` and
`masm` above all) are places where the code does not do what its names suggest, but no text of the repository promises otherwise.

## 5. What is proved

TLAPS checks every theorem for all values of the constants that satisfy the named assumptions of the
module it is about; TLC evaluates them in every run of that module.

| Module | Theorem | Says | Inductive invariant |
|---|---|---|---|
| `CollectorProofs` | `TypeCorrect` | `Spec => []TypeOK` | `Inv` |
| | `NeverPanics` | `Spec => []NoPanic`: neither assertion on soft marks fails | `Inv` |
| | `GenerationsMatch` | `Spec => []GenerationMatchesSpace` | `Inv /\ CopyInv` |
| | `RedirectsToFreshCopies` | `Spec => RedirectedToFreshCopy` | `Inv /\ CopyInv` |
| | `GraphIsPreserved` | `Spec => []GraphPreserved` | `Inv /\ CopyInv /\ GraphInv` and `SeenInv` |
| | `WeakReferencesAreSpoiled` | `Spec => []WeakRefsLoseTheirObject` | `Inv /\ CopyInv /\ GraphInv` and `WeakInv` |
| | `OnlyPromotedDangle` | `Spec => []DanglingOnlyPromoted` | `Inv /\ CopyInv /\ GraphInv` and `SeenInv` |
| | `PrototypesAreLeftBehind` | `Spec => []PrototypesDangle` | the same and `ProtoInv` |
| | `OldCyclesAreNotCollected` | `Spec => []OldCycleNeverCollected` | the same and `CycleInv` |
| | `CollectorKeepsPromise` | `Spec => KeepsPromise`: `Collector` implements `HeapGraph` | `Everything` |
| `SpaceProofs` | `SpaceTypeOK`, `BlocksInBounds`, `RestartsOverlap`, `CellStaysOwned`, `ScanSeesBlocks`, `AllocateNeverGrows`, `UnmapIsExact` | every property of the run `space` | `IInv` |
| `CodeBufferProofs` | `BufferTypeOK`, `AllJumpsLand`, `NothingEverOverlaps`, `LoadsMissByLength` | every property of the run `code_buffer` | `CodeInv /\ DataInv` |
| `PropertyTableProofs` | `TypesHold`, `Kept`, `OnlyForeign`, `NeverFills` | every property of the run `property_table` | `IInv` |
| `OperationsProofs` | `TypesAreKept` | `Spec => []TypeOK` | `TypeInv` |
| | `ResultsAreRight`, `OthersAreKept` | `Spec => []ResultRight`, `Spec => []KeepsOthers` | `Inv` |
| `EncodingProofs` | `EncodingAlways` | `AllSpec => []EncodingInv` | `EncodingInv` |
| | `PiecesAreSound`, `CodeStaysInStep`, `CodeDecodesAsAsked`, `VexCodeDecodesAsAsked` | every property of the run `encoding` | `EncodingInv` |
| `ObjectsProofs` | `ObjectsInductive` | `Spec => []IInv` | `IInv` |
| | `ObjectsReadAsWritten`, `SurvivorsAreOverrun`, `CopiesStayInside`, `TextsAreKept` | every property of the run `objects` | `IInv` |
| `MasmProofs` | `MasmInductive` | `Spec => []IInv` | `IInv` |
| | `ArgumentsArePushed`, `RegistersAreBack` | every property of the run `masm` | `IInv` |

**Assumptions.** `Collector`: the old generation is a positive number, the other constants have their types
(`GenAssumption`, `ObjectsAssumption`, `TagsAssumption`, `RootsAssumption`, `CollectionsAssumption`).
`Space`: a page has at least two bytes, requests and extra pages are positive. `CodeBuffer`: lengths of instructions
are positive (`LensAssumption`) and bounds are numbers. `PropertyTable`: sizes and bounds are numbers
(`BoundsAssumption`), a hash is a number below a bound beyond every mask (`HashAssumption`; the code's is below 2^32), the
conjunction with a mask is at most either operand (`AndAssumption`), and nil is no key, value or number (`NilAssumption`). `Operations`: the fixed registers are general registers and
differ (`RegsAssumption`), writing a low byte and extending it does what it says (`ByteAssumption`), the
low bit of 0 and 1 is inverted as such, and two floats compare the same either way round
(`ArithmeticAssumption`), and what an instruction computes of register contents is again one (`ClosedAssumption`,
which only the types need); all other arithmetic is arbitrary. `Encoding`: registers are numbers up to 15,
scales 1, 2, 4 and 8, bytes below 256, immediates and displacements any integers (`OperandAssumption`); `VexEncoding`: third operands are
numbers of registers (`ThirdsAssumption`). `Objects`: `MinOldGen` is positive and the bounds are numbers
(`BoundsAssumption`). `Masm`: the bound on arguments and the size asked for are numbers (`ArgsAssumption`).

**Collector: types and marks.** `Inv` is `TypeOK /\ FrameInv /\ MarkInv /\ NoPanic`. `NoPanic` is not inductive: that the black
queue holds marked objects only, and that no object to be copied is marked, follows from `MarkInv` (the marked
objects are exactly those on the black queue, each once; while marking goes on none is in the collected
generation; the queue is empty when a collection starts). `FrameInv` says that items are processed for a stack word
that exists. One lemma per group of actions shows that types are kept, one per action that touches marks or the
queue that `MarkInv` is; the other steps are covered by `QuietStep`.

**Collector: copies.** `CopyInv` is `NotForwarded /\ FreshInv /\ PointInv /\ QueueInv /\ ReachInv /\ GenInv`. That the generation
agrees with the space can break only if a copy of this collection is copied again or aged, so the proof is about
what can still be reached: items on the grey queue and words of the stack not yet scanned designate no copy of this
collection (`ReachInv`), because such a copy is made for one slot only, which is then written and not read again; the
temporary space holds copies of this collection only (`FreshInv`); nothing points to a cell not allocated yet
(`PointInv`), so that a copy's new cell is in no slot; handles alone are left on the queue between phases
(`QueueInv`). `NotForwarded` is the fact that makes all this true of *this* collector: `relocate` writes a forwarding address
only over one that is already there, so no object ever has one. `GenInv` then says where each generation lies while a
collection is half done.

**Collector: the graph.** `GraphInv` is `OriginInv /\ GraphHeld /\ ItemInv`. A slot changes only when an item for it is
processed, perhaps long after it was queued and after the slot's object was copied for another slot; `ItemInv` says
that an item on the grey queue designates, up to copies, what its slot did before any collection, so that the copy
written to it is one of that object. `OriginInv` says that every allocated cell is a copy of one of the first objects,
which are copies of themselves. `GraphHeld` is the part of `GraphPreserved` about what references designate, for all cells that were ever
allocated: that a cell is overwritten is known by `lost`, and the property claims nothing of the fields of such a cell. The part about those
that lead nowhere follows from `SeenInv`: a slot the last collection dealt with holds a cell that is mapped, or one that was promoted.

**Collector: weak references.** A weak reference has one turn in each collection. `WeakInv` follows it: before its first
turn it designates its object; the turn drops it, overwrites it with a word of the object, or ends in unmapped memory; and nothing
repairs it, because no other step writes the word of a weak reference (`WeakWordStays`, `TurnSpoils`). In
a second collection also those whose turn has not come are spoiled, which is why the invariant counts collections.

**Collector: what dangles.** `DanglingOnlyPromoted` is about the moment after `swap`; `SeenInv` says what must hold before.
Every slot taken off the queue is `Dealt` with: it holds a copy, an object outside the space that swap unmaps, or one in it that copies
made for other slots have aged to the old generation, which no longer counts as current and is visited in place
(`NotCurrentSettled`). That stays so because an object only grows older (`CopyToSeenInv`), and because an item still queued
looks at what its slot holds, unless the slot has been given a copy meanwhile (`Awaits`).

**Collector: prototypes.** `ProtoInv` says that items are only ever made for strong fields of their object's kind, so that nothing
redirects the second field of an object and every copy has the one of its original. It designates an original, and originals never move:
once the space it lay in has been collected, it is unmapped.

**Collector: cycles of old objects.** That a collection gets stuck on a cycle is stated as what must be so if it does not: past
its roots, none led to a cycle. `CycleInv` follows the first collection of the old space. Cells are handed out in order (`AllocInv`); until
that collection is past its roots nothing is unmapped and every copy has its object's tag (`EarlyInv`); what
was looked at is copied or marked, and all that a copied or marked object refers to strongly is looked at or queued
(`SlotsFollowed`, `CellsFollowed`). So when the queue is empty, the objects reached are closed under reference
(`ReachedIsClosed`) and would include the cycle. But a reference between copies always goes to the later one
(`Ascending`: a copy is made for the one slot it is written to, and the slot's owner was copied before), an object is as old as its copies
(`GensAgree`), so that the whole cycle was copied and none of it marked in place, and the last copy made of an object of the cycle
would refer to a later one (`NoCycleReached`). That there is a last one is the well-foundedness of the natural numbers
(`Greatest`).

**The refinement.** `Everything` adds to these `AskInv`, which ties the generation asked for to the one being collected
and says that weak handles are gone once they have been relocated: it is what `Finish` of `HeapGraph` needs. Every edge that can be followed is one
of `edges` by `GraphHeld` (`SeenWithin`), so that any step of a collection is a `Move` or better; one of the program's must not make
an edge appear, which it does not because what is lost stays lost. `Edges` is expressed by
`start`, which no step changes; one lemma for each group of actions names the abstract step or the stutter.

**Space.** `IInv` is `TypeOK /\ PagesInv /\ BlocksInv /\ EarlierInv`. `BlocksInBounds` looks false, because `allocate` bumps the page its
search ends on without testing it; it holds because no page in the vector is ever bumped (`PagesUntouched`: only the
detached copy is), so that the page selected is empty, and a small request fits an empty page. `Copies` says that
the bump cell is a copy of a page in the vector, with an odd top; `PagesApart`, that no two pages share memory, from which `clear`
of one space leaves the other alone. `EarlierInv` is why overlap can be stated as an equivalence: each selection hands out the first
address of its page first, so that two selections of one page always overlap.

**CodeBuffer.** Every field of a displacement ends at or before the end of the code, so the field of a new
instruction is apart from all older ones, and what was written to them stays (`SitesApart`, `LoadsApart`). A jump that
`fix_forward_jumps` has not passed is pending: its label is unbound or bound after it, so that the unsigned subtraction does not underflow;
one it has passed has landed (`JumpsRecorded`, `SitesLand`). `DataInv` needs only
types beside the property: a new entry lies beyond the size as it was, and all the others within it.

**Operations.** That the end is right is not inductive for code half executed. `Inv` says of a running operation that
*the rest of the code run from here* keeps the other registers at every instruction and ends right or in a trap the operation may
end in (`Runs0` to `Runs5`, for the five instructions an operation has at most). Emitting establishes it,
one lemma per operation, by running the code symbolically with the registers' coincidences as cases; executing
an instruction goes from `Runs<n>` to `Runs<n-1>`. The types need an invariant of their own, `TypeInv`: the code consists of
instructions with the operands of their kind (`Sound`), because what an instruction computes is typed only if these are.

**PropertyTable.** `IInv` is `Typed /\ MovesInv /\ ReturnInv /\ LengthInv`, and `MovesInv` says where the elements are while any
number of growths is under way. Each growth moves out of a map of its own, `Maps` are those and the current one. No two of
them disagree about an element, what is no element is foreign (`Holds`), and each element is in the current map (`Found`) or
in one it has still to be moved out of (`Waits`): that is not so for a single map, because a growth nested in another replaces
the map the outer one is moving into. `FramesInv` ties the frames together: a lookup above a growth is for the index that growth
has come to, sizes double at least from one growth to the next, and a growth once too large to be dense makes all later maps
hash maps. `HalfEmpty` (a dense map has no values, a hash map no keys) is what keeps indices between the end of the
elements and the end of the map from being moved, and a key from ever being found in a hash map.
Elements are only found again if all sizes so far keep indices apart (`apart`): growth to the square of an index does not always
give a power of two, and then the mask puts several indices in one slot.

**Encoding.** A specification whose behaviours are one call, then its decoding, needs no strengthening over time:
`EncodingInv` says of the code a call has emitted that it is `Good` for that call (`VexGood`), which is what the properties say of
it decoded. All the work is in that, one lemma for each encoder. A code is a prefix or none, a REX byte
or none, an opcode and a rest (`Laid`), and the decoder, which searches for its first opcode, finds the same places
(`Layout`). From there one argument serves all: between registers, low bits of ModRM and high bits of REX make
up the number again (`ThroughRegisters`, `Halves`); for an address, `emit_membase` and `emit_sib` choose a form by
base, index and size of the displacement, and the decoder, which knows only the ModRM byte, finds the address that
was asked for or, where a base RBP or R13 is lost behind an index, nothing (`MemPiecesLaid`, `ThroughMemory`); behind both it finds
the immediate (`Ends`). The exceptions in the properties are equivalences, so those calls are proved to fail as well
(`ForgetsRex`, `movb_reg_reg`, the moves from XMM registers, `emit_sub_imm_mem`).

**VexEncoding.** The bytes of a prefix are sums with wrap-around, and what the processor reads from them are inverted
bits; for all 16 registers and third operands it reads the fields that were given (`LongByte`, `PrefixHolds`), and so finds the
registers where it does behind a REX prefix. For an address the REX byte joined to the map always sets bit 3 (`MemPrefix`), and
no map has it (`WrongMap`): that is why none of them runs whatever its registers.

**Objects: words.** `IInv` is `GoodHeap(heap, asked.right) /\ CopiedInv /\ AskedInv /\ BeforeInv`. A write into one object changes no other
because objects lie apart below the top of their space (`LayoutInv`) and have as many words as their header and their count say
(`ShapeInv`); a context copied short claims more words than it was given, so `ReadInv` excepts it and whatever it
overlaps, as the property does. `Makes` says what every constructor does to a heap, once, in terms of what `Grown` allows. That a
copy is short or reads too much is a matter of `Owned` and `Size` alone (`CopiedInv`).

**Objects: after the swap.** A heap with the space collected emptied satisfies all that is said of a heap, which is why objects made since
read as written. `BeforeInv` compares it with the heap the swap found (`Since`): in the space collected nothing is written above the top,
so that a copy is overwritten only below it; in the other space nothing is written below the old top; and as every object is made at the top, the first
one in the space collected is at its first word, where the first copy is (`First`). `Carries` says this of each step once, for all
heaps.

**Objects: strings.** `StructInv` says what a string is made of: characters, one string that holds characters, or
two *older* strings. The age is a rank (`Rank`), and by induction on it the recursive functions of `Objects` have the values
their equations give (`Solution`, from the well-foundedness of the natural numbers), which cannot be taken for granted of a
function chosen by its equation. By the same rank `Legible` strings read as their text (`TextComesOut`), and flattening puts
every character in its place if no half is misplaced (`Placed`, `FlattenPlaces`). If one is, some word of the answer
is never written; it lay above the top, where there are no characters (`FreshInv`), so the text does not come out: that is why
`TextKept` can state an equivalence. Answering adds one object and redirects the halves of another (`AskValue`), after which
strings made of it are legible as before.

**Masm.** The code is a concatenation of pieces. `IsCode` and `Stands` say how long each is and where it stands, which gives
the 65 instructions of the stub (`StubInstructions`) and those of the other programs (`PartIs`) by their places; only one label is
bound before the jumps to it (`LabelsAre`). One lemma per instruction says what it changes (`StepMov`, ...). `IInv` is an
assertion at each place, in stretches: `Saving`, `Counting`, `Pushing`, `Clearing`, `Unwinding`, `Restoring`, `Lost` for
the stub, `SavingAll`, `Calling`, `Allocating`, `RestoringAll` for the rest. Each says that the stack is the first words of
`Frame` (of `Laid`), which depend on the task alone, and what is in the registers still to be read. The loop has the
invariant `PushingOne(m)`: the last m arguments are pushed and RBX points at the first of them; without arguments RBX points below the
array at the first read, which is not mapped (`ArgumentIs`). Nothing takes the arguments off, so that the registers restored are
the words on top of them, and the frame pointer is the seventh word from there. It was pushed fourth or later, so it is a register
of the caller, the padding or an argument, and never the second word pushed, the stub's own frame pointer and the one word
that would be an address of the stack: the pop through it faults (`LostFrame`).

**Only model-checked**: the liveness properties of `collector_ends`, `NewSpaceCollectionEnds` and `OldSpaceCollectionEnds`. Every safety
invariant and action property of the passing runs is proved.

**Out of the prover's reach**: liveness under fairness and ENABLED; the induction theorems with an operator parameter, and so
recursive definitions by the library's means. Where an argument needs a last or least element (`Greatest`), an induction or the
value of a recursive function (`Solution`), it is taken from a set of numbers by well-foundedness, whose theorem has a set
as its parameter; reachability is defined without recursion, by the sets closed under reference (`ReachesOldCycle`).

## 6. What is not modelled

- `compute_hash`: a pure function of which only determinism is used; `PropertyTable` takes any hash.
- `RelocationInfo::relocate` of `asm.rs`: nothing ever adds to the list it works through.
- `Heap::new`'s boxing of the factory handle, through which the collector writes into a dead stack frame (`heap.rs:110`):
  undefined behaviour outside the collector's own steps. Handles are fixed when the model starts; `reference` only adds one.
- The mutator's writes to objects between two collections: every graph is an initial state and the code has no write
  barrier, so a first collection after writes is one from another initial state.
- Dense indices whose byte offset exceeds 32 bits (`runtime.rs:36`): `PropertyTable` counts words without a width.
- `HArray::length` with `shrink` set, which nothing calls and which reads a slot at the null address at once (`heap.rs:956`).
- `add_addr_reuse` of `DSeg`, which the assembler does not use; `rt_strcmp`, a comparison of bytes without state.
- Encoders that append fixed bytes only (`nop`, `ret`, `cdq`), and those that no operation uses and that build their
  bytes with the same helpers as the ones modelled.
- `init_page_size` and the order it must be called in (`heap.rs:1202`): every model starts after it.
