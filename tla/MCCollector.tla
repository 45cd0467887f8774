---------------------------- MODULE MCCollector ----------------------------
(***************************************************************************)
(* Collector with the instances TLC checks.  Each initial predicate keeps   *)
(* some of the initial states: its run is about those.                       *)
(***************************************************************************)
EXTENDS CollectorRefinement

\* Roots of every sort into an object of any kind and a leaf.
RootsInit ==
  /\ Init
  /\ tag[2] = "String"
  /\ \A c \in 1..Objects : gen[c] # 1
  /\ \A h \in Handles : mem[Reference(h)] = 2
  /\ \A w \in WeakRefs : mem[WeakValue(w)] = 1
  /\ \A i \in 1..StackSize : mem[StackSlot(i)] \in 1..Objects

RootsSpec == RootsInit /\ [][Next]_vars

\* The generations of the code: each object old or at most two copies away from it.
AgedInit ==
  /\ Init
  /\ \A c \in 1..Objects : gen[c] >= MinOldGen - 2

\* collect_garbage is one synchronous call: once entered it runs on by itself.
AgedSpec == AgedInit /\ [][Next]_vars /\ WF_vars(Collection)

\* A collection of the new space comes to an end on every graph, although nothing
\* is ever marked as copied: every copy ages the original too (heap.rs 555), and an
\* aged object is visited once.
NewSpaceCollectionEnds ==
  (phase = "handles" /\ gcType = "NewSpace") ~> (phase \in {"idle", "begin", "wild"})

\* So does a collection of the old space if the old objects form no cycle.
OldSpaceCollectionEnds ==
  (/\ phase = "handles" /\ gcType = "OldSpace"
   /\ \A o \in 1..Objects : ~ReachesOldCycle(o)) ~> (phase \in {"idle", "begin", "wild"})
============================================================================
