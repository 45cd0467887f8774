------------------------------- MODULE HeapGraph -------------------------------
(***************************************************************************)
(* What a program that uses the heap can tell of a collection: the abstract *)
(* specification that Collector implements (see CollectorRefinement).       *)
(*                                                                         *)
(* There are no addresses, generations, spaces or copies here.  The program *)
(* built a graph of objects and has roots into it.  Each edge and each root *)
(* leads where it led before or to no object at all: which objects can      *)
(* still be found is not promised, only that no step makes an edge or a     *)
(* root designate another object.  When the program makes an object, others *)
(* may go, and none comes back.  A collection may set a handle's local back *)
(* to the handle's value, drops weak handles, drops or spoils weak          *)
(* references, and is over when the old generation has been collected or    *)
(* the request is for the new one.                                          *)
(***************************************************************************)
EXTENDS Integers

CONSTANTS
  Objects,    \* the objects, 1..Objects
  Fields,     \* the pointer fields of an object
  StackSize, Handles, WeakRefs,
  Nil, HNil,  \* no object; the nil object, where it is told from the rest of them
  Null, Junk  \* the end of the stack; a word that is no address of an object

VARIABLES
  edges,      \* the graph built: <<object, field, what the field designates>>
  graph,      \* the edges that can be followed
  stack,      \* what each word of the stack designates
  value,      \* what each handle designates
  local,      \* what the embedder's local of each handle designates
  watched,    \* what each weak reference designates
  dangling,   \* the roots that lead to no object
  kind,       \* "Weak" or "Persistent", for each handle
  handles, weakRefs,  \* those still registered
  asked,      \* the generation the program asks to be collected, or "None"
  collecting  \* the generation being collected, or "None"

fixed == <<edges, kind, value>>
found == <<graph, dangling>>
vars == <<fixed, found, stack, local, watched, handles, weakRefs, asked, collecting>>

Target == (1..Objects) \cup {Nil, HNil, Null, Junk}

StackRoot(i) == <<"stack", i, 0>>
Roots ==
  {StackRoot(i) : i \in 1..StackSize}
    \cup {<<"reference", h, 0>> : h \in Handles} \cup {<<"value", h, 0>> : h \in Handles}
    \cup {<<"weak", w, 0>> : w \in WeakRefs}

\* The graph in which field i of o designates f[o][i].
EdgesOf(f) == {<<o, i, f[o][i]>> : o \in 1..Objects, i \in Fields}

Init ==
  /\ \E f \in [1..Objects -> [Fields -> (1..Objects) \cup {Nil}]] : edges = EdgesOf(f)
  /\ graph = edges /\ dangling = {}
  /\ stack \in [1..StackSize -> Target]
  /\ value \in [Handles -> Target] /\ local \in [Handles -> Target]
  /\ watched \in [WeakRefs -> 1..Objects]
  /\ kind \in [Handles -> {"Weak", "Persistent"}]
  /\ handles = Handles /\ weakRefs = WeakRefs
  /\ asked = "None" /\ collecting = "None"

\* The program, between collections.

DropRoot(i, x) ==
  /\ collecting = "None"
  /\ stack' = [stack EXCEPT ![i] = x]
  /\ dangling' = dangling \ {StackRoot(i)}
  /\ UNCHANGED <<fixed, graph, local, watched, handles, weakRefs, asked, collecting>>

Ask(t) ==
  /\ collecting = "None" /\ asked = "None"
  /\ asked' = t
  /\ UNCHANGED <<fixed, found, stack, local, watched, handles, weakRefs, collecting>>

\* It makes an object.
Allocate ==
  /\ collecting = "None"
  /\ graph' \subseteq graph
  /\ dangling \subseteq dangling' /\ dangling' \subseteq Roots
  /\ UNCHANGED <<fixed, stack, local, watched, handles, weakRefs, asked, collecting>>

\* A collection: entered, or taken up again after one of the new generation unless
\* that is what is asked for by then.

Collect ==
  /\ collecting = "None" \/ (collecting = "NewSpace" /\ asked # "NewSpace")
  /\ asked' = IF asked = "None" THEN "NewSpace" ELSE asked
  /\ collecting' = asked'
  /\ UNCHANGED <<fixed, found, stack, local, watched, handles, weakRefs>>

\* All through a collection objects go, are copied, and their copies are found.
Collecting ==
  /\ collecting # "None"
  /\ graph' \subseteq edges
  /\ dangling' \subseteq Roots
  /\ UNCHANGED fixed

Move ==
  /\ Collecting
  /\ UNCHANGED <<stack, local, watched, handles, weakRefs, asked, collecting>>

ResetLocal(h) ==
  /\ Collecting
  /\ local' = [local EXCEPT ![h] = value[h]]
  /\ UNCHANGED <<stack, watched, handles, weakRefs, asked, collecting>>

WeakHandles == {h \in handles : kind[h] = "Weak" /\ value[h] # Nil}

DropWeakHandles ==
  /\ Collecting
  /\ handles' = handles \ WeakHandles
  /\ UNCHANGED <<stack, local, watched, weakRefs, asked, collecting>>

\* The embedder hears of it, and may ask for any collection, take the request back and
\* let go of a word of the stack.
DropWeakRef(w) ==
  /\ Collecting
  /\ weakRefs' = weakRefs \ {w}
  /\ asked' \in {"None", "NewSpace", "OldSpace"}
  /\ stack' = stack \/ \E i \in 1..StackSize, x \in {Nil, Null} : stack' = [stack EXCEPT ![i] = x]
  /\ UNCHANGED <<local, watched, handles, collecting>>

\* The reference is given its object's first word, a field or no address at all.
SpoilWeakRef(w, x) ==
  /\ Collecting
  /\ x = Junk \/ <<watched[w], 1, x>> \in edges
  /\ watched' = [watched EXCEPT ![w] = x]
  /\ UNCHANGED <<stack, local, handles, weakRefs, asked, collecting>>

\* What was asked for during a collection of the old generation is forgotten.
Finish ==
  /\ Collecting
  /\ collecting = "OldSpace" \/ asked = "NewSpace"
  /\ WeakHandles = {}
  /\ collecting' = "None" /\ asked' = "None"
  /\ UNCHANGED <<stack, local, watched, handles, weakRefs>>

Next ==
  \/ \E i \in 1..StackSize, x \in {Nil, Null} : DropRoot(i, x)
  \/ \E t \in {"NewSpace", "OldSpace"} : Ask(t)
  \/ Allocate
  \/ Collect
  \/ Move
  \/ \E h \in Handles : ResetLocal(h)
  \/ DropWeakHandles
  \/ \E w \in WeakRefs : DropWeakRef(w)
  \/ \E w \in WeakRefs, x \in Target : SpoilWeakRef(w, x)
  \/ Finish

Spec == Init /\ [][Next]_vars
============================================================================
