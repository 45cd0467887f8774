-------------------------- MODULE CollectorRefinement --------------------------
(***************************************************************************)
(* Collector implements HeapGraph: cells, copies and addresses stand for    *)
(* the objects they were copied from.  An edge can be followed if it is     *)
(* found in an object that can be read and leads to one.                    *)
(***************************************************************************)
EXTENDS Collector

Edges == {<<o, i, start[Field(o, i)]>> : o \in 1..Objects, i \in Fields}

Followable == {s \in {<<c, i>> : c \in Cells, i \in Fields} :
                 Readable(s[1]) /\ ~Unreadable(mem[Field(s[1], s[2])])}

GraphSeen   == {<<origin[s[1]], s[2], Original(mem[Field(s[1], s[2])])>> : s \in Followable}
StackSeen   == [i \in 1..StackSize |-> Original(mem[StackSlot(i)])]
ValueSeen   == [h \in Handles |-> Original(mem[ValuePtr(h)])]
LocalSeen   == [h \in Handles |-> Original(mem[Reference(h)])]
WatchedSeen == [w \in WeakRefs |-> Original(mem[WeakValue(w)])]
Dangling    == {s \in Slots : s[1] # "field" /\ Unreadable(mem[s])}
Collecting  == IF phase = "idle" THEN "None" ELSE gcType

Promise == INSTANCE HeapGraph WITH
  edges <- Edges, graph <- GraphSeen, stack <- StackSeen, value <- ValueSeen,
  local <- LocalSeen, watched <- WatchedSeen, dangling <- Dangling,
  asked <- needsGC, collecting <- Collecting

\* What a program can tell of a collection: what can still be read of any object, or of
\* a copy of it, names the objects it named, no root is moved to another object, and
\* weak handles are gone at the end.  A weak reference's callback that asks, during a
\* collection of the new generation, for one of the old has it before collect_garbage
\* returns; whatever it asks for during one of the old is forgotten (gc.rs 63-146).
\* When the program makes an object, there is not more to read than before but less:
\* allocation overwrites (heap.rs 217-256).
KeepsPromise == Promise!Spec
============================================================================
