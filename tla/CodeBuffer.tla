----------------------------- MODULE CodeBuffer -----------------------------
(***************************************************************************)
(* The code buffer of the assembler (struct Assembler in                    *)
(* src/jazz-jit/src/assembler.rs) with its data segment (DSeg in dseg.rs):  *)
(* labels, jumps to them, and loads of constants relative to the            *)
(* instruction pointer.                                                     *)
(*                                                                         *)
(* Of the bytes in the buffer only their number is kept, and the            *)
(* displacements, by the position of their first byte.  When the image is   *)
(* made the data segment lies below the code: an entry with displacement d  *)
(* starts d bytes before the first instruction.                             *)
(***************************************************************************)
EXTENDS Integers, Sequences

CONSTANTS
  InstrLens,   \* the lengths of instructions without label or constant
  MaxPos,      \* bound: bytes of code
  MaxLabels,   \* bound: labels
  MaxData      \* bound: bytes of data

ASSUME LensAssumption == InstrLens \subseteq Nat \ {0}
ASSUME BoundsAssumption == MaxPos \in Nat /\ MaxLabels \in Nat /\ MaxData \in Nat

VARIABLES
  pos,      \* data.len()
  labels,   \* for each label its position, Unbound until bind_label
  jumps,    \* the forward jumps: where their displacement is, and their label
  rel,      \* rel[p]: the displacement emitted at position p
  size,     \* dseg.size
  entries,  \* dseg.entries: displacement and size of each value
  sites,    \* history: every displacement emitted for a label
  loads,    \* history: every instruction that reads a constant
  fixed     \* history: how many of the jumps fix_forward_jumps has filled in

vars == <<pos, labels, jumps, rel, size, entries, sites, loads, fixed>>
data == <<size, entries, loads>>

Unbound   == -1
Positions == 0..MaxPos

Init ==
  /\ pos = 0
  /\ labels = <<>>
  /\ jumps = <<>>
  /\ rel = [p \in Positions |-> 0]
  /\ size = 0
  /\ entries = <<>>
  /\ sites = {}
  /\ loads = {}
  /\ fixed = 0

(***************************************************************************)
(* Code and labels.                                                         *)
(***************************************************************************)

Emit(n) ==
  /\ pos + n <= MaxPos
  /\ pos' = pos + n
  /\ UNCHANGED <<labels, jumps, rel, data, sites, fixed>>

CreateLabel ==
  /\ Len(labels) < MaxLabels
  /\ labels' = Append(labels, Unbound)
  /\ UNCHANGED <<pos, jumps, rel, data, sites, fixed>>

\* bind_label asserts that the label is not bound yet.
BindLabel(lbl) ==
  /\ labels[lbl] = Unbound
  /\ labels' = [labels EXCEPT ![lbl] = pos]
  /\ UNCHANGED <<pos, jumps, rel, data, sites, fixed>>

\* jump and jump_if: opcode bytes, then emit_label's displacement.  A displacement
\* counts from the byte after it.
Jump(opcode, lbl) ==
  LET at == pos + opcode IN
  /\ at + 4 <= MaxPos
  /\ pos' = at + 4
  /\ sites' = sites \cup {[at |-> at, to |-> lbl]}
  /\ IF labels[lbl] # Unbound
     THEN /\ rel' = [rel EXCEPT ![at] = -((at + 4) - labels[lbl])]
          /\ jumps' = jumps
     ELSE /\ rel' = [rel EXCEPT ![at] = 0]
          /\ jumps' = Append(jumps, [at |-> at, to |-> lbl])
  /\ UNCHANGED <<labels, data, fixed>>

\* Mutants, here and below: what a plausible slip in the code would do.
DistanceFromField(jmp) == labels[jmp.to] - jmp.at

\* What fix_forward_jumps writes for a jump: an unsigned difference.
Distance(jmp) == labels[jmp.to] - jmp.at - 4

\* fix_forward_jumps stops at a label that is not defined.
FixForwardJumps ==
  /\ \A k \in DOMAIN jumps : labels[jumps[k].to] # Unbound
  /\ rel' = [p \in Positions |->
               IF \E k \in DOMAIN jumps : jumps[k].at = p
               THEN Distance(jumps[CHOOSE k \in DOMAIN jumps : jumps[k].at = p])
               ELSE rel[p]]
  /\ fixed' = Len(jumps)
  /\ UNCHANGED <<pos, labels, jumps, data, sites>>

(***************************************************************************)
(* The data segment, and the instructions that read it.                     *)
(***************************************************************************)

AlignDown(value, align) == (value \div align) * align

Align(value, align) == ((value + align - 1) \div align) * align

SizeWithout(sz, s) == Align(sz, s)

\* add_value: the entry's displacement is the size of the segment after it.
SizeWith(sz, s) == Align(sz + s, s)

\* A load of the constant with displacement disp: len bytes of code, the last four
\* the displacement from the byte after the instruction.
Load(kind, len, disp, d) ==
  /\ pos + len <= MaxPos
  /\ pos' = pos + len
  /\ rel' = [rel EXCEPT ![pos + len - 4] = d]
  /\ loads' = loads \cup {[kind |-> kind, at |-> pos, len |-> len, disp |-> disp]}
  /\ UNCHANGED <<labels, jumps, sites, fixed>>

AddValue(s) ==
  /\ SizeWith(size, s) <= MaxData
  /\ size' = SizeWith(size, s)
  /\ entries' = Append(entries, [disp |-> size', size |-> s])

\* add_int and add_addr, called by the user of the buffer itself.
AddConstant(s) ==
  /\ AddValue(s)
  /\ UNCHANGED <<pos, labels, jumps, rel, sites, loads, fixed>>

\* load_float_const and load_float4_const take every such instruction to be eight
\* bytes long.
AssumedLen == 8

\* movss and movsd: a prefix, two opcode bytes, ModRM and the displacement; the
\* upper registers take a REX byte.
LoadFloatConst(s, rex) ==
  /\ AddValue(s)
  /\ Load("float", 8 + rex, size', -(size' + pos + AssumedLen))

\* movups has no prefix.
LoadFloat4Const(rex) ==
  /\ AddValue(16)
  /\ Load("float4", 7 + rex, size', -(size' + pos + AssumedLen))

\* The four words of a sign mask start where the segment is aligned to 16 bytes.
MaskBase == Align(size, 16)

FloatNegAssumed(prefix, rex) ==
  LET len == 7 + prefix + rex IN
  /\ MaskBase + 16 <= MaxData
  /\ size' = MaskBase + 16
  /\ entries' = entries \o
       <<[disp |-> MaskBase + 4, size |-> 4], [disp |-> MaskBase + 8, size |-> 4],
         [disp |-> MaskBase + 12, size |-> 4], [disp |-> MaskBase + 16, size |-> 4]>>
  /\ Load("mask", len, size', -(size' + pos + AssumedLen))

\* float_neg: xorps, or xorpd with one prefix byte, on the mask; the displacement is
\* filled in when the instruction's length is known.
FloatNeg(prefix, rex) ==
  LET len == 7 + prefix + rex IN
  /\ MaskBase + 16 <= MaxData
  /\ size' = MaskBase + 16
  /\ entries' = entries \o
       <<[disp |-> MaskBase + 4, size |-> 4], [disp |-> MaskBase + 8, size |-> 4],
         [disp |-> MaskBase + 12, size |-> 4], [disp |-> MaskBase + 16, size |-> 4]>>
  /\ Load("mask", len, size', -(size' + pos + len))

Next ==
  \/ \E n \in InstrLens : Emit(n)
  \/ CreateLabel
  \/ \E lbl \in DOMAIN labels : BindLabel(lbl)
  \/ \E lbl \in DOMAIN labels, opcode \in {1, 2} : Jump(opcode, lbl)
  \/ FixForwardJumps
  \/ \E s \in {4, 8} : AddConstant(s)
  \/ \E s \in {4, 8}, rex \in {0, 1} : LoadFloatConst(s, rex)
  \/ \E rex \in {0, 1} : LoadFloat4Const(rex)
  \/ \E prefix, rex \in {0, 1} : FloatNeg(prefix, rex)

Spec == Init /\ [][Next]_vars

(***************************************************************************)
(* Properties.                                                              *)
(***************************************************************************)

Sites == [at : Positions, to : 1..MaxLabels]

TypeOK ==
  /\ pos \in Positions
  /\ labels \in Seq(Positions \cup {Unbound}) /\ Len(labels) <= MaxLabels
  /\ jumps \in Seq(Sites)
  /\ rel \in [Positions -> Int]
  /\ size \in 0..MaxData
  /\ entries \in Seq([disp : 1..MaxData, size : {4, 8, 16}])
  /\ sites \subseteq Sites
  /\ loads \subseteq [kind : {"float", "float4", "mask"}, at : Positions,
                      len : 7..9, disp : 1..MaxData]
  /\ fixed \in 0..Len(jumps)

\* Every jump whose displacement emit_label knew (assembler.rs 86-92), and every one
\* fix_forward_jumps has filled in (103-112), lands on its label, whatever was
\* emitted, bound or fixed in between.  Its subtraction (107) is unsigned: whenever it
\* can run, every recorded jump lies before its label.
JumpsLand ==
  /\ \A j \in sites :
       \/ j.at + 4 + rel[j.at] = labels[j.to]
       \/ \E k \in (fixed + 1)..Len(jumps) : jumps[k] = j
  /\ \A k \in DOMAIN jumps : labels[jumps[k].to] # Unbound => Distance(jumps[k]) >= 0

\* The four-byte fields of jumps and loads are disjoint and inside the code.
FieldsDisjoint ==
  LET fields == {j.at : j \in sites} \cup {l.at + l.len - 4 : l \in loads}
  IN /\ \A p \in fields : p + 4 <= pos
     /\ \A p, q \in fields : p # q => p + 4 <= q \/ q + 4 <= p
     /\ \A j \in sites, l \in loads : j.at # l.at + l.len - 4

\* The constants are disjoint and inside the segment.
EntriesDisjoint ==
  /\ \A k \in DOMAIN entries : entries[k].size <= entries[k].disp /\ entries[k].disp <= size
  /\ \A j, k \in DOMAIN entries : j < k => entries[j].disp + entries[k].size <= entries[k].disp

\* Nothing that is written into the image falls on anything else, in whatever order:
\* the patches of fix_forward_jumps and emit_u32_at touch no other displacement, and
\* finish (dseg.rs 63-89) writes every value inside the segment and no two over each
\* other, whatever sizes and alignments were mixed.
NothingOverlaps == FieldsDisjoint /\ EntriesDisjoint

\* Where a load reads, as a distance below the first instruction.
Read(l) == -(l.at + l.len + rel[l.at + l.len - 4])

\* A load reads its own constant, except that an instruction that is not of the
\* length load_float_const and load_float4_const assume (assembler_x64.rs 32-53) is
\* off by exactly the difference; float_neg (185-217) measures its length.
LoadsReadTheirConstant ==
  \A l \in loads : Read(l) = IF l.kind = "mask" THEN l.disp
                             ELSE l.disp + AssumedLen - l.len

\* load_float4_const and load_float_const read the constant they put into the
\* segment, as the example does with its four floats (examples/float4.rs 17, 40).
ConstantsRead == \A l \in loads : Read(l) = l.disp

\* The mask of float_neg is aligned as its comment says (assembler_x64.rs 192), in
\* an image whose first byte is the page-aligned start of the data segment.
MasksAligned ==
  \A l \in loads : l.kind = "mask" => (size - l.disp) % 16 = 0
============================================================================
