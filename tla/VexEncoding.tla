---------------------------- MODULE VexEncoding ----------------------------
(***************************************************************************)
(* The encoders of src/jazz-jit/src/avx.rs, and those that go through them  *)
(* in assembler_x64.rs: a VEX prefix of two or three bytes holds the high   *)
(* bits of the registers and a third operand, all of them inverted.  Here a *)
(* prefix is its bytes, so that a bit that is not inverted, or that lands   *)
(* in another field, is read by the processor for what it is.               *)
(***************************************************************************)
EXTENDS Encoding

CONSTANT Thirds   \* registers of the third operand, where there is an address too

ASSUME ThirdsAssumption == Thirds \subseteq 0..15

XMM0 == 0

\* LeadingOpcode, SIMDPrefix and VexW, as the encoders pass them.
None0F == 1
None0F38 == 2
None0F3A == 3
SimdPrefixes == 0..3
Prefix66 == 1

\* The instruction `op` under SIMD prefix pp that computes dest from src1 and src2.
\* w tells its width where the instruction has two, and is 0 elsewhere.
VexInstr(op, pp, w, dest, src1, src2) ==
  [op |-> op, pp |-> pp, w |-> w, dest |-> dest, src1 |-> src1, src2 |-> src2]

IsMemory(x) == "base" \in DOMAIN x

(***************************************************************************)
(* The prefix.  Numbers are the values of its bytes.                        *)
(***************************************************************************)

\* The bitwise or of numbers of two bits.
Or(a, b) ==
  (IF 1 \in {a \div 2, b \div 2} THEN 2 ELSE 0) + (IF 1 \in {a % 2, b % 2} THEN 1 ELSE 0)

\* Registers: the high bits are inverted and moved above the map.
Vex3Byte1Reg(reg, rm, m) == (((255 - (4 * Msb(reg) + Msb(rm))) * 32) % 256) + m

\* Memory: the byte of a REX prefix with W, as it is, joined with the map.
Vex3Byte1Mem(reg, mem, m) ==
  LET x == IF mem.index = None THEN 0 ELSE Msb(mem.index)
      b == IF mem.base = None THEN 0 ELSE Msb(mem.base)
  IN 64 + 8 + 4 * Msb(reg) + Or(2 * x + b, m)

\* The vector length is left out: no encoder that stays in step asks for another.
Vex3Byte2(w, v, pp) == 128 * w + 8 * (15 - v) + pp

Vex2Byte1(reg, v, pp) == (((255 - (16 * Msb(reg) + v)) * 8) % 256) + pp

Vex3(byte1, byte2) == <<[k |-> "vex3", n |-> byte1, n2 |-> byte2]>>
Vex2(byte1)        == <<[k |-> "vex2", n |-> byte1]>>

\* A prefix that asks for three bytes only where the map or the width does.
VexPrefixShort(reg, v, rm, pp, m, w) ==
  IF m # None0F \/ w # 0
  THEN Vex3(Vex3Byte1Reg(reg, rm, m), Vex3Byte2(w, v, pp))
  ELSE Vex2(Vex2Byte1(reg, v, pp))

VexPrefix(reg, v, rm, pp, m, w) ==
  IF Msb(rm) # 0 \/ m # None0F \/ w # 0
  THEN Vex3(Vex3Byte1Reg(reg, rm, m), Vex3Byte2(w, v, pp))
  ELSE Vex2(Vex2Byte1(reg, v, pp))

\* The REX byte is never 0, so that two bytes never do.
VexPrefixMem(reg, v, mem, pp, m, w) == Vex3(Vex3Byte1Mem(reg, mem, m), Vex3Byte2(w, v, pp))

(***************************************************************************)
(* The encoders.                                                            *)
(***************************************************************************)

EmitsVex(fn, instr, pieces) ==
  /\ Emitting
  /\ call' = [fn |-> fn, instr |-> instr]
  /\ code' = pieces
  /\ phase' = "vex"
  /\ UNCHANGED decoded

\* emit_sse_ff, emit_sse_rf and emit_sse_fr.
SseModRM(dst, src) == ModRM(3, And7(dst), And7(src))

\* vinstr, vps, vpd, vfmasd and vfmass: the prefix, the opcode, the registers.
VexRegs(op, pp, m, w, dst, src1, src2) ==
  VexPrefix(dst, src1, src2, pp, m, w) \o Op(op) \o SseModRM(dst, src2)

\* vinstrm, vpsm, vpdm, vfmasdm and vfmassm.
VexMem(op, pp, m, w, dst, src1, mem) ==
  VexPrefixMem(dst, src1, mem, pp, m, w) \o Op(op) \o MemPieces(dst, mem)

\* The avx_instr! of avx.rs and the instructions of assembler_x64.rs.
VInstr(pp, w, dst, src1, src2) ==
  /\ w = 1 => pp = Prefix66
  /\ EmitsVex("vinstr", VexInstr("varith", pp, 0, Xmm(dst), Xmm(src1), Xmm(src2)),
              VexRegs("varith", pp, None0F, w, dst, src1, src2))

VInstrMem(pp, dst, src1, m) ==
  EmitsVex("vinstrm", VexInstr("varith", pp, 0, Xmm(dst), Xmm(src1), m),
           VexMem("varith", pp, None0F, 0, dst, src1, m))

\* vsqrtps, vsqrtpd and vcvtps2dq read one operand and are given two.
VConvert(pp, dst, src1, src2) ==
  /\ pp \in {0, Prefix66}
  /\ EmitsVex("vinstr", VexInstr("vconvert", pp, 0, Xmm(dst), Xmm(src1), Xmm(src2)),
              VexRegs("vconvert", pp, None0F, 0, dst, src1, src2))

\* vfmasd and vfmass.
VFma(w, dst, src1, src2) ==
  EmitsVex("vfma", VexInstr("vfma", Prefix66, w, Xmm(dst), Xmm(src1), Xmm(src2)),
           VexRegs("vfma", Prefix66, None0F38, w, dst, src1, src2))

VFmaMem(w, dst, src1, m) ==
  EmitsVex("vfma_mem", VexInstr("vfma", Prefix66, w, Xmm(dst), Xmm(src1), m),
           VexMem("vfma", Prefix66, None0F38, w, dst, src1, m))

VMovaps(dst, src) ==
  EmitsVex("vmovaps", VexInstr("vconvert", 0, 0, Xmm(dst), NoOperand, Xmm(src)),
           VexRegs("vconvert", 0, None0F, 0, dst, XMM0, src))

VMovapsMem(dst, m) ==
  EmitsVex("vmovaps_mem", VexInstr("vconvert", 0, 0, Xmm(dst), NoOperand, m),
           VexMem("vconvert", 0, None0F, 0, dst, XMM0, m))

\* vmovd_freg_reg and vmovq_freg_reg.
VMovFregReg(w, dst, src) ==
  EmitsVex("vmov_freg_reg", VexInstr("vmov", Prefix66, w, Xmm(dst), NoOperand, Gp(src)),
           VexRegs("vmov_load", Prefix66, None0F, w, dst, XMM0, src))

VMovFregMem(w, dst, m) ==
  EmitsVex("vmov_freg_mem", VexInstr("vmov", Prefix66, w, Xmm(dst), NoOperand, m),
           VexMem("vmov_load", Prefix66, None0F, w, dst, XMM0, m))

\* vmovd_reg_freg and vmovq_reg_freg: the prefix has the general register as the r/m
\* operand and ModRM has it as the other.
VMovRegFreg(w, dst, src) ==
  EmitsVex("vmov_reg_freg", VexInstr("vmov", Prefix66, w, Gp(dst), NoOperand, Xmm(src)),
           VexPrefix(src, XMM0, dst, Prefix66, None0F, w)
             \o Op("vmov_store") \o SseModRM(dst, src))

\* What is left when the last byte is popped off the code.
Pop(c) ==
  SubSeq(c, 1, Len(c) - 1) \o (IF c[Len(c)].k = "n4" THEN <<[k |-> "n3"]>> ELSE <<>>)

\* The avx_instr_2op!: vbroadcastf128, vbroadcasti128 and vbroadcastsd.
Broadcast(m, w, dst, src) ==
  /\ m = None0F3A => w = 1
  /\ EmitsVex("avx_instr_2op", VexInstr("vbroadcast", Prefix66, w, Xmm(dst), NoOperand, Xmm(src)),
           Pop(VexRegs("vbroadcast", Prefix66, m, w, dst, XMM0, src)))

BroadcastMem(m, w, dst, mem) ==
  /\ m = None0F3A => w = 1
  /\ EmitsVex("avx_instr_2op", VexInstr("vbroadcast", Prefix66, w, Xmm(dst), NoOperand, mem),
           Pop(VexMem("vbroadcast", Prefix66, m, w, dst, XMM0, mem)))

(***************************************************************************)
(* The processor.                                                           *)
(***************************************************************************)

\* The map an opcode is in, whether it reads a third operand, whether W is part of
\* it, and the opcode of Encoding whose two other operands are like its own.
VexShape(does, map, third, wide, like) ==
  [does |-> does, map |-> map, third |-> third, wide |-> wide, like |-> like]

VexOpcodes == [
  varith     |-> VexShape("varith", None0F, TRUE, FALSE, "sse"),
  vconvert   |-> VexShape("vconvert", None0F, FALSE, FALSE, "sse"),
  vfma       |-> VexShape("vfma", None0F38, TRUE, TRUE, "sse"),
  vmov_load  |-> VexShape("vmov", None0F, FALSE, TRUE, "xmm_from_general"),
  vmov_store |-> VexShape("vmov", None0F, FALSE, TRUE, "general_from_xmm_store"),
  vbroadcast |-> VexShape("vbroadcast", None0F38, FALSE, TRUE, "sse")]

VexShapeOf(c) == VexOpcodes[c[2].op]

Inverted(byte, bit) == 1 - ((byte \div bit) % 2)

\* What the processor reads out of the prefix: two bytes leave out X, B, W and the map.
VexOf(c) ==
  LET p == c[1]
      long == p.k = "vex3"
      last == IF long THEN p.n2 ELSE p.n
  IN [r   |-> Inverted(p.n, 128),
      x   |-> IF long THEN Inverted(p.n, 64) ELSE 0,
      b   |-> IF long THEN Inverted(p.n, 32) ELSE 0,
      map |-> IF long THEN p.n % 32 ELSE None0F,
      w   |-> IF long THEN last \div 128 ELSE 0,
      v   |-> 15 - ((last \div 8) % 16),
      pp  |-> last % 4]

\* The same instruction with the bits of its prefix in a REX prefix: the processor
\* finds two of the operands as it does there.
Plain(c) ==
  LET vex == VexOf(c)
  IN Rex(vex.w, vex.r, vex.x, vex.b) \o Op(VexShapeOf(c).like) \o SubSeq(c, 3, Len(c))

Undefined == VexInstr("undefined", 0, 0, NoOperand, NoOperand, NoOperand)

\* An instruction runs only if its opcode is in the map of the prefix, if the field
\* of a third operand it does not read is empty, and if it has all its bytes.
Runs(c) ==
  /\ VexOf(c).map = VexShapeOf(c).map
  /\ ~VexShapeOf(c).third => VexOf(c).v = 0
  /\ Len(c) > 2 /\ InStep(Plain(c))

VexExecuted(c) ==
  LET shape == VexShapeOf(c)
      vex == VexOf(c)
      third == IF shape.third THEN Xmm(vex.v) ELSE NoOperand
      w == IF shape.wide THEN vex.w ELSE 0
  IN IF Runs(c)
     THEN VexInstr(shape.does, vex.pp, w, DestOperand(Plain(c)), third, SrcOperand(Plain(c)))
     ELSE Undefined

DecodeVex ==
  /\ phase = "vex"
  /\ decoded' = VexExecuted(code)
  /\ phase' = "vex decoded"
  /\ UNCHANGED <<call, code>>

EmitVexRegisters ==
  /\ Emitting
  /\ \E dst, src \in Regs, w \in {0, 1} :
       \/ \E src1 \in Regs : VFma(w, dst, src1, src) \/ \E pp \in SimdPrefixes : VInstr(pp, w, dst, src1, src)
       \/ \E src1 \in Regs, pp \in SimdPrefixes : VConvert(pp, dst, src1, src)
       \/ VMovaps(dst, src)
       \/ VMovFregReg(w, dst, src)
       \/ VMovRegFreg(w, dst, src)
       \/ \E m \in {None0F38, None0F3A} : Broadcast(m, w, dst, src)

EmitVexMemory ==
  /\ Emitting
  /\ \E dst \in Regs, m \in Bases \cup Indexed \cup Offsets, w \in {0, 1} :
       \/ \E src1 \in Thirds : VFmaMem(w, dst, src1, m) \/ \E pp \in SimdPrefixes : VInstrMem(pp, dst, src1, m)
       \/ VMovapsMem(dst, m)
       \/ VMovFregMem(w, dst, m)
       \/ \E map \in {None0F38, None0F3A} : BroadcastMem(map, w, dst, m)

VexNext == EmitVexRegisters \/ EmitVexMemory \/ DecodeVex

AllSpec == Init /\ [][Next \/ VexNext]_vars

(***************************************************************************)
(* Property.                                                                *)
(***************************************************************************)

Meant == IF Asked.op = "vconvert" THEN [Asked EXCEPT !.src1 = NoOperand] ELSE Asked

\* A VEX instruction between registers runs as asked, whatever high bits and third
\* operand it has: but for one that reads two operands and is given three with
\* src1 # XMM0, for the broadcasts, which lose their last byte (avx.rs 545 and 552),
\* and for the moves to a general register, whose low bits are exchanged
\* (avx.rs 447-499).  One with an address never runs: the REX byte joined to the map
\* (avx.rs 124-127) makes a map there is none of.
VexDecodesAsAsked ==
  phase = "vex decoded" =>
    /\ decoded = Undefined <=>
         \/ IsMemory(Asked.src2)
         \/ Asked.op = "vbroadcast"
         \/ Asked.op = "vconvert" /\ Asked.src1 \notin {NoOperand, Xmm(XMM0)}
    /\ decoded \notin {Undefined, Meant} <=>
         call.fn = "vmov_reg_freg" /\ Asked.dest.n % 8 # Asked.src2.n % 8
=============================================================================
