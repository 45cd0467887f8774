------------------------------ MODULE Encoding ------------------------------
(***************************************************************************)
(* The bytes of the instruction encoders in                                 *)
(* src/jazz-jit/src/assembler_x64.rs: which register numbers, address and   *)
(* immediate each of them writes into the REX prefix, the ModRM and SIB     *)
(* bytes and the fields after them, and what a processor makes of those.    *)
(*                                                                          *)
(* An instruction is a sequence of pieces: a legacy prefix, a REX prefix,   *)
(* an opcode, a ModRM byte, a SIB byte, a number of one, four or eight      *)
(* bytes.  Opcodes that differ only in what is computed are one opcode      *)
(* here.  The processor does not see where an encoder meant a piece to end: *)
(* it expects the pieces that the ones before call for.                     *)
(***************************************************************************)
EXTENDS Integers, Sequences

CONSTANTS
  Regs,    \* numbers of general and of XMM registers
  Scales,  \* factors of an index, out of 1, 2, 4 and 8
  Imms,    \* immediates of 32 bits, and displacements
  Bytes    \* immediates of 8 bits

ASSUME OperandAssumption ==
  /\ Regs \subseteq 0..15
  /\ Scales \subseteq {1, 2, 4, 8}
  /\ Bytes \subseteq 0..255
  /\ Imms \subseteq Int

VARIABLES
  call,     \* the encoder called, and the instruction that is asked of it
  code,     \* the pieces it has emitted
  phase,    \* "emitting", "panicked", "emitted", "decoded"; of VexEncoding, "vex"
            \* and "vex decoded"
  decoded   \* what the processor executes

vars == <<call, code, phase, decoded>>

RAX == 0
RSP == 4
RBP == 5
R12 == 12
R13 == 13
RIP == 16
None == -1

BasicRegs == 0..3

(***************************************************************************)
(* Operands and instructions.                                               *)
(***************************************************************************)

Gp(n)   == [file |-> "general", n |-> n]
Byte(n) == [file |-> "byte", n |-> n]
High(n) == [file |-> "high byte", n |-> n]
Xmm(n)  == [file |-> "xmm", n |-> n]
NoOperand == [file |-> "none", n |-> None]

Base(r, disp) == [base |-> r, index |-> None, scale |-> 1, disp |-> disp]
Index(r, i, s, disp) == [base |-> r, index |-> i, scale |-> s, disp |-> disp]
Offset(i, s, disp) == [base |-> None, index |-> i, scale |-> s, disp |-> disp]

Bases   == {Base(r, d) : r \in Regs \cup {RIP}, d \in Imms}
Indexed == {Index(r, i, s, d) : r \in Regs, i \in Regs, s \in Scales, d \in Imms}
Offsets == {Offset(i, s, d) : i \in Regs, s \in Scales, d \in Imms}

\* The instruction `op` of width w (1 for 64 bits) that reads src and imm, and
\* writes or compares dest.
Instr(op, w, dest, src, imm) ==
  [op |-> op, w |-> w, dest |-> dest, src |-> src, imm |-> imm]

(***************************************************************************)
(* The pieces.                                                              *)
(***************************************************************************)

Msb(r)  == IF r = RIP THEN 0 ELSE r \div 8
And7Whole(r) == r
And7(r) == r % 8

FitsI8(i) == i \in -128..127

Rex(w, r, x, b)      == <<[k |-> "rex", w |-> w, r |-> r, x |-> x, b |-> b]>>
Op(name)             == <<[k |-> "op", op |-> name]>>
OpReg(name, low)     == <<[k |-> "op", op |-> name, low |-> low]>>
ModRM(mode, reg, rm) == <<[k |-> "modrm", mode |-> mode, reg |-> reg, rm |-> rm]>>
Sib(s, index, base)  == <<[k |-> "sib", scale |-> s, index |-> index, base |-> base]>>
Emit8(i)             == <<[k |-> "n1", n |-> i]>>
Emit32(i)            == <<[k |-> "n4", n |-> i]>>
Emit64(i)            == <<[k |-> "n8", n |-> i]>>
Prefix               == <<[k |-> "prefix"]>>

\* Most encoders leave out a REX prefix that says nothing, unless forced.
OptionalRex(force, w, r, x, b) ==
  IF force \/ 1 \in {w, r, x, b} THEN Rex(w, r, x, b) ELSE <<>>

Number(i) == IF FitsI8(i) THEN Emit8(i) ELSE Emit32(i)

Log2(s) == CHOOSE e \in 0..3 : 2 ^ e = s

\* The mode of ModRM for a displacement, and its bytes.
Mode(disp) == IF disp = 0 THEN 0 ELSE IF FitsI8(disp) THEN 1 ELSE 2
Disp(disp) == IF disp = 0 THEN <<>> ELSE Number(disp)

MembaseAnyMode(base, disp, reg) ==
  CASE base = RIP ->
         ModRM(0, And7(reg), RBP) \o Emit32(disp)
    [] base \in {RSP, R12} ->
         ModRM(Mode(disp), And7(reg), RSP) \o Sib(0, RSP, RSP) \o Disp(disp)
    [] OTHER -> ModRM(Mode(disp), And7(reg), And7(base)) \o Disp(disp)

Membase(base, disp, reg) ==
  CASE base = RIP ->
         ModRM(0, And7(reg), RBP) \o Emit32(disp)
    [] base \in {RSP, R12} ->
         ModRM(Mode(disp), And7(reg), RSP) \o Sib(0, RSP, RSP) \o Disp(disp)
    [] base \in {RBP, R13} /\ disp = 0 ->
         ModRM(1, And7(reg), And7(base)) \o Emit8(0)
    [] OTHER -> ModRM(Mode(disp), And7(reg), And7(base)) \o Disp(disp)

MembaseWithIndexAndScale(m, reg) ==
  ModRM(Mode(m.disp), And7(reg), 4)
    \o Sib(Log2(m.scale), And7(m.index), And7(m.base)) \o Disp(m.disp)

MembaseWithoutBase(m, reg) ==
  ModRM(0, And7(reg), 4) \o Sib(Log2(m.scale), And7(m.index), 5) \o Emit32(m.disp)

MemPieces(reg, m) ==
  CASE m.index = None -> Membase(m.base, m.disp, reg)
    [] m.base = None -> MembaseWithoutBase(m, reg)
    [] OTHER -> MembaseWithIndexAndScale(m, reg)

RexMemNoIndex(force, w, reg, m) ==
  OptionalRex(force, w, Msb(reg), 0, IF m.base = None THEN 0 ELSE Msb(m.base))

RexMem(force, w, reg, m) ==
  OptionalRex(force, w, Msb(reg), IF m.index = None THEN 0 ELSE Msb(m.index),
              IF m.base = None THEN 0 ELSE Msb(m.base))

RegMem(op, force, w, reg, m) == RexMem(force, w, reg, m) \o Op(op) \o MemPieces(reg, m)

RegReg(op, force, w, reg, rm) ==
  OptionalRex(force, w, Msb(reg), 0, Msb(rm)) \o Op(op) \o ModRM(3, And7(reg), And7(rm))

(***************************************************************************)
(* The encoders.  Each action is one of them, or several that differ in the *)
(* opcode.                                                                  *)
(***************************************************************************)

Emitting == phase = "emitting"

Emits(fn, instr, pieces) ==
  /\ Emitting
  /\ call' = [fn |-> fn, instr |-> instr]
  /\ code' = pieces
  /\ phase' = "emitted"
  /\ UNCHANGED decoded

\* emit_alu_reg_reg, emit_add_reg_reg, emit_sub_reg_reg: dest is the r/m operand.
AluRegReg(w, dest, src) ==
  Emits("alu_reg_reg", Instr("alu", w, Gp(dest), Gp(src), 0),
        RegReg("alu", FALSE, w, src, dest))

MovRegReg(w, dest, src) ==
  Emits("mov_reg_reg", Instr("mov", w, Gp(dest), Gp(src), 0),
        RegReg("mov_store", FALSE, w, src, dest))

\* emit_imul_reg_reg, cmov: dest is the reg operand.
ImulRegReg(w, dest, src) ==
  Emits("imul_reg_reg", Instr("imul", w, Gp(dest), Gp(src), 0),
        RegReg("imul", FALSE, w, dest, src))

Movsx(dest, src) ==
  Emits("movsx", Instr("movsx", 1, Gp(dest), Gp(src), 0), RegReg("movsx", TRUE, 1, dest, src))

\* emit_movb_reg_reg: the halves of the register numbers go to different operands,
\* and only the source asks for a prefix as a byte.
MovbRegReg(dest, src) ==
  Emits("movb_reg_reg", Instr("movb", 0, Byte(dest), Byte(src), 0),
        OptionalRex(src \notin BasicRegs, 0, Msb(dest), 0, Msb(src))
          \o Op("movb_store") \o ModRM(3, And7(src), And7(dest)))

MovzblRegReg(dest, src) ==
  Emits("movzbl_reg_reg", Instr("movzx", 0, Gp(dest), Byte(src), 0),
        RegReg("movzx", src \notin BasicRegs, 0, dest, src))

MovzxByte(w, dest, src) ==
  Emits("movzx_byte", Instr("movzx", w, Gp(dest), Byte(src), 0),
        RegReg("movzx", FALSE, w, dest, src))

\* emit_setb_reg, emit_setb_reg_parity.
SetbReg(dest) ==
  Emits("setb_reg", Instr("set", 0, Byte(dest), NoOperand, 0),
        OptionalRex(dest \notin BasicRegs, 0, 0, 0, Msb(dest))
          \o Op("set") \o ModRM(3, 0, And7(dest)))

\* emit_alul_reg, emit_idiv_reg_reg and the shifts by cl.
AlulReg(w, dest) ==
  Emits("alul_reg", Instr("unary", w, Gp(dest), NoOperand, 0),
        RegReg("unary", FALSE, w, 2, dest))

NotRegByte(dest) ==
  Emits("not_reg_byte", Instr("unaryb", 0, Byte(dest), NoOperand, 0),
        RegReg("unaryb", FALSE, 0, 2, dest))

\* emit_jmp_reg, emit_callq_reg: 64 bits wide without being asked.
JmpReg(dest) ==
  Emits("jmp_reg", Instr("jmp", 0, Gp(dest), NoOperand, 0), RegReg("jmp", FALSE, 0, 4, dest))

PushqReg(reg) ==
  Emits("pushq_reg", Instr("push", 0, Gp(reg), NoOperand, 0),
        OptionalRex(FALSE, 0, 0, 0, Msb(reg)) \o OpReg("push", And7(reg)))

MovlImmReg(imm, dest) ==
  Emits("movl_imm_reg", Instr("movimm", 0, Gp(dest), NoOperand, imm),
        OptionalRex(FALSE, 0, 0, 0, Msb(dest)) \o OpReg("movl_imm", And7(dest)) \o Emit32(imm))

\* Eight bytes are always emitted for the immediate.
MovqImm64Reg(imm, dest) ==
  Emits("movq_imm64_reg", Instr("movimm", 1, Gp(dest), NoOperand, imm),
        Rex(1, 0, 0, Msb(dest)) \o OpReg("movq_imm64", And7(dest)) \o Emit64(imm))

MovqImmReg(imm, dest) ==
  Emits("movq_imm_reg", Instr("movimm", 1, Gp(dest), NoOperand, imm),
        Rex(1, 0, 0, Msb(dest)) \o Op("mov_imm4") \o ModRM(3, 0, And7(dest)) \o Emit32(imm))

AluqImmReg(w, imm, dest) ==
  Emits("aluq_imm_reg", Instr("aluimm", w, Gp(dest), NoOperand, imm),
        OptionalRex(FALSE, w, 0, 0, Msb(dest))
          \o (IF FitsI8(imm) THEN Op("alu_imm1") \o ModRM(3, 7, And7(dest)) \o Emit8(imm)
              ELSE IF dest = RAX THEN Op("alu_rax_imm4") \o Emit32(imm)
              ELSE Op("alu_imm4") \o ModRM(3, 7, And7(dest)) \o Emit32(imm)))

\* emit_alub_imm_reg, emit_cmpb_imm_reg.
AlubImmReg(imm, dest) ==
  Emits("alub_imm_reg", Instr("alubimm", 0, Byte(dest), NoOperand, imm),
        IF dest = RAX THEN Op("alub_rax_imm1") \o Emit8(imm)
        ELSE OptionalRex(dest \notin BasicRegs, 0, 0, 0, Msb(dest))
               \o Op("alub_imm1") \o ModRM(3, 6, And7(dest)) \o Emit8(imm))

\* A shift by one has an opcode without immediate.
ShrRegImm(w, dest, imm) ==
  Emits("shr_reg_imm", Instr("shift", w, Gp(dest), NoOperand, imm),
        OptionalRex(FALSE, w, 0, 0, Msb(dest))
          \o Op(IF imm = 1 THEN "shift_one" ELSE "shift_imm1") \o ModRM(3, 5, And7(dest))
          \o (IF imm = 1 THEN <<>> ELSE Emit8(imm)))

(***************************************************************************)
(* Memory.                                                                  *)
(***************************************************************************)

\* MachineMode.
IntModes == {"Int8", "Int32", "Ptr"}
Wide(mode) == IF mode = "Ptr" THEN 1 ELSE 0
Size(mode) == CASE mode = "Int8" -> 1 [] mode = "Int32" -> 4 [] mode = "Ptr" -> 8

\* emit_mov_memindex_reg, and load_mem for a byte, assert that the factor is the size.
ScaleFits(mode, m) == m.base # None /\ (m.index # None => m.scale = Size(mode))

\* load_mem: a byte is extended, whichever way it is addressed.
LoadMem(mode, dest, m) ==
  /\ ScaleFits(mode, m)
  /\ IF mode = "Int8"
     THEN Emits("load_mem", Instr("movzx", 0, Gp(dest), m, 0),
                RegMem("movzx", FALSE, 0, dest, m))
     ELSE Emits("load_mem", Instr("mov", Wide(mode), Gp(dest), m, 0),
                RegMem("mov_load", FALSE, Wide(mode), dest, m))

\* store_mem: a byte register asks for a prefix only under a base address, where
\* RIP has no high bit to put in it.  Any factor will do for an index.
StoreMem(mode, m, src) ==
  LET fn == IF m.index = None THEN "mov_reg_memq" ELSE "mov_reg_memindex"
      byte == mode = "Int8" IN
  /\ m.base # None
  /\ ~(byte /\ m.base = RIP /\ src \notin BasicRegs)
  /\ Emits(fn, IF byte THEN Instr("movb", 0, m, Byte(src), 0)
                       ELSE Instr("mov", Wide(mode), m, Gp(src), 0),
           RegMem(IF byte THEN "movb_store" ELSE "mov_store",
                  byte /\ m.index = None /\ src \notin BasicRegs, Wide(mode), src, m))

\* The assertion of msb that RIP is not asked for its high bit, before any byte.
StoreByteAtRip(disp, src) ==
  /\ Emitting /\ src \notin BasicRegs
  /\ call' = [fn |-> "mov_reg_memq", instr |-> Instr("movb", 0, Base(RIP, disp), Byte(src), 0)]
  /\ code' = <<>>
  /\ phase' = "panicked"
  /\ UNCHANGED decoded

\* emit_movb_memq_reg.
MovbMemqReg(m, dest) ==
  /\ m.index = None
  /\ Emits("movb_memq_reg", Instr("movb", 0, Byte(dest), m, 0),
           RegMem("movb_load", dest \notin BasicRegs, 0, dest, m))

\* emit_mov_memindex_reg called for a byte.
MovMemindexByte(m, dest) ==
  /\ m.index # None /\ ScaleFits("Int8", m)
  /\ Emits("mov_memindex_reg", Instr("movb", 0, Byte(dest), m, 0),
           RegMem("movb_load", FALSE, 0, dest, m))

\* emit_mov_ar: any factor, no displacement.
MovAr(w, dest, m) ==
  /\ m.base # None /\ m.index # None /\ m.disp = 0
  /\ Emits("mov_ar", Instr("mov", w, Gp(dest), m, 0), RegMem("mov_load", FALSE, w, dest, m))

\* emit_cmp_mem_reg, emit_cmp_memindex_reg.
CmpMem(mode, m, rhs) ==
  LET byte == mode = "Int8" IN
  /\ m.base # None
  /\ Emits("cmp_mem", IF byte THEN Instr("cmpb", 0, m, Byte(rhs), 0)
                              ELSE Instr("alu", Wide(mode), m, Gp(rhs), 0),
           RegMem(IF byte THEN "cmpb" ELSE "alu", FALSE, Wide(mode), rhs, m))

\* emit_cmp_mem_imm finds out only after the address that a byte has no wide
\* immediate.
CmpMemImm(mode, m, imm) ==
  LET op == IF mode = "Int8" THEN "alub_imm1" ELSE IF FitsI8(imm) THEN "alu_imm1" ELSE "alu_imm4"
      head == RexMem(FALSE, Wide(mode), 7, m) \o Op(op) \o Membase(m.base, m.disp, 7) IN
  /\ Emitting /\ m.index = None
  /\ call' = [fn |-> "cmp_mem_imm", instr |->
                Instr(IF mode = "Int8" THEN "alubimm" ELSE "aluimm", Wide(mode), m, NoOperand, imm)]
  /\ IF mode = "Int8" /\ ~FitsI8(imm)
     THEN code' = head /\ phase' = "panicked"
     ELSE code' = head \o Number(imm) /\ phase' = "emitted"
  /\ UNCHANGED decoded

\* emit_sub_imm_mem does not go through emit_membase.
SubImmMem(mode, base, imm) ==
  Emits("sub_imm_mem",
        Instr(IF mode = "Int8" THEN "alubimm" ELSE "aluimm", Wide(mode), Base(base, 0), NoOperand, imm),
        OptionalRex(FALSE, Wide(mode), 0, 0, Msb(base))
          \o Op(IF mode = "Int8" THEN "alub_imm1" ELSE "alu_imm1")
          \o ModRM(0, 5, And7(base)) \o Emit8(imm))

\* emit_movb_imm_memq.
MovbImmMemq(imm, m) ==
  /\ m.index = None
  /\ Emits("movb_imm_memq", Instr("movbimm", 0, m, NoOperand, imm),
           RegMem("movb_imm1", FALSE, 0, 0, m) \o Emit8(imm))

\* emit_movb_imm_memscaleq takes the two bits of the SIB byte where the others take
\* a factor, and finds out that it has more only when it writes them.
MovbImmMemscaleq(imm, base, index, bits) ==
  LET head == OptionalRex(FALSE, 0, 0, Msb(index), Msb(base)) \o Op("movb_imm1") \o ModRM(0, 0, 4) IN
  /\ Emitting
  /\ call' = [fn |-> "movb_imm_memscaleq", instr |->
                Instr("movbimm", 0, Index(base, index, 2 ^ bits, 0), NoOperand, imm)]
  /\ IF bits > 3
     THEN code' = head /\ phase' = "panicked"
     ELSE code' = head \o Sib(bits, And7(index), And7(base)) \o Emit8(imm) /\ phase' = "emitted"
  /\ UNCHANGED decoded

\* lea.
Lea(dest, m) == Emits("lea", Instr("lea", 1, Gp(dest), m, 0), RegMem("lea", FALSE, 1, dest, m))

(***************************************************************************)
(* XMM registers: the prefix of the opcode comes before REX.                *)
(***************************************************************************)

\* sse_float_freg_freg, sse_cmp, sse2_instr and their like.
SseRegReg(dest, src) ==
  Emits("sse_freg_freg", Instr("sse", 0, Xmm(dest), Xmm(src), 0),
        Prefix \o RegReg("sse", FALSE, 0, dest, src))

\* sse_float_freg_mem, sse2_instr_mem and their like, for loads and operations.
SseRegMem(dest, m) ==
  Emits("sse_freg_mem", Instr("sse", 0, Xmm(dest), m, 0),
        Prefix \o RegMem("sse", FALSE, 0, dest, m))

SseStore(m, src) ==
  Emits("sse_store", Instr("sse", 0, m, Xmm(src), 0),
        Prefix \o RegMem("sse_store", FALSE, 0, src, m))

\* sse_float_freg_reg, sse_freg_reg.
SseFregReg(w, dest, src) ==
  Emits("sse_freg_reg", Instr("cvt", w, Xmm(dest), Gp(src), 0),
        Prefix \o RegReg("xmm_from_general", FALSE, w, dest, src))

SseFloatRegFreg(w, dest, src) ==
  Emits("sse_float_reg_freg", Instr("cvt", w, Gp(dest), Xmm(src), 0),
        Prefix \o RegReg("general_from_xmm", FALSE, w, dest, src))

\* sse_reg_freg: its opcode has the general register as its r/m operand, and the
\* encoder puts it in the other.
SseRegFreg(w, dest, src) ==
  Emits("sse_reg_freg", Instr("cvt", w, Gp(dest), Xmm(src), 0),
        Prefix \o RegReg("general_from_xmm_store", FALSE, w, dest, src))

(***************************************************************************)
(* The processor.                                                           *)
(***************************************************************************)

\* What an opcode computes, the register files of its two operands, which of them
\* it writes or compares, and the bytes of its immediate.
Shape(does, reg, rm, dest, imm) ==
  [does |-> does, reg |-> reg, rm |-> rm, dest |-> dest, imm |-> imm]

Unary(does, rm, imm) == Shape(does, "none", rm, "rm", imm)

Opcodes == [
  alu |-> Shape("alu", "general", "general", "rm", <<>>),
  mov_store |-> Shape("mov", "general", "general", "rm", <<>>),
  mov_load |-> Shape("mov", "general", "general", "reg", <<>>),
  imul |-> Shape("imul", "general", "general", "reg", <<>>),
  movsx |-> Shape("movsx", "general", "general", "reg", <<>>),
  lea |-> Shape("lea", "general", "general", "reg", <<>>),
  movzx |-> Shape("movzx", "general", "byte", "reg", <<>>),
  movb_store |-> Shape("movb", "byte", "byte", "rm", <<>>),
  movb_load |-> Shape("movb", "byte", "byte", "reg", <<>>),
  cmpb |-> Shape("cmpb", "byte", "byte", "rm", <<>>),
  sse |-> Shape("sse", "xmm", "xmm", "reg", <<>>),
  sse_store |-> Shape("sse", "xmm", "xmm", "rm", <<>>),
  xmm_from_general |-> Shape("cvt", "xmm", "general", "reg", <<>>),
  general_from_xmm |-> Shape("cvt", "general", "xmm", "reg", <<>>),
  general_from_xmm_store |-> Shape("cvt", "xmm", "general", "rm", <<>>),
  set |-> Unary("set", "byte", <<>>),
  unary |-> Unary("unary", "general", <<>>),
  unaryb |-> Unary("unaryb", "byte", <<>>),
  jmp |-> Unary("jmp", "general", <<>>),
  mov_imm4 |-> Unary("movimm", "general", <<"n4">>),
  alu_imm1 |-> Unary("aluimm", "general", <<"n1">>),
  alu_imm4 |-> Unary("aluimm", "general", <<"n4">>),
  alub_imm1 |-> Unary("alubimm", "byte", <<"n1">>),
  movb_imm1 |-> Unary("movbimm", "byte", <<"n1">>),
  shift_imm1 |-> Unary("shift", "general", <<"n1">>),
  shift_one |-> Unary("shift", "general", <<>>),
  push |-> Shape("push", "none", "general", "low", <<>>),
  movl_imm |-> Shape("movimm", "none", "general", "low", <<"n4">>),
  movq_imm64 |-> Shape("movimm", "none", "general", "low", <<"n8">>),
  alu_rax_imm4 |-> Shape("aluimm", "none", "general", "rax", <<"n4">>),
  alub_rax_imm1 |-> Shape("alubimm", "none", "byte", "rax", <<"n1">>)]

HasPrefix(c) == c[1].k = "prefix"
RexAt(c) == IF HasPrefix(c) THEN 2 ELSE 1
HasRex(c) == c[RexAt(c)].k = "rex"
RexOf(c) == IF HasRex(c) THEN c[RexAt(c)] ELSE [w |-> 0, r |-> 0, x |-> 0, b |-> 0]
OpAt(c) == RexAt(c) + (IF HasRex(c) THEN 1 ELSE 0)
ShapeOf(c) == Opcodes[c[OpAt(c)].op]

HasModRM(c) == ShapeOf(c).dest \in {"reg", "rm"}
ModRMOf(c) == c[OpAt(c) + 1]
HasSib(c) == ModRMOf(c).mode # 3 /\ ModRMOf(c).rm = 4
SibOf(c) == c[OpAt(c) + 2]

\* Mode 0 with low bits 5 is no base: 32 bits of displacement alone or, without SIB,
\* relative to the instruction pointer.
Baseless(c) == ModRMOf(c).mode = 0 /\ 5 = (IF HasSib(c) THEN SibOf(c).base ELSE ModRMOf(c).rm)

DispBytes(c) ==
  IF ModRMOf(c).mode = 1 THEN <<"n1">>
  ELSE IF ModRMOf(c).mode = 2 \/ Baseless(c) THEN <<"n4">> ELSE <<>>

Kinds(c) == [i \in DOMAIN c |-> c[i].k]

\* The pieces after the opcode are the ones it calls for, no fewer and no more.
InStep(c) ==
  LET rest == SubSeq(Kinds(c), OpAt(c) + 1, Len(c))
      imm == ShapeOf(c).imm
  IN IF ~HasModRM(c) THEN rest = imm
     ELSE IF ~HasSib(c) THEN rest = <<"modrm">> \o DispBytes(c) \o imm
     ELSE /\ Len(rest) >= 2 /\ rest[2] = "sib"
          /\ rest = <<"modrm", "sib">> \o DispBytes(c) \o imm

\* Without a REX prefix, byte registers 4 to 7 are the second bytes of 0 to 3.
Register(file, n, c) ==
  CASE file = "byte" /\ ~HasRex(c) /\ n \in 4..7 -> High(n - 4)
    [] file = "none" -> NoOperand
    [] OTHER -> [file |-> file, n |-> n]

NumberAt(i, c) == IF i \in DOMAIN c THEN c[i].n ELSE 0
Signed8(i) == IF i > 127 THEN i - 256 ELSE i

Address(c) ==
  LET m == ModRMOf(c)  x == RexOf(c)
      index == SibOf(c).index + 8 * x.x
      noIndex == ~HasSib(c) \/ index = 4
      low == IF HasSib(c) THEN SibOf(c).base ELSE m.rm
      at == OpAt(c) + (IF HasSib(c) THEN 3 ELSE 2)
  IN [base |-> IF ~Baseless(c) THEN low + 8 * x.b ELSE IF HasSib(c) THEN None ELSE RIP,
      index |-> IF noIndex THEN None ELSE index,
      scale |-> IF noIndex THEN 1 ELSE 2 ^ SibOf(c).scale,
      disp |-> IF DispBytes(c) = <<>> THEN 0 ELSE NumberAt(at, c)]

RegOperand(c) == Register(ShapeOf(c).reg, ModRMOf(c).reg + 8 * RexOf(c).r, c)

RmOperand(c) ==
  IF ModRMOf(c).mode = 3 THEN Register(ShapeOf(c).rm, ModRMOf(c).rm + 8 * RexOf(c).b, c)
                         ELSE Address(c)

DestOperand(c) ==
  CASE ShapeOf(c).dest = "reg" -> RegOperand(c)
    [] ShapeOf(c).dest = "rm"  -> RmOperand(c)
    [] ShapeOf(c).dest = "low" -> Gp(c[OpAt(c)].low + 8 * RexOf(c).b)
    [] ShapeOf(c).dest = "rax" -> Register(ShapeOf(c).rm, RAX, c)

SrcOperand(c) ==
  CASE ShapeOf(c).dest = "reg" -> RmOperand(c)
    [] ShapeOf(c).dest = "rm"  -> RegOperand(c)
    [] OTHER -> NoOperand

\* An immediate of one byte is extended by its sign where the operation is wider.
ImmOperand(c) ==
  CASE ShapeOf(c).imm = <<>> -> IF c[OpAt(c)].op = "shift_one" THEN 1 ELSE 0
    [] ShapeOf(c).imm = <<"n1">> /\ ShapeOf(c).does = "aluimm" -> Signed8(c[Len(c)].n)
    [] OTHER -> c[Len(c)].n

Garbled == Instr("garbled", 0, NoOperand, NoOperand, 0)

Executed(c) ==
  IF InStep(c)
  THEN Instr(ShapeOf(c).does, RexOf(c).w, DestOperand(c), SrcOperand(c), ImmOperand(c))
  ELSE Garbled

Decode ==
  /\ phase = "emitted"
  /\ decoded' = Executed(code)
  /\ phase' = "decoded"
  /\ UNCHANGED <<call, code>>

Init ==
  /\ call = [fn |-> "none", instr |-> Garbled]
  /\ code = <<>>
  /\ phase = "emitting"
  /\ decoded = Garbled

EmitRegisters ==
  /\ Emitting
  /\ \E r, s \in Regs, w \in {0, 1} :
       \/ AluRegReg(w, r, s)
       \/ MovRegReg(w, r, s)
       \/ ImulRegReg(w, r, s)
       \/ Movsx(r, s)
       \/ MovbRegReg(r, s)
       \/ MovzblRegReg(r, s)
       \/ MovzxByte(w, r, s)
       \/ SseRegReg(r, s)
       \/ SseFregReg(w, r, s)
       \/ SseFloatRegFreg(w, r, s)
       \/ SseRegFreg(w, r, s)

EmitOneRegister ==
  /\ Emitting
  /\ \E r \in Regs, w \in {0, 1} :
       \/ SetbReg(r)
       \/ AlulReg(w, r)
       \/ NotRegByte(r)
       \/ JmpReg(r)
       \/ PushqReg(r)
       \/ \E i \in Imms : MovlImmReg(i, r) \/ MovqImmReg(i, r) \/ MovqImm64Reg(i, r) \/ AluqImmReg(w, i, r)
       \/ \E i \in Bytes : AlubImmReg(i, r) \/ ShrRegImm(w, r, i)
       \/ \E i \in Bytes, mode \in IntModes : SubImmMem(mode, r, i)

EmitMemory ==
  /\ Emitting
  /\ \E r \in Regs, m \in Bases \cup Indexed \cup Offsets :
       \/ \E mode \in IntModes : LoadMem(mode, r, m) \/ StoreMem(mode, m, r) \/ CmpMem(mode, m, r)
       \/ MovbMemqReg(m, r)
       \/ MovMemindexByte(m, r)
       \/ \E w \in {0, 1} : MovAr(w, r, m)
       \/ Lea(r, m)
       \/ SseRegMem(r, m)
       \/ SseStore(m, r)

EmitMemoryImm ==
  /\ Emitting
  /\ \E m \in Bases \cup Indexed :
       \/ \E mode \in IntModes, i \in Imms : CmpMemImm(mode, m, i)
       \/ \E i \in Bytes : MovbImmMemq(i, m)

EmitScaled ==
  /\ Emitting
  /\ \E r, s \in Regs, i \in Bytes, bits \in 0..4 : MovbImmMemscaleq(i, r, s, bits)

Next ==
  \/ EmitRegisters
  \/ EmitOneRegister
  \/ EmitMemory
  \/ EmitMemoryImm
  \/ EmitScaled
  \/ Emitting /\ \E r \in Regs, d \in Imms : StoreByteAtRip(d, r)
  \/ Decode

Spec == Init /\ [][Next]_vars

(***************************************************************************)
(* Properties.                                                              *)
(***************************************************************************)

PieceKinds ==
  {"prefix", "rex", "vex2", "vex3", "op", "modrm", "sib", "n1", "n3", "n4", "n8"}

\* What emit_rex, emit_modrm and emit_sib assert of their fields.
FieldsOK(piece) ==
  CASE piece.k = "rex"   -> {piece.w, piece.r, piece.x, piece.b} \subseteq {0, 1}
    [] piece.k \in {"vex2", "vex3"} -> piece.n \in 0..255
    [] piece.k = "modrm" -> piece.mode \in 0..3 /\ {piece.reg, piece.rm} \subseteq 0..7
    [] piece.k = "sib"   -> piece.scale \in 0..3 /\ {piece.index, piece.base} \subseteq 0..7
    [] OTHER -> TRUE

\* The assertions of emit_rex, emit_modrm and emit_sib (assembler_x64.rs 1221-1244)
\* never fail, and a byte never gets a number that takes more.
TypeOK ==
  /\ phase \in {"emitting", "panicked", "emitted", "decoded", "vex", "vex decoded"}
  /\ \A i \in DOMAIN code :
       /\ code[i].k \in PieceKinds
       /\ FieldsOK(code[i])
       /\ code[i].k = "n1" => code[i].n \in -128..255
  /\ phase = "emitted" => code # <<>>

Asked == call.instr
Memory == {x \in {Asked.dest, Asked.src} : "base" \in DOMAIN x}

\* An address with an index that has no displacement and a base with low bits 5: the
\* encoders have a case for such a base only without an index
\* (assembler_x64.rs 1024 and 1595).
LosesBase(m) == m.index # None /\ m.base \in {RBP, R13} /\ m.disp = 0

\* Bytes of an instruction are never taken for those of another, whatever registers,
\* displacement and immediate it is given: but for an indexed address that loses its
\* base, and for emit_sub_imm_mem (1154-1170) on a base that needs more than ModRM.
StaysInStep ==
  phase = "decoded" =>
    (decoded = Garbled <=>
       \/ \E m \in Memory : LosesBase(m)
       \/ call.fn = "sub_imm_mem" /\ Asked.dest.base \in {RSP, RBP, R12, R13})

\* The encoders of byte registers that emit no REX prefix for registers 4 to 7.
ForgetsRex(fn) ==
  fn \in {"movzx_byte", "not_reg_byte", "mov_reg_memindex", "mov_memindex_reg", "cmp_mem"}

ByteOperands == {x \in {Asked.dest, Asked.src} : "file" \in DOMAIN x /\ x.file = "byte"}
AnyRex == \E i \in DOMAIN code : code[i].k = "rex"

\* An instruction in step is the one asked for: its operands are not exchanged, no
\* register loses its high bit, no displacement or immediate its sign or size; but for
\* an index RSP, which is no index, for the byte registers above, for a register
\* move of bytes between registers whose high bits differ, for the moves from an XMM
\* to a general register (1945-1954), and for unsigned bytes subtracted from more.
DecodesAsAsked ==
  phase = "decoded" /\ decoded # Garbled =>
    (decoded # Asked <=>
       \/ \E m \in Memory : m.index = RSP
       \/ /\ ForgetsRex(call.fn) /\ ~AnyRex
          /\ \E x \in ByteOperands : x.n \in 4..7
       \/ /\ call.fn = "movb_reg_reg"
          /\ \/ Msb(Asked.dest.n) # Msb(Asked.src.n)
             \/ ~AnyRex /\ Asked.dest.n \in 4..7
       \/ call.fn = "sse_reg_freg" /\ Asked.dest.n # Asked.src.n
       \/ call.fn = "sub_imm_mem" /\ Asked.op = "aluimm" /\ Asked.imm > 127)
=============================================================================
