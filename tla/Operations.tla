---------------------------- MODULE Operations ----------------------------
(***************************************************************************)
(* The register operations of the assembler, jazz-jit/src/assembler_x64.rs *)
(* 56-217 and 259-776: each takes the registers of a three-address          *)
(* operation, dest := lhs op rhs, and emits two-address instructions, some  *)
(* of which have fixed operands (RAX, RCX, RDX) or need a scratch register  *)
(* (R11).  The caller may pass any registers, the same ones twice and the   *)
(* fixed ones included.                                                     *)
(*                                                                          *)
(* An action emits the code of one operation; Execute runs it one           *)
(* instruction at a time, as the processor does.  Arithmetic is a           *)
(* parameter: the operators below may be any functions.                     *)
(***************************************************************************)
EXTENDS Integers, Sequences

CONSTANTS
  GP, XMM,              \* general and floating-point registers
  RAX, RCX, RDX, R11,
  Values, InitRegs,     \* contents, and the register files to start from
  BigImm,               \* an immediate that does not fit in 32 bits (fits_i32)
  Alu(_, _, _),         \* result of a two-operand instruction
  Un(_, _),             \* result of a one-operand instruction or a conversion
  SetLow(_, _),         \* a register after its low byte is written
  Sign(_),              \* what cdq and cqo leave in RDX
  DivTraps(_, _, _), Quot(_, _, _), Rem(_, _, _),  \* idiv of RDX:RAX
  SLess(_, _), ULess(_, _),   \* the signed and the unsigned order
  FRel(_, _)            \* of two floats: "lt", "eq", "gt" or "un" (a NaN)

Regs == GP \cup XMM

ASSUME RegsAssumption ==
  /\ {RAX, RCX, RDX, R11} \subseteq GP
  /\ RAX # RCX /\ RAX # RDX /\ RAX # R11 /\ RCX # RDX /\ RCX # R11 /\ RDX # R11
  /\ GP \cap XMM = {}
  /\ InitRegs \subseteq [Regs -> Values]
  /\ {0, 1, BigImm} \subseteq Values

\* A register whose low byte alone is written keeps the rest; zero-extended, or zero
\* before, it holds the byte.
ASSUME ByteAssumption ==
  \A v \in Values, b \in {0, 1} :
    /\ SetLow(v, b) \in Values
    /\ Un("zext", SetLow(v, b)) = b
    /\ SetLow(0, b) = b

\* What an instruction computes of the contents of registers is the contents of one.
ASSUME ClosedAssumption ==
  \A x, y \in Values :
    /\ \A f \in {"add", "sub", "xor", "shl"} : Alu(f, x, y) \in Values
    /\ \A f \in {"neg", "xor1", "and1", "id", "zext", "cvtsi", "cvttsi"} : Un(f, x) \in Values
    /\ Sign(x) \in Values
    /\ \A h \in Values :
         ~DivTraps(h, x, y) => Quot(h, x, y) \in Values /\ Rem(h, x, y) \in Values
    /\ SLess(x, y) \in BOOLEAN /\ ULess(x, y) \in BOOLEAN

\* Not of the low bit of 0 or 1, and floats compared either way round.
ASSUME ArithmeticAssumption ==
  /\ \A x \in {0, 1} : Un("and1", Un("xor1", x)) = 1 - x
  /\ \A x, y \in Values :
       /\ FRel(x, y) \in {"lt", "eq", "gt", "un"}
       /\ FRel(y, x) = "gt" <=> FRel(x, y) = "lt"
       /\ FRel(y, x) = "eq" <=> FRel(x, y) = "eq"

VARIABLES
  regs, flags,   \* the processor
  code,          \* instructions still to execute
  phase,         \* "emit", "run", "done", "panic" (an assertion), "trap" (idiv)
  call, start    \* history: the operation emitted, the registers before it

vars == <<regs, flags, code, phase, call, start>>

Flags == [z : BOOLEAN, l : BOOLEAN, b : BOOLEAN, p : BOOLEAN]

Conds == {"Zero", "NonZero", "Equal", "NotEqual",
          "Greater", "GreaterEq", "Less", "LessEq",
          "UnsignedGreater", "UnsignedGreaterEq", "UnsignedLess", "UnsignedLessEq"}

Init ==
  /\ regs \in InitRegs
  /\ flags = [z |-> FALSE, l |-> FALSE, b |-> FALSE, p |-> FALSE]
  /\ code = <<>>
  /\ phase = "emit"
  /\ call = [name |-> "none"]
  /\ start = regs

(***************************************************************************)
(* Instructions.                                                            *)
(***************************************************************************)

Ins(op, f, d, s) == [op |-> op, f |-> f, dst |-> d, src |-> s]

\* The flags of cmp, and of ucomiss and ucomisd, which set all of zero, parity and
\* carry when either operand is a NaN and never the signed ones.
CmpFlags(x, y) == [z |-> x = y, l |-> SLess(x, y), b |-> ULess(x, y), p |-> FALSE]
UcomisFlags(rel) == [z |-> rel \in {"eq", "un"}, l |-> FALSE,
                     b |-> rel \in {"lt", "un"}, p |-> rel = "un"]

\* The condition codes as emit_setb_reg, emit_setb_reg_parity and cmov encode them.
Holds(cond, fl) ==
  \/ cond \in {"Zero", "Equal"} /\ fl.z
  \/ cond \in {"NonZero", "NotEqual"} /\ ~fl.z
  \/ cond = "Less" /\ fl.l
  \/ cond = "LessEq" /\ (fl.l \/ fl.z)
  \/ cond = "Greater" /\ ~fl.l /\ ~fl.z
  \/ cond = "GreaterEq" /\ ~fl.l
  \/ cond = "UnsignedLess" /\ fl.b
  \/ cond = "UnsignedLessEq" /\ (fl.b \/ fl.z)
  \/ cond = "UnsignedGreater" /\ ~fl.b /\ ~fl.z
  \/ cond = "UnsignedGreaterEq" /\ ~fl.b
  \/ cond = "Parity" /\ fl.p
  \/ cond = "NoParity" /\ ~fl.p

Bit(b) == IF b THEN 1 ELSE 0

Write(r, v) == regs' = [regs EXCEPT ![r] = v] /\ UNCHANGED <<flags, phase>>

Step(i) ==
  \/ i.op = "alu" /\ Write(i.dst, Alu(i.f, regs[i.dst], regs[i.src]))
  \/ i.op = "alu_imm" /\ Write(i.dst, Alu(i.f, regs[i.dst], i.src))
  \/ i.op = "un" /\ Write(i.dst, Un(i.f, regs[i.src]))
  \/ i.op = "mov" /\ Write(i.dst, regs[i.src])
  \/ i.op = "imm" /\ Write(i.dst, i.src)
  \/ i.op = "set" /\ Write(i.dst, SetLow(regs[i.dst], Bit(Holds(i.f, flags))))
  \/ i.op = "cmov" /\ Write(i.dst, IF Holds(i.f, flags) THEN regs[i.src] ELSE regs[i.dst])
  \/ i.op = "cqo" /\ Write(RDX, Sign(regs[RAX]))
  \/ /\ i.op = "cmp"
     /\ flags' = CmpFlags(regs[i.dst], regs[i.src])
     /\ UNCHANGED <<regs, phase>>
  \/ /\ i.op = "ucomis"
     /\ flags' = UcomisFlags(FRel(regs[i.dst], regs[i.src]))
     /\ UNCHANGED <<regs, phase>>
  \/ /\ i.op = "idiv"
     /\ IF DivTraps(regs[RDX], regs[RAX], regs[i.src])
        THEN phase' = "trap" /\ UNCHANGED regs
        ELSE /\ regs' = [regs EXCEPT ![RAX] = Quot(regs[RDX], regs[RAX], regs[i.src]),
                                     ![RDX] = Rem(regs[RDX], regs[RAX], regs[i.src])]
             /\ UNCHANGED phase
     /\ UNCHANGED flags

Execute ==
  /\ phase = "run" /\ code # <<>>
  /\ Step(Head(code))
  /\ code' = Tail(code)
  /\ UNCHANGED <<call, start>>

Return ==
  /\ phase = "run" /\ code = <<>>
  /\ phase' = "done"
  /\ UNCHANGED <<regs, flags, code, call, start>>

(***************************************************************************)
(* Operations.                                                              *)
(***************************************************************************)

EmitTwice(name, f, d, l, r, ins) ==
  /\ phase' = "run"
  /\ code' = ins \o ins
  /\ call' = [name |-> name, f |-> f, dest |-> d, lhs |-> l, rhs |-> r]
  /\ UNCHANGED <<regs, flags, start>>

Emit(name, f, d, l, r, ins) ==
  /\ phase' = "run"
  /\ code' = ins
  /\ call' = [name |-> name, f |-> f, dest |-> d, lhs |-> l, rhs |-> r]
  /\ UNCHANGED <<regs, flags, start>>

\* An assert! that does not hold: nothing is emitted that will be run.
Panic(name, f, d, l, r) ==
  /\ phase' = "panic"
  /\ call' = [name |-> name, f |-> f, dest |-> d, lhs |-> l, rhs |-> r]
  /\ UNCHANGED <<regs, flags, code, start>>

CopyFromDest(d, s) == IF d = s THEN <<>> ELSE <<Ins("mov", "", s, d)>>

\* The result is moved from the register it was computed in, if that is not dest.
Copy(d, s) == IF d = s THEN <<>> ELSE <<Ins("mov", "", d, s)>>

\* int_add, int_sub, int_mul, int_or, int_and, int_xor, float_add and the other
\* float operations: lhs is overwritten first.
Accumulate(f, d, l, r) ==
  Emit("binary", f, d, l, r, <<Ins("alu", f, l, r)>> \o Copy(d, l))

\* int_neg, int_not, float_neg.
InPlace(f, d, s) ==
  Emit("unary", f, d, s, s, <<Ins("un", f, s, s)>> \o Copy(d, s))

BoolNot(d, s) ==
  Emit("bool_not", "", d, s, s,
       <<Ins("un", "xor1", s, s), Ins("un", "and1", s, s)>> \o Copy(d, s))

\* float_sqrt, copy_reg, copy_freg, extend_int_long, extend_byte, the conversions
\* between floats and those to integers: one instruction that writes dest alone.
Convert(f, d, s) == Emit("unary", f, d, s, s, <<Ins("un", f, d, s)>>)

\* int_to_float clears dest before it converts into it.
IntToFloat(d, s) ==
  Emit("unary", "cvtsi", d, s, s, <<Ins("alu", "xor", d, d), Ins("un", "cvtsi", d, s)>>)

\* int_add_imm: the immediate goes through R11 if it is too wide.
AddImm(d, l, v) ==
  IF v = BigImm
  THEN Emit("add_imm", "add", d, l, v,
            <<Ins("imm", "", R11, v), Ins("alu", "add", l, R11)>> \o Copy(d, l))
  ELSE Emit("add_imm", "add", d, l, v, <<Ins("alu_imm", "add", l, v)>> \o Copy(d, l))

\* int_shl, int_shr, int_sar, int_sal: the count is in CL.
Shift(f, d, l, r) ==
  IF r # RCX /\ l = RCX
  THEN Panic("binary", f, d, l, r)
  ELSE Emit("binary", f, d, l, r,
            Copy(RCX, r) \o <<Ins("alu", f, l, RCX)>> \o Copy(d, l))

DivCommonUnchecked(result, d, l, r) ==
  Emit("div", result, d, l, r,
       Copy(RAX, l) \o <<Ins("cqo", "", RDX, RAX), Ins("idiv", "", RAX, r)>>
         \o Copy(d, result))

\* div_common: the result is RAX for int_div, RDX for int_mod.
DivCommon(result, d, l, r) ==
  IF l # RAX /\ r = RAX
  THEN Panic("div", result, d, l, r)
  ELSE Emit("div", result, d, l, r,
            Copy(RAX, l) \o <<Ins("cqo", "", RDX, RAX), Ins("idiv", "", RAX, r)>>
              \o Copy(d, result))

\* set, after cmp_reg: the byte of the condition, zero-extended.
CmpSet(cond, d, l, r) ==
  Emit("cmp_set", cond, d, l, r,
       <<Ins("cmp", "", l, r), Ins("set", cond, d, d), Ins("un", "zext", d, d)>>)

\* The flags of a float comparison are read as unsigned ones.
Above(cond) ==
  IF cond \in {"Greater", "Less"} THEN "UnsignedGreater" ELSE "UnsignedGreaterEq"

\* float_cmp: equality is decided by the parity flag and corrected from a scratch
\* register; the other conditions by the unsigned flags, less with the operands
\* exchanged.
FloatCmp(cond, d, l, r) ==
  \/ /\ cond \in {"Equal", "NotEqual"}
     /\ Emit("float_cmp", cond, d, l, r,
             <<Ins("imm", "", R11, IF cond = "Equal" THEN 0 ELSE 1), Ins("imm", "", d, 0),
               Ins("ucomis", "", l, r),
               Ins("set", IF cond = "Equal" THEN "NoParity" ELSE "Parity", d, d),
               Ins("cmov", "NotEqual", d, R11)>>)
  \/ /\ cond \in {"Greater", "GreaterEq"}
     /\ Emit("float_cmp", cond, d, l, r,
             <<Ins("imm", "", d, 0), Ins("ucomis", "", l, r),
               Ins("set", Above(cond), d, d)>>)
  \/ /\ cond \in {"Less", "LessEq"}
     /\ Emit("float_cmp", cond, d, l, r,
             <<Ins("imm", "", d, 0), Ins("ucomis", "", r, l),
               Ins("set", Above(cond), d, d)>>)

FloatCmpNan(d, s) ==
  Emit("float_cmp_nan", "", d, s, s,
       <<Ins("imm", "", d, 0), Ins("ucomis", "", s, s), Ins("set", "Parity", d, d)>>)

\* One call of the code generator.
Generate ==
  /\ phase = "emit"
  /\ \/ \E d, l, r \in GP, f \in {"add", "sub"} : Accumulate(f, d, l, r)
     \/ \E d, l, r \in XMM : Accumulate("sub", d, l, r)
     \/ \E d, s \in GP : InPlace("neg", d, s)
     \/ \E d, s \in XMM : InPlace("neg", d, s)
     \/ \E d, s \in GP : BoolNot(d, s)
     \/ \E d, s \in GP : Convert("id", d, s)
     \/ \E d \in GP, s \in XMM : Convert("cvttsi", d, s)
     \/ \E d \in XMM, s \in GP : IntToFloat(d, s)
     \/ \E d, l \in GP, v \in {1, BigImm} : AddImm(d, l, v)
     \/ \E d, l, r \in GP : Shift("shl", d, l, r)
     \/ \E result \in {RAX, RDX}, d, l, r \in GP : DivCommon(result, d, l, r)
     \/ \E d, l, r \in GP, cond \in Conds : CmpSet(cond, d, l, r)
     \/ \E d \in GP, l, r \in XMM, cond \in Conds : FloatCmp(cond, d, l, r)
     \/ \E d \in GP, s \in XMM : FloatCmpNan(d, s)

Next == Generate \/ Execute \/ Return

Spec == Init /\ [][Next]_vars

(***************************************************************************)
(* Properties.                                                              *)
(***************************************************************************)

TypeOK ==
  /\ regs \in [Regs -> Values]
  /\ start \in [Regs -> Values]
  /\ flags \in Flags
  /\ Len(code) <= 5
  /\ phase \in {"emit", "run", "done", "panic", "trap"}

Relation(cond, rel) ==
  CASE cond = "Equal" -> rel = "eq"
    [] cond = "NotEqual" -> rel # "eq"
    [] cond = "Less" -> rel = "lt"
    [] cond = "LessEq" -> rel \in {"lt", "eq"}
    [] cond = "Greater" -> rel = "gt"
    [] cond = "GreaterEq" -> rel \in {"gt", "eq"}

\* The value a three-address operation stands for, of its operands before it.
Meaning(c, s) ==
  LET x == s[c.lhs]
      y == s[c.rhs]
  IN CASE c.name = "binary" -> Alu(c.f, x, y)
       [] c.name = "unary" -> Un(c.f, x)
       [] c.name = "bool_not" -> 1 - x
       [] c.name = "add_imm" -> Alu("add", x, c.rhs)
       [] c.name = "div" -> IF c.f = RAX THEN Quot(Sign(x), x, y) ELSE Rem(Sign(x), x, y)
       [] c.name = "cmp_set" -> Bit(Holds(c.f, CmpFlags(x, y)))
       [] c.name = "float_cmp" -> Bit(Relation(c.f, FRel(x, y)))
       [] c.name = "float_cmp_nan" -> Bit(FRel(x, x) = "un")

\* The operands no assertion refuses although the operation's own scratch or fixed
\* register is one of them.
Clash(c) ==
  \/ c.name = "div" /\ c.rhs = RDX
  \/ c.name = "add_imm" /\ c.rhs = BigImm /\ c.lhs = R11
  \/ c.name = "float_cmp" /\ c.f \in {"Equal", "NotEqual"} /\ c.dest = R11

Boolean(c) == c.name = "bool_not" => start[c.lhs] \in {0, 1}

\* What the clashes compute instead: a division divides by the sign of its dividend
\* (543 after 537), a wide addition adds the immediate to itself (575-582), and an
\* equality answers only whether the operands are ordered (413-430).
ClashMeaning(c, s) ==
  LET x == s[c.lhs]
      h == Sign(x)
  IN CASE c.name = "div" -> IF c.f = RAX THEN Quot(h, x, h) ELSE Rem(h, x, h)
       [] c.name = "add_imm" -> Alu("add", BigImm, BigImm)
       [] c.name = "float_cmp" -> Bit((FRel(x, s[c.rhs]) = "un") <=> (c.f = "NotEqual"))

\* Whatever registers coincide, the code an operation emits leaves in dest what the
\* operation means, except for the clashes, and faults only where the division
\* itself is undefined (assembler_x64.rs 64-217, 259-776).
ResultRight ==
  /\ phase = "done" =>
       IF Clash(call) THEN regs[call.dest] = ClashMeaning(call, start)
       ELSE Boolean(call) => regs[call.dest] = Meaning(call, start)
  /\ phase = "trap" /\ ~Clash(call) =>
       DivTraps(Sign(start[call.lhs]), start[call.lhs], start[call.rhs])

\* The registers an operation may change besides dest: the operand it computes in
\* and the registers fixed by its instructions.
Clobbered(c) ==
  CASE c.name = "binary" -> {c.lhs} \cup (IF c.f = "shl" THEN {RCX} ELSE {})
    [] c.name = "unary" -> IF c.f = "neg" THEN {c.lhs} ELSE {}
    [] c.name = "bool_not" -> {c.lhs}
    [] c.name = "add_imm" -> {c.lhs} \cup (IF c.rhs = BigImm THEN {R11} ELSE {})
    [] c.name = "div" -> {RAX, RDX}
    [] c.name = "float_cmp" -> IF c.f \in {"Equal", "NotEqual"} THEN {R11} ELSE {}
    [] OTHER -> {}

\* No operation disturbs a register the code generator believes it leaves alone:
\* the allocator may keep values in every register but dest and these, whatever
\* registers coincide (assembler_x64.rs 64-217, 259-776).
KeepsOthers ==
  phase \in {"run", "done", "trap"} =>
    \A r \in Regs \ ({call.dest} \cup Clobbered(call)) : regs[r] = start[r]
=============================================================================
