-------------------------------- MODULE Masm --------------------------------
(***************************************************************************)
(* The macro assembler (src/src/asm.rs) and the code it emits for entering  *)
(* compiled code from outside (entry_stub in src/src/stubs.rs), run one     *)
(* instruction at a time.                                                   *)
(*                                                                          *)
(* The emitters encode what they are asked for (module Encoding), and take  *)
(* the source before the destination.  The image is taken without           *)
(* fix_forward_jumps, so a jump to a label that is bound later keeps the    *)
(* displacement 0 and goes to the next instruction.                         *)
(*                                                                          *)
(* A word is an offset in bytes to a base: a number has the base "number".  *)
(* What a word that is no number nor address becomes under arithmetic is    *)
(* not told apart.                                                          *)
(***************************************************************************)
EXTENDS Integers, Sequences, SequencesExt

CONSTANTS
  MaxArgs,   \* bound on the arguments of the code entered
  Size       \* bytes asked of Masm::allocate

ASSUME ArgsAssumption == MaxArgs \in Nat /\ Size \in Nat

VARIABLES
  task,    \* what is run: the entry stub or a piece of code built from Masm's parts
  pc,      \* the next instruction
  regs,    \* the general registers
  equal,   \* the zero flag
  stack,   \* the words pushed, by their offset
  state,   \* "runs", "end", or "fault": memory that is not there
  called   \* history: registers and stack at the call

vars == <<task, pc, regs, equal, stack, state, called>>

Regs == 0..15
RAX == 0    RCX == 1    RDX == 2    RBX == 3    RSP == 4    RBP == 5
RSI == 6    RDI == 7    R11 == 11   R12 == 12   R13 == 13   R14 == 14   R15 == 15

CONTEXT_REG == RSI
ROOT_REG    == RDI
SCRATCH     == R14

(***************************************************************************)
(* Instructions.                                                            *)
(***************************************************************************)

Mov(src, dest)    == <<"mov", src, dest>>
Imm(n, dest)      == <<"imm", n, dest>>
Add(src, dest)    == <<"add", src, dest>>
AddImm(n, dest)   == <<"addimm", n, dest>>
Shl(n, dest)      == <<"shl", n, dest>>
ShrOne(dest)      == <<"shr", 1, dest>>
Xor(src, dest)    == <<"xor", src, dest>>
Load(base, dest)  == <<"load", base, dest>>
Cmp(x, y)         == <<"cmp", x, y>>
Test(x, y)        == <<"test", x, y>>
JumpIf(when, lbl) == <<"jump", when, lbl>>
Label(lbl)        == <<"label", lbl>>
Push(r)           == <<"push", r>>
Pop(r)            == <<"pop", r>>
Call(r)           == <<"call", r>>
Ret               == <<"ret">>

Always == BOOLEAN
OnEqual == {TRUE}
OnNotEqual == {FALSE}

(***************************************************************************)
(* The parts of Masm.                                                       *)
(***************************************************************************)

Prologue == <<Push(RBP), Mov(RSP, RBP)>>
Epilogue == <<Mov(RBP, RSP), Pop(RBP), Ret>>

UntagForgotten(r) == <<>>
Untag(r)     == <<ShrOne(r)>>
TagNumber(r) == <<Shl(1, r)>>

\* The registers of pushad, in its order.
Pushed == <<RAX, RBX, RCX, RDX, 8, 9, 10, R11, R12, R13, ROOT_REG, CONTEXT_REG>>

Pushad == [i \in DOMAIN Pushed |-> Push(Pushed[i])]

PreservePop(src, r) == Pop(IF src = r THEN SCRATCH ELSE src)

PopadSameOrder(r) == [i \in DOMAIN Pushed |-> PreservePop(Pushed[i], r)]

\* popad: r keeps its value, and the word pushed for it goes to the scratch register.
Popad(r) == [i \in DOMAIN Pushed |-> PreservePop(Reverse(Pushed)[i], r)]

kNoRegister == -1
Tag == 3

\* allocate: the arguments of a stub that is not called yet (its TODO).
Allocate(sizeReg, result) ==
  (IF result # RAX THEN <<Push(RAX), Push(RAX)>> ELSE <<>>)
  \o (IF sizeReg = kNoRegister THEN <<Imm(2 * (Size + 8), RAX)>>
      ELSE <<Mov(sizeReg, RAX)>> \o Untag(RAX) \o <<AddImm(8, RAX)>> \o TagNumber(RAX))
  \o <<Push(RAX), Imm(2 * Tag, RAX), Push(RAX)>>
  \o (IF result # RAX THEN <<Mov(RAX, result), Pop(RAX), Pop(RAX)>> ELSE <<>>)

(***************************************************************************)
(* The entry stub: the code in RDI, a tagged number of arguments in RSI,    *)
(* their address in RDX.                                                    *)
(***************************************************************************)

Kept == <<RBP, RBX, R11, R12, R13, R14, R15>>

Cleared == <<RAX, RBX, RCX, RDX, 8, 9, 10, R11, R12, R13, R14, R15>>

PushArguments ==
  <<Mov(RSI, SCRATCH)>> \o Untag(SCRATCH)
  \o <<Imm(1, RAX), Test(SCRATCH, RAX), JumpIf(OnEqual, "even"),
       Imm(0, RAX), Push(RAX), Label("even"),
       Mov(SCRATCH, RBX), Shl(3, RBX), Add(RDX, RBX), JumpIf(Always, "args_loop"),
       Label("args"), AddImm(-8, RBX), Load(RBX, RAX), Push(RAX),
       Label("args_loop"), Cmp(RBX, RDX), JumpIf(OnNotEqual, "args")>>

Unwind ==
  Untag(RSI)
  \o <<Push(R15), Imm(1, R15), Test(RSI, R15), Pop(R15), JumpIf(OnEqual, "unwind_even"),
       AddImm(1, RSI), Label("unwind_even"), Shl(3, RSI), Add(RSP, RSI), Xor(RSI, RSI)>>

EntryStub ==
  Prologue \o <<Mov(ROOT_REG, RDI)>>
  \o [i \in DOMAIN Kept |-> Push(Kept[i])]
  \o PushArguments
  \o [i \in DOMAIN Cleared |-> Xor(Cleared[i], Cleared[i])]
  \o <<Mov(RSI, RAX), Mov(RDI, SCRATCH), Call(SCRATCH)>>
  \o Unwind
  \o [i \in DOMAIN Kept |-> Pop(Reverse(Kept)[i])]
  \o Epilogue

\* Beside the stub: registers saved around a call, an allocation, and an allocation
\* while registers are saved.
Program ==
  CASE task.kind = "stub" -> EntryStub
    [] task.kind = "save" -> Pushad \o <<Call(SCRATCH)>> \o Popad(task.result)
    [] task.kind = "allocate" -> Allocate(task.size, task.result)
    [] task.kind = "both" -> Pushad \o Allocate(task.size, task.result) \o Popad(task.result)

(***************************************************************************)
(* The processor.                                                           *)
(***************************************************************************)

Word(base, off) == [base |-> base, off |-> off]
Num(n) == Word("number", n)
Unknown == Word("unknown", 0)
IsNum(w) == w.base = "number"

Plus(v, w) ==
  CASE IsNum(w) -> [v EXCEPT !.off = @ + w.off]
    [] IsNum(v) -> [w EXCEPT !.off = @ + v.off]
    [] OTHER -> Unknown

\* The shifts in use.
Power(n) == CASE n = 1 -> 2 [] n = 3 -> 8

Scaled(w, n) == IF IsNum(w) THEN Num(w.off * n) ELSE Unknown
Halved(w) == IF IsNum(w) THEN Num(w.off \div 2) ELSE Unknown

\* The words in memory: those pushed, the return address, the argument array.
Caller(r) == Word("caller", r)
ReturnAddress == Word("return", 0)
Argument(i) == Word("argument", i)

Arguments == IF task.kind = "stub" THEN [i \in 1..task.argc |-> Argument(i)] ELSE <<>>

Mapped(a) ==
  \/ a.base = "stack" /\ a.off \in DOMAIN stack
  \/ a.base = "argv" /\ a.off >= 0 /\ a.off < 8 * Len(Arguments)

Read(a) == IF a.base = "stack" THEN stack[a.off] ELSE Arguments[a.off \div 8 + 1]

Running(op) == state = "runs" /\ pc \in DOMAIN Program /\ Program[pc][1] = op
Current == Program[pc]

Result ==
  LET x == Current[2]
      y == Current[3]
  IN CASE Current[1] = "mov" -> regs[x]
       [] Current[1] = "imm" -> Num(x)
       [] Current[1] = "add" -> Plus(regs[y], regs[x])
       [] Current[1] = "addimm" -> Plus(regs[y], Num(x))
       [] Current[1] = "shl" -> Scaled(regs[y], Power(x))
       [] Current[1] = "shr" -> Halved(regs[y])
       [] Current[1] = "xor" -> IF x = y THEN Num(0) ELSE Unknown

Compute ==
  /\ \E op \in {"mov", "imm", "add", "addimm", "shl", "shr", "xor"} : Running(op)
  /\ regs' = [regs EXCEPT ![Current[3]] = Result]
  /\ pc' = pc + 1
  /\ UNCHANGED <<task, equal, stack, state, called>>

Compare ==
  /\ \/ Running("cmp") /\ equal' = (regs[Current[2]] = regs[Current[3]])
     \/ Running("test") /\ equal' = (regs[Current[2]].off % 2 = 0)
  /\ pc' = pc + 1
  /\ UNCHANGED <<task, regs, stack, state, called>>

Bound(lbl) == CHOOSE i \in DOMAIN Program : Program[i] = Label(lbl)

Jump ==
  /\ Running("jump")
  /\ pc' = IF equal \in Current[2] /\ Bound(Current[3]) < pc THEN Bound(Current[3]) ELSE pc + 1
  /\ UNCHANGED <<task, regs, equal, stack, state, called>>

Skip ==
  /\ Running("label")
  /\ pc' = pc + 1
  /\ UNCHANGED <<task, regs, equal, stack, state, called>>

PushWord ==
  /\ Running("push")
  /\ LET top == regs[RSP].off - 8
     IN /\ stack' = [off \in DOMAIN stack \cup {top} |->
                       IF off = top THEN regs[Current[2]] ELSE stack[off]]
        /\ regs' = [regs EXCEPT ![RSP].off = top]
  /\ pc' = pc + 1
  /\ UNCHANGED <<task, equal, state, called>>

PopWord ==
  /\ Running("pop") /\ Mapped(regs[RSP])
  /\ regs' = [regs EXCEPT ![RSP].off = @ + 8, ![Current[2]] = Read(regs[RSP])]
  /\ pc' = pc + 1
  /\ UNCHANGED <<task, equal, stack, state, called>>

LoadWord ==
  /\ Running("load") /\ Mapped(regs[Current[2]])
  /\ regs' = [regs EXCEPT ![Current[3]] = Read(regs[Current[2]])]
  /\ pc' = pc + 1
  /\ UNCHANGED <<task, equal, stack, state, called>>

Fault ==
  /\ \/ (Running("pop") \/ Running("ret")) /\ ~Mapped(regs[RSP])
     \/ Running("load") /\ ~Mapped(regs[Current[2]])
     \/ Running("ret") /\ Mapped(regs[RSP]) /\ Read(regs[RSP]) # ReturnAddress
  /\ state' = "fault"
  /\ UNCHANGED <<task, pc, regs, equal, stack, called>>

\* The code called leaves the stack and the frame as it found them, and may change any
\* other register, the count in RSI or not.
CallCode ==
  /\ Running("call")
  /\ called' = Append(called, [regs |-> regs, stack |-> stack])
  /\ \E keeps \in {{RSP, RBP}, {RSP, RBP, RSI}} :
       regs' = [r \in Regs |-> IF r \in keeps THEN regs[r] ELSE Word("callee", r)]
  /\ pc' = pc + 1
  /\ UNCHANGED <<task, equal, stack, state>>

End ==
  /\ state = "runs"
  /\ \/ pc \notin DOMAIN Program
     \/ Running("ret") /\ Mapped(regs[RSP]) /\ Read(regs[RSP]) = ReturnAddress
  /\ state' = "end"
  /\ UNCHANGED <<task, pc, regs, equal, stack, called>>

\* The registers the code is entered with.
Start ==
  [r \in Regs |->
     CASE r = RSP -> Word("stack", 0)
       [] task.kind = "stub" /\ r = RDI -> Word("code", 0)
       [] task.kind = "stub" /\ r = RSI -> Num(2 * task.argc)
       [] task.kind = "stub" /\ r = RDX -> Word("argv", 0)
       [] task.kind \in {"allocate", "both"} /\ r = task.size -> Num(2 * Size)
       [] OTHER -> Caller(r)]

Tasks ==
  [kind : {"stub"}, argc : 0..MaxArgs]
  \cup [kind : {"save"}, result : Regs \ {RSP}]
  \cup [kind : {"allocate", "both"}, size : {kNoRegister, RAX, RBX}, result : Regs \ {RSP}]

Init ==
  /\ task \in Tasks
  /\ pc = 1
  /\ regs = Start
  /\ equal \in BOOLEAN
  /\ stack = [off \in {0} |-> ReturnAddress]
  /\ state = "runs"
  /\ called = <<>>

Next ==
  \/ Compute \/ Compare \/ Jump \/ Skip \/ PushWord \/ PopWord \/ LoadWord
  \/ CallCode \/ Fault \/ End

Spec == Init /\ [][Next]_vars

(***************************************************************************)
(* Properties.                                                              *)
(***************************************************************************)

\* The words pushed, the last one first, the return address excepted.
Words(rs, st) ==
  [i \in 1..((-rs[RSP].off) \div 8) |-> st[rs[RSP].off + 8 * (i - 1)]]

\* What the stub saved, the last one first: its own frame pointer, not the caller's,
\* is the one it pushes with the registers.
Saved ==
  <<Caller(R15), Caller(R14), Caller(R13), Caller(R12), Caller(R11), Caller(RBX),
    Word("stack", -8), Caller(RBP)>>

\* The code is entered with its arguments on the stack, the first one on top, with
\* their count in RAX and no address of the caller in any other register, over a word
\* of padding that an even number of arguments gets too; without
\* arguments it is not entered: the loop starts below the array (stubs.rs 36-48).
ArgumentsPushed ==
  task.kind = "stub" =>
    /\ \A c \in ToSet(called) :
         /\ task.argc > 0
         /\ Words(c.regs, c.stack) = Arguments \o <<Num(0)>> \o Saved
         /\ c.regs[RAX] = Num(2 * task.argc)
         /\ \A r \in ToSet(Cleared) \ {RAX, SCRATCH} : c.regs[r] = Num(0)
    /\ called = <<>> /\ state = "fault" => task.argc = 0

\* The words an allocation leaves on the stack, the last one first.
LeftBehind ==
  CASE task.kind = "save" -> <<>>
    [] task.kind # "save" /\ task.result = RAX -> <<Num(2 * Tag), Num(2 * (Size + 8))>>
    [] OTHER -> <<Start[RAX], Start[RAX]>>

\* Where the words that popad pops come from.
Popped == LeftBehind \o [i \in DOMAIN Pushed |-> Start[Reverse(Pushed)[i]]]

\* Registers come back as they were saved unless words were left in between, and then
\* they are off by exactly those.  popad gives every register but its own what
\* pushad saved, and the scratch register what was saved for its own (asm.rs
\* 120-156), but an allocation leaves two words, so that around one every register
\* gets that of two places before (asm.rs 165-197).  The stub leaves its arguments and
\* their padding (stubs.rs 68-87): its frame pointer becomes the seventh word, and
\* it never returns.
RegistersComeBack ==
  /\ task.kind \in {"allocate", "save", "both"} =>
       /\ state # "fault"
       /\ state = "end" => regs[RSP].off = -8 * Len(LeftBehind)
  /\ task.kind \in {"save", "both"} /\ state = "end" =>
       \A i \in DOMAIN Pushed :
         LET r == Reverse(Pushed)[i]
         IN regs[IF r = task.result THEN SCRATCH ELSE r] = Popped[i]
  /\ task.kind = "allocate" /\ state = "end" =>
       /\ Words(regs, stack) = LeftBehind
       /\ regs[task.result] = Num(2 * Tag)
  /\ task.kind = "stub" =>
       /\ state # "end"
       /\ state = "fault" => \A c \in ToSet(called) :
            LET words == Words(c.regs, c.stack) IN
            /\ \A i \in 1..6 : regs[Reverse(Kept)[i]] = words[i]
            /\ regs[RSP] = words[7]
=============================================================================
