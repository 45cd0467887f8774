----------------------------- MODULE MasmProofs -----------------------------
(***************************************************************************)
(* What TLAPS proves about Masm, for any number of arguments and any size  *)
(* asked for: the entry stub pushes its arguments (ArgumentsPushed), and   *)
(* what becomes of the registers that the stub, pushad and allocate save   *)
(* (RegistersComeBack).                                                    *)
(*                                                                         *)
(* The argument: the code is a list of pieces joined together, and every   *)
(* instruction of it is named by its place (StubIs, PartIs).  One lemma    *)
(* per instruction says what executing it changes (StepMov, StepPush,      *)
(* ...).  IInv says for every place what the stack and the registers in    *)
(* use hold there: the stack is the first words of Frame for the stub,     *)
(* which has an argument in every word above the ninth, and of Laid for    *)
(* the other pieces.  In the loop of the stub m of the arguments are       *)
(* pushed, the last ones of the array (PushingOne).                        *)
(*                                                                         *)
(* Between the places of a stretch, and from one stretch to the next, IInv *)
(* is kept: by SavingSteps, CountingSteps, ... for the stub, and by        *)
(* SavingAllSteps, AllocatingSteps, ... for the others.  The stub goes     *)
(* wrong at its very end: its stack is then the frame pointer that was     *)
(* popped from among the arguments or the words saved, the seventh word at *)
(* the call, which is no address it could pop from (LostFrame).            *)
(***************************************************************************)
EXTENDS Masm, TLAPS

(***************************************************************************)
(* Pieces of code.                                                         *)
(***************************************************************************)

\* u is a piece of m instructions.
IsCode(u, m) == m \in Nat /\ DOMAIN u = 1..m /\ u = [i \in 1..m |-> u[i]]

\* The piece u stands in v after the first k instructions.
Stands(u, m, v, k) == \A i \in 1..m : v[k + i] = u[i]

\* Two pieces joined are a piece, in which the second follows the first.
LEMMA Joined ==
  ASSUME NEW u, NEW v, NEW m, NEW n, IsCode(u, m), IsCode(v, n)
  PROVE  /\ IsCode(u \o v, m + n)
         /\ \A i \in 1..m : (u \o v)[i] = u[i]
         /\ Stands(v, n, u \o v, m)
<1> DEFINE S == {u[i] : i \in 1..m} \cup {v[i] : i \in 1..n}
<1>1. m \in Nat /\ n \in Nat
  BY DEF IsCode
<1>2. u \in [1..m -> S] /\ v \in [1..n -> S]
  BY DEF IsCode
<1>3. u \in Seq(S) /\ Len(u) = m /\ v \in Seq(S) /\ Len(v) = n
  <2> HIDE DEF S
  <2> QED BY <1>1, <1>2
<1>4. u \o v \in Seq(S) /\ Len(u \o v) = m + n
      /\ (\A i \in 1..m : (u \o v)[i] = u[i])
      /\ (\A i \in 1..n : (u \o v)[m + i] = v[i])
  <2> HIDE DEF S
  <2> QED BY <1>1, <1>3
<1>5. IsCode(u \o v, m + n)
  <2> DEFINE w == u \o v
             k == m + n
  <2>1. w \in Seq(S) /\ Len(w) = k /\ k \in Nat
    BY <1>1, <1>4
  <2> HIDE DEF w, k, S
  <2>2. w = [i \in 1..Len(w) |-> w[i]] /\ DOMAIN w = 1..Len(w)
    BY <2>1
  <2>3. IsCode(w, k)
    BY <2>1, <2>2 DEF IsCode
  <2> QED BY <2>3 DEF w, k
<1> QED BY <1>4, <1>5 DEF Stands

\* What stood in u still stands when v is joined to it.
LEMMA StillStands ==
  ASSUME NEW t, NEW j, NEW k, NEW u, NEW m, NEW v, NEW n, IsCode(u, m), IsCode(v, n),
         j \in Nat, k \in Nat, k + j <= m, Stands(t, j, u, k)
  PROVE  Stands(t, j, u \o v, k)
<1> SUFFICES ASSUME NEW i \in 1..j PROVE (u \o v)[k + i] = t[i]
  BY DEF Stands
<1>1. m \in Nat
  BY DEF IsCode
<1>2. k + i \in 1..m
  BY <1>1
<1>3. (u \o v)[k + i] = u[k + i]
  BY <1>2, Joined
<1> QED BY <1>3 DEF Stands

(***************************************************************************)
(* The pieces of the stub.                                                 *)
(***************************************************************************)

\* The registers that the stub keeps (stubs.rs 14-20), in their order and in the reverse one.
LEMMA KeptAre ==
  /\ IsCode(Kept, 7) /\ Kept[1] = RBP /\ Kept[2] = RBX /\ Kept[3] = R11 /\ Kept[4] = R12
  /\ Kept[5] = R13 /\ Kept[6] = R14 /\ Kept[7] = R15
  /\ IsCode(Reverse(Kept), 7) /\ \A i \in 1..7 : Reverse(Kept)[i] = Kept[8 - i]
<1>1. IsCode(Kept, 7) /\ Kept[1] = RBP /\ Kept[2] = RBX /\ Kept[3] = R11 /\ Kept[4] = R12
      /\ Kept[5] = R13 /\ Kept[6] = R14 /\ Kept[7] = R15
  BY DEF IsCode, Kept
<1>2. Kept \in Seq({Kept[i] : i \in 1..7})
  BY <1>1 DEF IsCode
<1>3. Len(Kept) = 7
  BY <1>1, <1>2 DEF IsCode
<1>4. IsCode(Reverse(Kept), 7)
  BY <1>3 DEF IsCode, Reverse
<1>5. \A i \in 1..7 : Reverse(Kept)[i] = Kept[8 - i]
  BY <1>3 DEF Reverse
<1> QED BY <1>1, <1>4, <1>5

\* The registers that the stub clears before the call.
LEMMA ClearedAre ==
  /\ IsCode(Cleared, 12) /\ Cleared[1] = RAX /\ Cleared[2] = RBX /\ Cleared[3] = RCX /\ Cleared[4] = RDX
  /\ Cleared[5] = 8 /\ Cleared[6] = 9 /\ Cleared[7] = 10 /\ Cleared[8] = R11 /\ Cleared[9] = R12
  /\ Cleared[10] = R13 /\ Cleared[11] = R14 /\ Cleared[12] = R15
BY DEF IsCode, Cleared

\* The pieces of the stub: the call, the registers kept and those cleared, the arguments and
\* what is to take them off again.
CallIt == <<Mov(RSI, RAX), Mov(RDI, SCRATCH), Call(SCRATCH)>>
PushKept == [i \in DOMAIN Kept |-> Push(Kept[i])]
PopKept == [i \in DOMAIN Kept |-> Pop(Reverse(Kept)[i])]
Clear == [i \in DOMAIN Cleared |-> Xor(Cleared[i], Cleared[i])]
PushThem ==
  <<Imm(1, RAX), Test(SCRATCH, RAX), JumpIf(OnEqual, "even"),
    Imm(0, RAX), Push(RAX), Label("even"),
    Mov(SCRATCH, RBX), Shl(3, RBX), Add(RDX, RBX), JumpIf(Always, "args_loop"),
    Label("args"), AddImm(-8, RBX), Load(RBX, RAX), Push(RAX),
    Label("args_loop"), Cmp(RBX, RDX), JumpIf(OnNotEqual, "args")>>
Back ==
  <<Push(R15), Imm(1, R15), Test(RSI, R15), Pop(R15), JumpIf(OnEqual, "unwind_even"),
    AddImm(1, RSI), Label("unwind_even"), Shl(3, RSI), Add(RSP, RSI), Xor(RSI, RSI)>>

\* The stub is made of pieces of these lengths.
LEMMA PiecesAre ==
  /\ IsCode(Prologue, 2) /\ IsCode(<<Mov(ROOT_REG, RDI)>>, 1) /\ IsCode(PushKept, 7)
  /\ IsCode(Clear, 12) /\ IsCode(CallIt, 3) /\ IsCode(PopKept, 7) /\ IsCode(Epilogue, 3)
  /\ IsCode(<<Mov(RSI, SCRATCH)>>, 1) /\ IsCode(<<ShrOne(SCRATCH)>>, 1) /\ IsCode(PushThem, 17)
  /\ IsCode(<<ShrOne(RSI)>>, 1) /\ IsCode(Back, 10)
<1>1. IsCode(Prologue, 2) /\ IsCode(<<Mov(ROOT_REG, RDI)>>, 1)
  BY DEF IsCode, Prologue
<1>2. IsCode(PushKept, 7) /\ IsCode(PopKept, 7)
  BY KeptAre DEF IsCode, PushKept, PopKept
<1>3. IsCode(Clear, 12)
  BY ClearedAre DEF IsCode, Clear
<1>4. IsCode(CallIt, 3) /\ IsCode(Epilogue, 3) /\ IsCode(<<ShrOne(RSI)>>, 1)
  BY DEF IsCode, CallIt, Epilogue
<1>5. IsCode(<<Mov(RSI, SCRATCH)>>, 1) /\ IsCode(<<ShrOne(SCRATCH)>>, 1) /\ IsCode(PushThem, 17)
  BY DEF IsCode, PushThem
<1>6. IsCode(Back, 10)
  BY DEF IsCode, Back
<1> QED BY <1>1, <1>2, <1>3, <1>4, <1>5, <1>6

\* Pushing the arguments begins with their count.
LEMMA PushArgumentsAre ==
  /\ IsCode(PushArguments, 19) /\ PushArguments[1] = Mov(RSI, SCRATCH) /\ PushArguments[2] = ShrOne(SCRATCH)
  /\ Stands(PushThem, 17, PushArguments, 2)
<1> DEFINE u == <<Mov(RSI, SCRATCH)>>
           v == <<ShrOne(SCRATCH)>>
<1>1. IsCode(u, 1) /\ IsCode(v, 1) /\ IsCode(PushThem, 17)
  BY PiecesAre
<1>2. u[1] = Mov(RSI, SCRATCH) /\ v[1] = ShrOne(SCRATCH)
  OBVIOUS
<1>3. PushArguments = (u \o v) \o PushThem
  BY DEF PushArguments, PushThem, Untag
<1> HIDE DEF u, v
<1>4. IsCode(u \o v, 2) /\ (u \o v)[1] = u[1] /\ (u \o v)[2] = v[1]
  <2>1. 1 + 1 = 2 /\ 1 \in 1..1
    OBVIOUS
  <2>2. IsCode(u \o v, 1 + 1) /\ (\A i \in 1..1 : (u \o v)[i] = u[i]) /\ Stands(v, 1, u \o v, 1)
    BY <1>1, Joined
  <2> QED BY <2>1, <2>2 DEF Stands
<1> DEFINE w == u \o v
<1> HIDE DEF w
<1>5. IsCode(w, 2) /\ w[1] = Mov(RSI, SCRATCH) /\ w[2] = ShrOne(SCRATCH)
  BY <1>2, <1>4 DEF w
<1>6. IsCode(w \o PushThem, 2 + 17) /\ (\A i \in 1..2 : (w \o PushThem)[i] = w[i]) /\ Stands(PushThem, 17, w \o PushThem, 2)
  <2>1. IsCode(w, 2) /\ IsCode(PushThem, 17)
    BY <1>1, <1>5
  <2> QED BY <2>1, Joined
<1>7. PushArguments = w \o PushThem
  BY <1>3 DEF w
<1>8. 2 + 17 = 19 /\ 1 \in 1..2 /\ 2 \in 1..2
  OBVIOUS
<1> QED BY <1>5, <1>6, <1>7, <1>8

\* So does taking them off.
LEMMA UnwindIs ==
  /\ IsCode(Unwind, 11) /\ Unwind[1] = ShrOne(RSI) /\ Stands(Back, 10, Unwind, 1)
<1> DEFINE u == <<ShrOne(RSI)>>
<1>1. IsCode(u, 1) /\ IsCode(Back, 10)
  BY PiecesAre
<1>2. u[1] = ShrOne(RSI)
  OBVIOUS
<1>3. Unwind = u \o Back
  BY DEF Unwind, Back, Untag
<1> HIDE DEF u
<1>4. IsCode(u \o Back, 1 + 10) /\ (\A i \in 1..1 : (u \o Back)[i] = u[i]) /\ Stands(Back, 10, u \o Back, 1)
  BY <1>1, Joined
<1>5. 1 + 10 = 11 /\ 1 \in 1..1
  OBVIOUS
<1> QED BY <1>2, <1>3, <1>4, <1>5

\* Where the pieces stand in the stub.
LEMMA StubIs ==
  /\ IsCode(EntryStub, 65)
  /\ Stands(Prologue, 2, EntryStub, 0) /\ EntryStub[3] = Mov(ROOT_REG, RDI) /\ Stands(PushKept, 7, EntryStub, 3)
  /\ Stands(PushArguments, 19, EntryStub, 10) /\ Stands(Clear, 12, EntryStub, 29)
  /\ Stands(CallIt, 3, EntryStub, 41) /\ Stands(Unwind, 11, EntryStub, 44)
  /\ Stands(PopKept, 7, EntryStub, 55) /\ Stands(Epilogue, 3, EntryStub, 62)
<1> DEFINE m == <<Mov(ROOT_REG, RDI)>>
           t1 == Prologue \o m
           t2 == t1 \o PushKept
           t3 == t2 \o PushArguments
           t4 == t3 \o Clear
           t5 == t4 \o CallIt
           t6 == t5 \o Unwind
           t7 == t6 \o PopKept
           t8 == t7 \o Epilogue
<1>1. m[1] = Mov(ROOT_REG, RDI) /\ IsCode(m, 1)
  BY PiecesAre
<1>2. EntryStub = t8
  BY DEF EntryStub, PushKept, Clear, CallIt, PopKept
<1> HIDE DEF m
<1>3. Stands(Prologue, 2, Prologue, 0)
  BY DEF Stands
<1> HIDE DEF t1, t2, t3, t4, t5, t6, t7, t8
<1>4. /\ IsCode(t1, 3)
      /\ Stands(Prologue, 2, t1, 0)
      /\ Stands(m, 1, t1, 2)
  <2>1. IsCode(Prologue, 2) /\ IsCode(m, 1)
    BY <1>1, <1>3, PiecesAre, PushArgumentsAre, UnwindIs
  <2>2. IsCode(Prologue \o m, 2 + 1) /\ Stands(m, 1, Prologue \o m, 2)
    BY <2>1, Joined
  <2>3. 2 + 1 = 3
    OBVIOUS
  <2>4. Stands(Prologue, 2, Prologue \o m, 0)
    <3>1. 2 \in Nat /\ 0 \in Nat /\ 0 + 2 <= 2
      OBVIOUS
    <3> QED BY <2>1, <1>3, <1>3, <3>1, StillStands
  <2> QED BY <2>2, <2>3, <2>4 DEF t1
<1>5. /\ IsCode(t2, 10)
      /\ Stands(Prologue, 2, t2, 0)
      /\ Stands(m, 1, t2, 2)
      /\ Stands(PushKept, 7, t2, 3)
  <2>1. IsCode(t1, 3) /\ IsCode(PushKept, 7)
    BY <1>1, <1>4, PiecesAre, PushArgumentsAre, UnwindIs
  <2>2. IsCode(t1 \o PushKept, 3 + 7) /\ Stands(PushKept, 7, t1 \o PushKept, 3)
    BY <2>1, Joined
  <2>3. 3 + 7 = 10
    OBVIOUS
  <2>4. Stands(Prologue, 2, t1 \o PushKept, 0)
    <3>1. 2 \in Nat /\ 0 \in Nat /\ 0 + 2 <= 3
      OBVIOUS
    <3> QED BY <2>1, <1>3, <1>4, <3>1, StillStands
  <2>5. Stands(m, 1, t1 \o PushKept, 2)
    <3>1. 1 \in Nat /\ 2 \in Nat /\ 2 + 1 <= 3
      OBVIOUS
    <3> QED BY <2>1, <1>3, <1>4, <3>1, StillStands
  <2> QED BY <2>2, <2>3, <2>4, <2>5 DEF t2
<1>6. /\ IsCode(t3, 29)
      /\ Stands(Prologue, 2, t3, 0)
      /\ Stands(m, 1, t3, 2)
      /\ Stands(PushKept, 7, t3, 3)
      /\ Stands(PushArguments, 19, t3, 10)
  <2>1. IsCode(t2, 10) /\ IsCode(PushArguments, 19)
    BY <1>1, <1>5, PiecesAre, PushArgumentsAre, UnwindIs
  <2>2. IsCode(t2 \o PushArguments, 10 + 19) /\ Stands(PushArguments, 19, t2 \o PushArguments, 10)
    BY <2>1, Joined
  <2>3. 10 + 19 = 29
    OBVIOUS
  <2>4. Stands(Prologue, 2, t2 \o PushArguments, 0)
    <3>1. 2 \in Nat /\ 0 \in Nat /\ 0 + 2 <= 10
      OBVIOUS
    <3> QED BY <2>1, <1>3, <1>5, <3>1, StillStands
  <2>5. Stands(m, 1, t2 \o PushArguments, 2)
    <3>1. 1 \in Nat /\ 2 \in Nat /\ 2 + 1 <= 10
      OBVIOUS
    <3> QED BY <2>1, <1>3, <1>5, <3>1, StillStands
  <2>6. Stands(PushKept, 7, t2 \o PushArguments, 3)
    <3>1. 7 \in Nat /\ 3 \in Nat /\ 3 + 7 <= 10
      OBVIOUS
    <3> QED BY <2>1, <1>3, <1>5, <3>1, StillStands
  <2> QED BY <2>2, <2>3, <2>4, <2>5, <2>6 DEF t3
<1>7. /\ IsCode(t4, 41)
      /\ Stands(Prologue, 2, t4, 0)
      /\ Stands(m, 1, t4, 2)
      /\ Stands(PushKept, 7, t4, 3)
      /\ Stands(PushArguments, 19, t4, 10)
      /\ Stands(Clear, 12, t4, 29)
  <2>1. IsCode(t3, 29) /\ IsCode(Clear, 12)
    BY <1>1, <1>6, PiecesAre, PushArgumentsAre, UnwindIs
  <2>2. IsCode(t3 \o Clear, 29 + 12) /\ Stands(Clear, 12, t3 \o Clear, 29)
    BY <2>1, Joined
  <2>3. 29 + 12 = 41
    OBVIOUS
  <2>4. Stands(Prologue, 2, t3 \o Clear, 0)
    <3>1. 2 \in Nat /\ 0 \in Nat /\ 0 + 2 <= 29
      OBVIOUS
    <3> QED BY <2>1, <1>3, <1>6, <3>1, StillStands
  <2>5. Stands(m, 1, t3 \o Clear, 2)
    <3>1. 1 \in Nat /\ 2 \in Nat /\ 2 + 1 <= 29
      OBVIOUS
    <3> QED BY <2>1, <1>3, <1>6, <3>1, StillStands
  <2>6. Stands(PushKept, 7, t3 \o Clear, 3)
    <3>1. 7 \in Nat /\ 3 \in Nat /\ 3 + 7 <= 29
      OBVIOUS
    <3> QED BY <2>1, <1>3, <1>6, <3>1, StillStands
  <2>7. Stands(PushArguments, 19, t3 \o Clear, 10)
    <3>1. 19 \in Nat /\ 10 \in Nat /\ 10 + 19 <= 29
      OBVIOUS
    <3> QED BY <2>1, <1>3, <1>6, <3>1, StillStands
  <2> QED BY <2>2, <2>3, <2>4, <2>5, <2>6, <2>7 DEF t4
<1>8. /\ IsCode(t5, 44)
      /\ Stands(Prologue, 2, t5, 0)
      /\ Stands(m, 1, t5, 2)
      /\ Stands(PushKept, 7, t5, 3)
      /\ Stands(PushArguments, 19, t5, 10)
      /\ Stands(Clear, 12, t5, 29)
      /\ Stands(CallIt, 3, t5, 41)
  <2>1. IsCode(t4, 41) /\ IsCode(CallIt, 3)
    BY <1>1, <1>7, PiecesAre, PushArgumentsAre, UnwindIs
  <2>2. IsCode(t4 \o CallIt, 41 + 3) /\ Stands(CallIt, 3, t4 \o CallIt, 41)
    BY <2>1, Joined
  <2>3. 41 + 3 = 44
    OBVIOUS
  <2>4. Stands(Prologue, 2, t4 \o CallIt, 0)
    <3>1. 2 \in Nat /\ 0 \in Nat /\ 0 + 2 <= 41
      OBVIOUS
    <3> QED BY <2>1, <1>3, <1>7, <3>1, StillStands
  <2>5. Stands(m, 1, t4 \o CallIt, 2)
    <3>1. 1 \in Nat /\ 2 \in Nat /\ 2 + 1 <= 41
      OBVIOUS
    <3> QED BY <2>1, <1>3, <1>7, <3>1, StillStands
  <2>6. Stands(PushKept, 7, t4 \o CallIt, 3)
    <3>1. 7 \in Nat /\ 3 \in Nat /\ 3 + 7 <= 41
      OBVIOUS
    <3> QED BY <2>1, <1>3, <1>7, <3>1, StillStands
  <2>7. Stands(PushArguments, 19, t4 \o CallIt, 10)
    <3>1. 19 \in Nat /\ 10 \in Nat /\ 10 + 19 <= 41
      OBVIOUS
    <3> QED BY <2>1, <1>3, <1>7, <3>1, StillStands
  <2>8. Stands(Clear, 12, t4 \o CallIt, 29)
    <3>1. 12 \in Nat /\ 29 \in Nat /\ 29 + 12 <= 41
      OBVIOUS
    <3> QED BY <2>1, <1>3, <1>7, <3>1, StillStands
  <2> QED BY <2>2, <2>3, <2>4, <2>5, <2>6, <2>7, <2>8 DEF t5
<1>9. /\ IsCode(t6, 55)
      /\ Stands(Prologue, 2, t6, 0)
      /\ Stands(m, 1, t6, 2)
      /\ Stands(PushKept, 7, t6, 3)
      /\ Stands(PushArguments, 19, t6, 10)
      /\ Stands(Clear, 12, t6, 29)
      /\ Stands(CallIt, 3, t6, 41)
      /\ Stands(Unwind, 11, t6, 44)
  <2>1. IsCode(t5, 44) /\ IsCode(Unwind, 11)
    BY <1>1, <1>8, PiecesAre, PushArgumentsAre, UnwindIs
  <2>2. IsCode(t5 \o Unwind, 44 + 11) /\ Stands(Unwind, 11, t5 \o Unwind, 44)
    BY <2>1, Joined
  <2>3. 44 + 11 = 55
    OBVIOUS
  <2>4. Stands(Prologue, 2, t5 \o Unwind, 0)
    <3>1. 2 \in Nat /\ 0 \in Nat /\ 0 + 2 <= 44
      OBVIOUS
    <3> QED BY <2>1, <1>3, <1>8, <3>1, StillStands
  <2>5. Stands(m, 1, t5 \o Unwind, 2)
    <3>1. 1 \in Nat /\ 2 \in Nat /\ 2 + 1 <= 44
      OBVIOUS
    <3> QED BY <2>1, <1>3, <1>8, <3>1, StillStands
  <2>6. Stands(PushKept, 7, t5 \o Unwind, 3)
    <3>1. 7 \in Nat /\ 3 \in Nat /\ 3 + 7 <= 44
      OBVIOUS
    <3> QED BY <2>1, <1>3, <1>8, <3>1, StillStands
  <2>7. Stands(PushArguments, 19, t5 \o Unwind, 10)
    <3>1. 19 \in Nat /\ 10 \in Nat /\ 10 + 19 <= 44
      OBVIOUS
    <3> QED BY <2>1, <1>3, <1>8, <3>1, StillStands
  <2>8. Stands(Clear, 12, t5 \o Unwind, 29)
    <3>1. 12 \in Nat /\ 29 \in Nat /\ 29 + 12 <= 44
      OBVIOUS
    <3> QED BY <2>1, <1>3, <1>8, <3>1, StillStands
  <2>9. Stands(CallIt, 3, t5 \o Unwind, 41)
    <3>1. 3 \in Nat /\ 41 \in Nat /\ 41 + 3 <= 44
      OBVIOUS
    <3> QED BY <2>1, <1>3, <1>8, <3>1, StillStands
  <2> QED BY <2>2, <2>3, <2>4, <2>5, <2>6, <2>7, <2>8, <2>9 DEF t6
<1>10. /\ IsCode(t7, 62)
      /\ Stands(Prologue, 2, t7, 0)
      /\ Stands(m, 1, t7, 2)
      /\ Stands(PushKept, 7, t7, 3)
      /\ Stands(PushArguments, 19, t7, 10)
      /\ Stands(Clear, 12, t7, 29)
      /\ Stands(CallIt, 3, t7, 41)
      /\ Stands(Unwind, 11, t7, 44)
      /\ Stands(PopKept, 7, t7, 55)
  <2>1. IsCode(t6, 55) /\ IsCode(PopKept, 7)
    BY <1>1, <1>9, PiecesAre, PushArgumentsAre, UnwindIs
  <2>2. IsCode(t6 \o PopKept, 55 + 7) /\ Stands(PopKept, 7, t6 \o PopKept, 55)
    BY <2>1, Joined
  <2>3. 55 + 7 = 62
    OBVIOUS
  <2>4. Stands(Prologue, 2, t6 \o PopKept, 0)
    <3>1. 2 \in Nat /\ 0 \in Nat /\ 0 + 2 <= 55
      OBVIOUS
    <3> QED BY <2>1, <1>3, <1>9, <3>1, StillStands
  <2>5. Stands(m, 1, t6 \o PopKept, 2)
    <3>1. 1 \in Nat /\ 2 \in Nat /\ 2 + 1 <= 55
      OBVIOUS
    <3> QED BY <2>1, <1>3, <1>9, <3>1, StillStands
  <2>6. Stands(PushKept, 7, t6 \o PopKept, 3)
    <3>1. 7 \in Nat /\ 3 \in Nat /\ 3 + 7 <= 55
      OBVIOUS
    <3> QED BY <2>1, <1>3, <1>9, <3>1, StillStands
  <2>7. Stands(PushArguments, 19, t6 \o PopKept, 10)
    <3>1. 19 \in Nat /\ 10 \in Nat /\ 10 + 19 <= 55
      OBVIOUS
    <3> QED BY <2>1, <1>3, <1>9, <3>1, StillStands
  <2>8. Stands(Clear, 12, t6 \o PopKept, 29)
    <3>1. 12 \in Nat /\ 29 \in Nat /\ 29 + 12 <= 55
      OBVIOUS
    <3> QED BY <2>1, <1>3, <1>9, <3>1, StillStands
  <2>9. Stands(CallIt, 3, t6 \o PopKept, 41)
    <3>1. 3 \in Nat /\ 41 \in Nat /\ 41 + 3 <= 55
      OBVIOUS
    <3> QED BY <2>1, <1>3, <1>9, <3>1, StillStands
  <2>10. Stands(Unwind, 11, t6 \o PopKept, 44)
    <3>1. 11 \in Nat /\ 44 \in Nat /\ 44 + 11 <= 55
      OBVIOUS
    <3> QED BY <2>1, <1>3, <1>9, <3>1, StillStands
  <2> QED BY <2>2, <2>3, <2>4, <2>5, <2>6, <2>7, <2>8, <2>9, <2>10 DEF t7
<1>11. /\ IsCode(t8, 65)
      /\ Stands(Prologue, 2, t8, 0)
      /\ Stands(m, 1, t8, 2)
      /\ Stands(PushKept, 7, t8, 3)
      /\ Stands(PushArguments, 19, t8, 10)
      /\ Stands(Clear, 12, t8, 29)
      /\ Stands(CallIt, 3, t8, 41)
      /\ Stands(Unwind, 11, t8, 44)
      /\ Stands(PopKept, 7, t8, 55)
      /\ Stands(Epilogue, 3, t8, 62)
  <2>1. IsCode(t7, 62) /\ IsCode(Epilogue, 3)
    BY <1>1, <1>10, PiecesAre, PushArgumentsAre, UnwindIs
  <2>2. IsCode(t7 \o Epilogue, 62 + 3) /\ Stands(Epilogue, 3, t7 \o Epilogue, 62)
    BY <2>1, Joined
  <2>3. 62 + 3 = 65
    OBVIOUS
  <2>4. Stands(Prologue, 2, t7 \o Epilogue, 0)
    <3>1. 2 \in Nat /\ 0 \in Nat /\ 0 + 2 <= 62
      OBVIOUS
    <3> QED BY <2>1, <1>3, <1>10, <3>1, StillStands
  <2>5. Stands(m, 1, t7 \o Epilogue, 2)
    <3>1. 1 \in Nat /\ 2 \in Nat /\ 2 + 1 <= 62
      OBVIOUS
    <3> QED BY <2>1, <1>3, <1>10, <3>1, StillStands
  <2>6. Stands(PushKept, 7, t7 \o Epilogue, 3)
    <3>1. 7 \in Nat /\ 3 \in Nat /\ 3 + 7 <= 62
      OBVIOUS
    <3> QED BY <2>1, <1>3, <1>10, <3>1, StillStands
  <2>7. Stands(PushArguments, 19, t7 \o Epilogue, 10)
    <3>1. 19 \in Nat /\ 10 \in Nat /\ 10 + 19 <= 62
      OBVIOUS
    <3> QED BY <2>1, <1>3, <1>10, <3>1, StillStands
  <2>8. Stands(Clear, 12, t7 \o Epilogue, 29)
    <3>1. 12 \in Nat /\ 29 \in Nat /\ 29 + 12 <= 62
      OBVIOUS
    <3> QED BY <2>1, <1>3, <1>10, <3>1, StillStands
  <2>9. Stands(CallIt, 3, t7 \o Epilogue, 41)
    <3>1. 3 \in Nat /\ 41 \in Nat /\ 41 + 3 <= 62
      OBVIOUS
    <3> QED BY <2>1, <1>3, <1>10, <3>1, StillStands
  <2>10. Stands(Unwind, 11, t7 \o Epilogue, 44)
    <3>1. 11 \in Nat /\ 44 \in Nat /\ 44 + 11 <= 62
      OBVIOUS
    <3> QED BY <2>1, <1>3, <1>10, <3>1, StillStands
  <2>11. Stands(PopKept, 7, t7 \o Epilogue, 55)
    <3>1. 7 \in Nat /\ 55 \in Nat /\ 55 + 7 <= 62
      OBVIOUS
    <3> QED BY <2>1, <1>3, <1>10, <3>1, StillStands
  <2> QED BY <2>2, <2>3, <2>4, <2>5, <2>6, <2>7, <2>8, <2>9, <2>10, <2>11 DEF t8
<1>12. EntryStub[3] = m[1]
  <2>1. 1 \in 1..1 /\ 2 + 1 = 3
    OBVIOUS
  <2> QED BY <2>1, <1>2, <1>11 DEF Stands
<1> QED BY <1>1, <1>2, <1>11, <1>12

(***************************************************************************)
(* What one instruction does.                                              *)
(***************************************************************************)

\* The instruction that is executed next.
Runs(ins) == state = "runs" /\ pc \in DOMAIN Program /\ Program[pc] = ins

\* The program counter moves on in the same piece of code.
Moves == pc' = pc + 1 /\ UNCHANGED <<task, state>>
\* Nothing but the registers changes.
Computes == Moves /\ UNCHANGED <<equal, stack, called>>

\* Each instruction that is executed next changes exactly this.
LEMMA StepMov ==
  ASSUME NEW x, NEW y, Runs(Mov(x, y)), Next
  PROVE  Computes /\ regs' = [regs EXCEPT ![y] = regs[x]]
BY DEF Runs, Mov, Computes, Moves, Next, Running, Current, Compute, Result, Compare, Jump, Skip, PushWord, PopWord,
       LoadWord, CallCode, Fault, End

LEMMA StepImm ==
  ASSUME NEW n, NEW y, Runs(Imm(n, y)), Next
  PROVE  Computes /\ regs' = [regs EXCEPT ![y] = Num(n)]
BY DEF Runs, Imm, Computes, Moves, Next, Running, Current, Compute, Result, Compare, Jump, Skip, PushWord, PopWord,
       LoadWord, CallCode, Fault, End

LEMMA StepAdd ==
  ASSUME NEW x, NEW y, Runs(Add(x, y)), Next
  PROVE  Computes /\ regs' = [regs EXCEPT ![y] = Plus(regs[y], regs[x])]
BY DEF Runs, Add, Computes, Moves, Next, Running, Current, Compute, Result, Compare, Jump, Skip, PushWord, PopWord,
       LoadWord, CallCode, Fault, End

LEMMA StepAddImm ==
  ASSUME NEW n, NEW y, Runs(AddImm(n, y)), Next
  PROVE  Computes /\ regs' = [regs EXCEPT ![y] = Plus(regs[y], Num(n))]
BY DEF Runs, AddImm, Computes, Moves, Next, Running, Current, Compute, Result, Compare, Jump, Skip, PushWord, PopWord,
       LoadWord, CallCode, Fault, End

LEMMA StepShl ==
  ASSUME NEW n, NEW y, Runs(Shl(n, y)), Next
  PROVE  Computes /\ regs' = [regs EXCEPT ![y] = Scaled(regs[y], Power(n))]
BY DEF Runs, Shl, Computes, Moves, Next, Running, Current, Compute, Result, Compare, Jump, Skip, PushWord, PopWord,
       LoadWord, CallCode, Fault, End

LEMMA StepShr ==
  ASSUME NEW y, Runs(ShrOne(y)), Next
  PROVE  Computes /\ regs' = [regs EXCEPT ![y] = Halved(regs[y])]
BY DEF Runs, ShrOne, Computes, Moves, Next, Running, Current, Compute, Result, Compare, Jump, Skip, PushWord, PopWord,
       LoadWord, CallCode, Fault, End

LEMMA StepClear ==
  ASSUME NEW y, Runs(Xor(y, y)), Next
  PROVE  Computes /\ regs' = [regs EXCEPT ![y] = Num(0)]
BY DEF Runs, Xor, Computes, Moves, Next, Running, Current, Compute, Result, Compare, Jump, Skip, PushWord, PopWord,
       LoadWord, CallCode, Fault, End

LEMMA StepCmp ==
  ASSUME NEW x, NEW y, Runs(Cmp(x, y)), Next
  PROVE  Moves /\ UNCHANGED <<regs, stack, called>> /\ equal' = (regs[x] = regs[y])
BY DEF Runs, Cmp, Moves, Next, Running, Current, Compute, Compare, Jump, Skip, PushWord, PopWord,
       LoadWord, CallCode, Fault, End

LEMMA StepTest ==
  ASSUME NEW x, NEW y, Runs(Test(x, y)), Next
  PROVE  Moves /\ UNCHANGED <<regs, stack, called>> /\ equal' = (regs[x].off % 2 = 0)
BY DEF Runs, Test, Moves, Next, Running, Current, Compute, Compare, Jump, Skip, PushWord, PopWord,
       LoadWord, CallCode, Fault, End

LEMMA StepJump ==
  ASSUME NEW when, NEW lbl, Runs(JumpIf(when, lbl)), Next
  PROVE  /\ UNCHANGED <<task, regs, equal, stack, state, called>>
         /\ pc' = IF equal \in when /\ Bound(lbl) < pc THEN Bound(lbl) ELSE pc + 1
BY DEF Runs, JumpIf, Next, Running, Current, Compute, Compare, Jump, Skip, PushWord, PopWord,
       LoadWord, CallCode, Fault, End

LEMMA StepLabel ==
  ASSUME NEW lbl, Runs(Label(lbl)), Next
  PROVE  Computes /\ UNCHANGED regs
BY DEF Runs, Label, Computes, Moves, Next, Running, Current, Compute, Compare, Jump, Skip, PushWord, PopWord,
       LoadWord, CallCode, Fault, End

LEMMA StepPush ==
  ASSUME NEW r, Runs(Push(r)), Next, NEW top, top = regs[RSP].off - 8
  PROVE  /\ Moves /\ UNCHANGED <<equal, called>>
         /\ stack' = [off \in DOMAIN stack \cup {top} |-> IF off = top THEN regs[r] ELSE stack[off]]
         /\ regs' = [regs EXCEPT ![RSP].off = top]
BY DEF Runs, Push, Moves, Next, Running, Current, Compute, Compare, Jump, Skip, PushWord, PopWord,
       LoadWord, CallCode, Fault, End

LEMMA StepPop ==
  ASSUME NEW r, Runs(Pop(r)), Next
  PROVE  \/ /\ Mapped(regs[RSP]) /\ Computes
            /\ regs' = [regs EXCEPT ![RSP].off = @ + 8, ![r] = Read(regs[RSP])]
         \/ ~Mapped(regs[RSP]) /\ state' = "fault" /\ UNCHANGED <<task, pc, regs, equal, stack, called>>
BY DEF Runs, Pop, Computes, Moves, Next, Running, Current, Compute, Compare, Jump, Skip, PushWord, PopWord,
       LoadWord, CallCode, Fault, End

LEMMA StepLoad ==
  ASSUME NEW x, NEW y, Runs(Load(x, y)), Next
  PROVE  \/ Mapped(regs[x]) /\ Computes /\ regs' = [regs EXCEPT ![y] = Read(regs[x])]
         \/ ~Mapped(regs[x]) /\ state' = "fault" /\ UNCHANGED <<task, pc, regs, equal, stack, called>>
BY DEF Runs, Load, Computes, Moves, Next, Running, Current, Compute, Compare, Jump, Skip, PushWord, PopWord,
       LoadWord, CallCode, Fault, End

LEMMA StepCall ==
  ASSUME NEW r, Runs(Call(r)), Next
  PROVE  /\ Moves /\ UNCHANGED <<equal, stack>>
         /\ called' = Append(called, [regs |-> regs, stack |-> stack])
         /\ \E keeps \in {{RSP, RBP}, {RSP, RBP, RSI}} :
              regs' = [s \in Regs |-> IF s \in keeps THEN regs[s] ELSE Word("callee", s)]
BY DEF Runs, Call, Moves, Next, Running, Current, Compute, Compare, Jump, Skip, PushWord, PopWord,
       LoadWord, CallCode, Fault, End

\* Past its last instruction, a piece of code ends.
LEMMA StepEnd ==
  ASSUME state = "runs", pc \notin DOMAIN Program, Next
  PROVE  state' = "end" /\ UNCHANGED <<task, pc, regs, equal, stack, called>>
BY DEF Next, Running, Current, Compute, Compare, Jump, Skip, PushWord, PopWord,
       LoadWord, CallCode, Fault, End

\* Nothing runs after a fault or an end.
LEMMA StepNone ==
  ASSUME state # "runs", Next
  PROVE  FALSE
BY DEF Next, Running, Compute, Compare, Jump, Skip, PushWord, PopWord,
       LoadWord, CallCode, Fault, End

\* The instructions of the stub by their place.
LEMMA StubInstructions ==
  /\ EntryStub[1] = Push(RBP) /\ EntryStub[2] = Mov(RSP, RBP) /\ EntryStub[3] = Mov(RDI, RDI)
  /\ \A i \in 1..7 : EntryStub[3 + i] = Push(Kept[i])
  /\ EntryStub[11] = Mov(RSI, R14) /\ EntryStub[12] = ShrOne(R14) /\ EntryStub[13] = Imm(1, RAX)
  /\ EntryStub[14] = Test(R14, RAX) /\ EntryStub[15] = JumpIf(OnEqual, "even") /\ EntryStub[16] = Imm(0, RAX)
  /\ EntryStub[17] = Push(RAX) /\ EntryStub[18] = Label("even") /\ EntryStub[19] = Mov(R14, RBX)
  /\ EntryStub[20] = Shl(3, RBX) /\ EntryStub[21] = Add(RDX, RBX) /\ EntryStub[22] = JumpIf(Always, "args_loop")
  /\ EntryStub[23] = Label("args") /\ EntryStub[24] = AddImm(-8, RBX) /\ EntryStub[25] = Load(RBX, RAX)
  /\ EntryStub[26] = Push(RAX) /\ EntryStub[27] = Label("args_loop") /\ EntryStub[28] = Cmp(RBX, RDX)
  /\ EntryStub[29] = JumpIf(OnNotEqual, "args")
  /\ \A i \in 1..12 : EntryStub[29 + i] = Xor(Cleared[i], Cleared[i])
  /\ EntryStub[42] = Mov(RSI, RAX) /\ EntryStub[43] = Mov(RDI, R14) /\ EntryStub[44] = Call(R14)
  /\ EntryStub[45] = ShrOne(RSI) /\ EntryStub[46] = Push(R15) /\ EntryStub[47] = Imm(1, R15)
  /\ EntryStub[48] = Test(RSI, R15) /\ EntryStub[49] = Pop(R15) /\ EntryStub[50] = JumpIf(OnEqual, "unwind_even")
  /\ EntryStub[51] = AddImm(1, RSI) /\ EntryStub[52] = Label("unwind_even") /\ EntryStub[53] = Shl(3, RSI)
  /\ EntryStub[54] = Add(RSP, RSI) /\ EntryStub[55] = Xor(RSI, RSI)
  /\ \A i \in 1..7 : EntryStub[55 + i] = Pop(Kept[8 - i])
  /\ EntryStub[63] = Mov(RBP, RSP) /\ EntryStub[64] = Pop(RBP) /\ EntryStub[65] = Ret
<1>1. /\ EntryStub[1] = Push(RBP) /\ EntryStub[2] = Mov(RSP, RBP) /\ EntryStub[3] = Mov(RDI, RDI)
  <2>1. EntryStub[0 + 1] = Prologue[1] /\ EntryStub[0 + 2] = Prologue[2]
    BY StubIs DEF Stands
  <2> QED BY <2>1, StubIs DEF Prologue, ROOT_REG
<1>2. \A i \in 1..7 : EntryStub[3 + i] = Push(Kept[i])
  BY StubIs, KeptAre DEF Stands, PushKept, IsCode
<1>3. EntryStub[10 + 1] = PushArguments[1] /\ EntryStub[10 + 2] = PushArguments[2]
      /\ \A i \in 1..17 : EntryStub[10 + (2 + i)] = PushArguments[2 + i] /\ PushArguments[2 + i] = PushThem[i]
  BY StubIs, PushArgumentsAre DEF Stands
<1>4. EntryStub[11] = Mov(RSI, R14) /\ EntryStub[12] = ShrOne(R14)
  BY <1>3, PushArgumentsAre DEF SCRATCH
<1>5. \A i \in 1..17 : EntryStub[12 + i] = PushThem[i]
  BY <1>3
<1>6. /\ EntryStub[13] = PushThem[1] /\ EntryStub[14] = PushThem[2] /\ EntryStub[15] = PushThem[3]
      /\ EntryStub[16] = PushThem[4] /\ EntryStub[17] = PushThem[5] /\ EntryStub[18] = PushThem[6]
      /\ EntryStub[19] = PushThem[7] /\ EntryStub[20] = PushThem[8] /\ EntryStub[21] = PushThem[9]
      /\ EntryStub[22] = PushThem[10] /\ EntryStub[23] = PushThem[11] /\ EntryStub[24] = PushThem[12]
      /\ EntryStub[25] = PushThem[13] /\ EntryStub[26] = PushThem[14] /\ EntryStub[27] = PushThem[15]
      /\ EntryStub[28] = PushThem[16] /\ EntryStub[29] = PushThem[17]
  BY <1>5
<1>7. \A i \in 1..12 : EntryStub[29 + i] = Xor(Cleared[i], Cleared[i])
  BY StubIs, ClearedAre DEF Stands, Clear, IsCode
<1>8. EntryStub[41 + 1] = CallIt[1] /\ EntryStub[41 + 2] = CallIt[2] /\ EntryStub[41 + 3] = CallIt[3]
  BY StubIs DEF Stands
<1>9. EntryStub[44 + 1] = Unwind[1] /\ \A i \in 1..10 : EntryStub[44 + (1 + i)] = Unwind[1 + i] /\ Unwind[1 + i] = Back[i]
  BY StubIs, UnwindIs DEF Stands
<1>10. \A i \in 1..10 : EntryStub[45 + i] = Back[i]
  BY <1>9
<1>11. /\ EntryStub[46] = Back[1] /\ EntryStub[47] = Back[2] /\ EntryStub[48] = Back[3] /\ EntryStub[49] = Back[4]
       /\ EntryStub[50] = Back[5] /\ EntryStub[51] = Back[6] /\ EntryStub[52] = Back[7] /\ EntryStub[53] = Back[8]
       /\ EntryStub[54] = Back[9] /\ EntryStub[55] = Back[10]
  BY <1>10
<1>12. \A i \in 1..7 : EntryStub[55 + i] = Pop(Kept[8 - i])
  BY StubIs, KeptAre DEF Stands, PopKept, IsCode
<1>13. EntryStub[62 + 1] = Epilogue[1] /\ EntryStub[62 + 2] = Epilogue[2] /\ EntryStub[62 + 3] = Epilogue[3]
  BY StubIs DEF Stands
<1>14. /\ PushThem[1] = Imm(1, RAX) /\ PushThem[2] = Test(R14, RAX) /\ PushThem[3] = JumpIf(OnEqual, "even")
       /\ PushThem[4] = Imm(0, RAX) /\ PushThem[5] = Push(RAX) /\ PushThem[6] = Label("even")
       /\ PushThem[7] = Mov(R14, RBX) /\ PushThem[8] = Shl(3, RBX) /\ PushThem[9] = Add(RDX, RBX)
       /\ PushThem[10] = JumpIf(Always, "args_loop") /\ PushThem[11] = Label("args") /\ PushThem[12] = AddImm(-8, RBX)
       /\ PushThem[13] = Load(RBX, RAX) /\ PushThem[14] = Push(RAX) /\ PushThem[15] = Label("args_loop")
       /\ PushThem[16] = Cmp(RBX, RDX) /\ PushThem[17] = JumpIf(OnNotEqual, "args")
  BY DEF PushThem, SCRATCH
<1>15. /\ Back[1] = Push(R15) /\ Back[2] = Imm(1, R15) /\ Back[3] = Test(RSI, R15) /\ Back[4] = Pop(R15)
       /\ Back[5] = JumpIf(OnEqual, "unwind_even") /\ Back[6] = AddImm(1, RSI) /\ Back[7] = Label("unwind_even")
       /\ Back[8] = Shl(3, RSI) /\ Back[9] = Add(RSP, RSI) /\ Back[10] = Xor(RSI, RSI)
  BY DEF Back
<1>16. EntryStub[42] = Mov(RSI, RAX) /\ EntryStub[43] = Mov(RDI, R14) /\ EntryStub[44] = Call(R14)
  BY <1>8 DEF CallIt, SCRATCH
<1>17. EntryStub[63] = Mov(RBP, RSP) /\ EntryStub[64] = Pop(RBP) /\ EntryStub[65] = Ret
  BY <1>13 DEF Epilogue
<1>18. EntryStub[45] = ShrOne(RSI)
  BY <1>9, UnwindIs
<1> QED BY <1>1, <1>2, <1>4, <1>6, <1>7, <1>11, <1>12, <1>14, <1>15, <1>16, <1>17, <1>18

\* The labels of the stub: only "args" is bound before a jump to it.
LEMMA LabelsAre ==
  ASSUME task.kind = "stub"
  PROVE  /\ Program = EntryStub /\ DOMAIN Program = 1..65
         /\ Bound("even") = 18 /\ Bound("args") = 23 /\ Bound("args_loop") = 27 /\ Bound("unwind_even") = 52
<1>1. Program = EntryStub /\ DOMAIN Program = 1..65
  BY StubIs DEF Program, IsCode
<1>2. \A i \in 1..65 : EntryStub[i][1] = "label" => i \in {18, 23, 27, 52}
  <2>1. \A i \in 1..7 : EntryStub[3 + i][1] = "push" /\ EntryStub[55 + i][1] = "pop"
    BY StubInstructions DEF Push, Pop
  <2>2. \A i \in 1..12 : EntryStub[29 + i][1] = "xor"
    BY StubInstructions DEF Xor
  <2>3. \A i \in {1, 2, 3, 11, 12, 13, 14, 15, 16, 17, 19, 20, 21, 22, 24, 25, 26, 28, 29} : EntryStub[i][1] # "label"
    BY StubInstructions DEF Push, Mov, ShrOne, Imm, Test, JumpIf, Shl, Add, AddImm, Load, Cmp
  <2>4. \A i \in {42, 43, 44, 45, 46, 47, 48, 49, 50, 51, 53, 54, 55, 63, 64, 65} : EntryStub[i][1] # "label"
    BY StubInstructions DEF Push, Mov, ShrOne, Imm, Test, JumpIf, Shl, Add, AddImm, Call, Pop, Xor, Ret
  <2> SUFFICES ASSUME NEW i \in 1..65, EntryStub[i][1] = "label" PROVE i \in {18, 23, 27, 52}
    OBVIOUS
  <2>5. i \notin 4..10
    <3> SUFFICES ASSUME i \in 4..10 PROVE FALSE
      OBVIOUS
    <3>1. i - 3 \in 1..7 /\ 3 + (i - 3) = i
      OBVIOUS
    <3> QED BY <2>1, <3>1
  <2>6. i \notin 56..62
    <3> SUFFICES ASSUME i \in 56..62 PROVE FALSE
      OBVIOUS
    <3>1. i - 55 \in 1..7 /\ 55 + (i - 55) = i
      OBVIOUS
    <3> QED BY <2>1, <3>1
  <2>7. i \notin 30..41
    <3> SUFFICES ASSUME i \in 30..41 PROVE FALSE
      OBVIOUS
    <3>1. i - 29 \in 1..12 /\ 29 + (i - 29) = i
      OBVIOUS
    <3> QED BY <2>2, <3>1
  <2>8. i \notin {1, 2, 3, 11, 12, 13, 14, 15, 16, 17, 19, 20, 21, 22, 24, 25, 26, 28, 29}
    BY <2>3
  <2>9. i \notin {42, 43, 44, 45, 46, 47, 48, 49, 50, 51, 53, 54, 55, 63, 64, 65}
    BY <2>4
  <2> QED BY <2>5, <2>6, <2>7, <2>8, <2>9
<1>3. /\ EntryStub[18] = Label("even") /\ EntryStub[23] = Label("args") /\ EntryStub[27] = Label("args_loop")
      /\ EntryStub[52] = Label("unwind_even")
  BY StubInstructions
<1>4. \A l, k : Label(l)[1] = "label" /\ (Label(l) = Label(k) => l = k)
  BY DEF Label
<1>5. \A l : \A i \in 1..65 : EntryStub[i] = Label(l) => i \in {18, 23, 27, 52} /\ EntryStub[i][1] = "label"
  BY <1>2, <1>4
<1>6. \A i \in 1..65 : EntryStub[i] = Label("even") <=> i = 18
  BY <1>3, <1>4, <1>5
<1>7. \A i \in 1..65 : EntryStub[i] = Label("args") <=> i = 23
  BY <1>3, <1>4, <1>5
<1>8. \A i \in 1..65 : EntryStub[i] = Label("args_loop") <=> i = 27
  BY <1>3, <1>4, <1>5
<1>9. \A i \in 1..65 : EntryStub[i] = Label("unwind_even") <=> i = 52
  BY <1>3, <1>4, <1>5
<1>10. Bound("even") = 18
  BY <1>1, <1>6 DEF Bound
<1>11. Bound("args") = 23
  BY <1>1, <1>7 DEF Bound
<1>12. Bound("args_loop") = 27
  BY <1>1, <1>8 DEF Bound
<1>13. Bound("unwind_even") = 52
  BY <1>1, <1>9 DEF Bound
<1> QED BY <1>1, <1>10, <1>11, <1>12, <1>13

\* The n words pushed are the first n of f.
Held(st, n, f) == \A j \in 1..n : -8 * j \in DOMAIN st /\ st[-8 * j] = f[j]

\* So many words are pushed, and the stack pointer is at the last of them.
Up(rs, st, n, f) == DOMAIN rs = Regs /\ rs[RSP] = Word("stack", -8 * n) /\ Held(st, n, f)

\* The words that the stub pushes, the first one first: the caller's frame pointer, the stub's own,
\* six registers, the padding, and the arguments from the last to the first.
Frame ==
  [j \in Nat |->
     IF j = 1 THEN Caller(RBP) ELSE IF j = 2 THEN Word("stack", -8)
     ELSE IF j \in 3..8 THEN Caller(Kept[j - 1]) ELSE IF j = 9 THEN Num(0)
     ELSE Argument(task.argc + 10 - j)]

\* The prologue and the registers kept: registers are as they were, but for the frame pointer.
Saving ==
  /\ pc \in 1..11 /\ called = <<>>
  /\ Up(regs, stack, IF pc = 1 THEN 0 ELSE IF pc <= 3 THEN 1 ELSE pc - 3, Frame)
  /\ regs[RBP] = IF pc <= 2 THEN Caller(RBP) ELSE Word("stack", -8)
  /\ \A r \in Regs \ {RSP, RBP} : regs[r] = Start[r]

\* The arguments are counted, and not yet pushed or not yet called with.
Counted == called = <<>> /\ regs[RSI] = Num(2 * task.argc)
\* And the address of their array is where it was passed.
Given == Counted /\ regs[RDX] = Word("argv", 0)

\* The number of arguments is untagged, padded whether it is even or not, and made an address.
Counting ==
  /\ pc \in 12..22 /\ Given
  /\ Up(regs, stack, IF pc <= 17 THEN 8 ELSE 9, Frame)
  /\ regs[R14] = IF pc = 12 THEN Num(2 * task.argc) ELSE Num(task.argc)
  /\ pc = 17 => regs[RAX] = Num(0)
  /\ pc = 20 => regs[RBX] = Num(task.argc)
  /\ pc = 21 => regs[RBX] = Num(8 * task.argc)
  /\ pc = 22 => regs[RBX] = Word("argv", 8 * task.argc)

\* m arguments are pushed, the last ones of the array, and RBX is the address of the first of these,
\* or, when it has been decremented, of the one before.
PushingOne(m) ==
  /\ Up(regs, stack, 9 + m, Frame)
  /\ regs[RBX] = Word("argv", 8 * (task.argc - m) - (IF pc \in {25, 26} THEN 8 ELSE 0))
  /\ pc <= 26 => (m < task.argc \/ task.argc = 0)
  /\ pc = 26 => m < task.argc /\ regs[RAX] = Argument(task.argc - m)
  /\ pc >= 27 => m > 0
  /\ pc = 29 => equal = (m = task.argc)

\* The loop, which only a stub without arguments enters at its end.
Pushing == pc \in 23..29 /\ Given /\ \E m \in 0..task.argc : PushingOne(m)

\* All arguments are pushed; registers are cleared one after the other, and the call is set up.
Clearing ==
  /\ pc \in 30..44 /\ Counted /\ task.argc > 0
  /\ Up(regs, stack, 9 + task.argc, Frame)
  /\ \A i \in 1..12 : i <= pc - 30 /\ (pc >= 43 => i # 1) /\ (pc = 44 => i # 11) => regs[Cleared[i]] = Num(0)
  /\ pc >= 43 => regs[RAX] = Num(2 * task.argc)

\* The code called finds all words on the stack, the count in RAX and nothing in what was cleared.
Entered(c) ==
  /\ Up(c.regs, c.stack, 9 + task.argc, Frame)
  /\ c.regs[RAX] = Num(2 * task.argc)
  /\ \A i \in 1..12 : i \notin {1, 11} => c.regs[Cleared[i]] = Num(0)

\* One call was made, and this way.
Once == task.argc > 0 /\ Len(called) = 1 /\ called = <<called[1]>> /\ Entered(called[1])

\* What is to take the arguments off leaves the stack as it was: the sum goes to RSI, which is cleared.
Unwinding ==
  /\ pc \in 45..55 /\ Once /\ DOMAIN regs = Regs /\ Held(stack, 9 + task.argc, Frame)
  /\ regs[RSP] = Word("stack", -8 * (IF pc \in 47..49 THEN 10 + task.argc ELSE 9 + task.argc))
  /\ pc \in 47..49 => -8 * (10 + task.argc) \in DOMAIN stack

\* Registers are popped, each with the word on top of the stack, which is not the one saved for it.
Restoring ==
  /\ pc \in 56..63 /\ Once
  /\ Up(regs, stack, 65 + task.argc - pc, Frame)
  /\ \A k \in 1..7 : k <= pc - 56 => regs[Kept[8 - k]] = Frame[10 + task.argc - k]

\* Past the epilogue's first instruction the stack is the frame pointer that was popped.
Lost ==
  /\ pc = 64 /\ Once /\ DOMAIN regs = Regs
  /\ regs[RSP] = Frame[3 + task.argc]
  /\ \A k \in 1..6 : regs[Kept[8 - k]] = Frame[10 + task.argc - k]

\* The stub runs through these stretches, and faults without arguments before the call, or else at
\* the end.
StubInv ==
  \/ state = "runs" /\ (Saving \/ Counting \/ Pushing \/ Clearing \/ Unwinding \/ Restoring \/ Lost)
  \/ state = "fault" /\ ((called = <<>> /\ task.argc = 0) \/ Lost)

\* How many words pushad has pushed when an allocation begins.
Base == IF task.kind = "allocate" THEN 0 ELSE 12
\* How many words an allocation pushes to keep RAX, and how many instructions that takes.
Pre == IF task.result # RAX THEN 2 ELSE 0
\* How many instructions compute the size.
Mid == IF task.size = kNoRegister THEN 1 ELSE 4
\* How many instructions an allocation takes.
AllocLen == Pre + Mid + 3 + (IF task.result # RAX THEN 3 ELSE 0)
\* How many instructions there are before popad, and how many words are pushed then.
Below == IF task.kind = "save" THEN 13 ELSE 12 + AllocLen
Height == IF task.kind = "save" THEN 12 ELSE 14
\* The register of the k-th pop of popad.
Target(k) == IF Pushed[13 - k] = task.result THEN SCRATCH ELSE Pushed[13 - k]

\* The words pushed by pushad and an allocation, the first one first.
Laid ==
  [j \in Nat |->
     IF j <= Base THEN Start[Pushed[j]]
     ELSE IF j <= Base + Pre THEN Start[RAX]
     ELSE IF j = Base + Pre + 1 THEN Num(2 * (Size + 8)) ELSE Num(2 * Tag)]

\* All registers but the stack pointer are as they were.
Untouched == \A r \in Regs \ {RSP} : regs[r] = Start[r]

\* pushad.
SavingAll == task.kind \in {"save", "both"} /\ pc \in 1..12 /\ Up(regs, stack, pc - 1, Laid) /\ Untouched

\* The call between pushad and popad.
Calling == task.kind = "save" /\ pc = 13 /\ Up(regs, stack, 12, Laid)

\* After k instructions of an allocation: RAX kept, its size computed, its arguments pushed, and its
\* result moved and RAX taken back, which takes the arguments instead.
AllocAt(k, rs, st) ==
  \/ k \in 0..Pre /\ Up(rs, st, Base + k, Laid) /\ \A r \in Regs \ {RSP} : rs[r] = Start[r]
  \/ /\ k \in Pre + 1 .. Pre + Mid /\ Up(rs, st, Base + Pre, Laid)
     /\ rs[RAX] = Num(IF k = Pre + Mid THEN 2 * (Size + 8) ELSE IF k = Pre + 1 THEN 2 * Size
                      ELSE IF k = Pre + 2 THEN Size ELSE Size + 8)
  \/ k = Pre + Mid + 1 /\ Up(rs, st, Base + Pre + 1, Laid)
  \/ k = Pre + Mid + 2 /\ Up(rs, st, Base + Pre + 1, Laid) /\ rs[RAX] = Num(2 * Tag)
  \/ k = Pre + Mid + 3 /\ Up(rs, st, Base + Pre + 2, Laid) /\ rs[RAX] = Num(2 * Tag)
  \/ /\ task.result # RAX /\ k \in Pre + Mid + 4 .. Pre + Mid + 6
     /\ Up(rs, st, Base + 8 + Pre + Mid - k, Laid) /\ rs[task.result] = Num(2 * Tag)

\* An allocation, after pushad or alone.
Allocating(k) ==
  task.kind \in {"allocate", "both"} /\ pc = Base + k + 1 /\ AllocAt(k, regs, stack)

\* popad: the registers popped have the words on top of the stack, in their order.
RestoringAll ==
  /\ task.kind \in {"save", "both"} /\ pc \in Below + 1 .. Below + 13
  /\ Up(regs, stack, Height + Below + 1 - pc, Laid)
  /\ \A k \in 1..12 : k <= pc - Below - 1 => regs[Target(k)] = Laid[Height + 1 - k]

\* The other pieces run through these stretches and end past their last instruction.
PartInv ==
  \/ state = "runs" /\ (SavingAll \/ Calling \/ RestoringAll \/ \E k \in 0..AllocLen : Allocating(k))
  \/ state = "end" /\ ((RestoringAll /\ pc = Below + 13) \/ (task.kind = "allocate" /\ Allocating(AllocLen)))

\* The inductive invariant.
IInv == task \in Tasks /\ (IF task.kind = "stub" THEN StubInv ELSE PartInv)

(***************************************************************************)
(* The stack.                                                              *)
(***************************************************************************)

\* A push of the next word of f.
LEMMA Pushes ==
  ASSUME NEW n \in Nat, NEW f, NEW r, Up(regs, stack, n, f), Runs(Push(r)), Next, f[n + 1] = regs[r]
  PROVE  /\ Moves /\ UNCHANGED <<equal, called>>
         /\ Up(regs', stack', n + 1, f)
         /\ \A s \in Regs \ {RSP} : regs'[s] = regs[s]
<1> DEFINE top == -8 * (n + 1)
<1>1. regs[RSP] = Word("stack", -8 * n) /\ top = regs[RSP].off - 8
  BY DEF Up, Word
<1>2. top \in Int
  OBVIOUS
<1> HIDE DEF top
<1>3. /\ Moves /\ UNCHANGED <<equal, called>>
      /\ stack' = [off \in DOMAIN stack \cup {top} |-> IF off = top THEN regs[r] ELSE stack[off]]
      /\ regs' = [regs EXCEPT ![RSP].off = top]
  BY <1>1, StepPush
<1>4. DOMAIN regs' = Regs /\ regs'[RSP] = Word("stack", top) /\ \A s \in Regs \ {RSP} : regs'[s] = regs[s]
  BY <1>1, <1>3 DEF Up, Word, Regs, RSP
<1>5. Held(stack', n + 1, f)
  <2> SUFFICES ASSUME NEW j \in 1..(n + 1) PROVE -8 * j \in DOMAIN stack' /\ stack'[-8 * j] = f[j]
    BY DEF Held
  <2>1. CASE j = n + 1
    <3>1. -8 * j = top
      BY <2>1 DEF top
    <3> QED BY <3>1, <2>1, <1>3
  <2>2. CASE j # n + 1
    <3>1. j \in 1..n
      BY <2>2
    <3>2. -8 * j # top
      BY <2>2 DEF top
    <3>3. -8 * j \in DOMAIN stack /\ stack[-8 * j] = f[j]
      BY <3>1 DEF Up, Held
    <3> DEFINE o == -8 * j
    <3> HIDE DEF o
    <3>4. o # top /\ o \in DOMAIN stack /\ stack[o] = f[j]
      BY <3>2, <3>3 DEF o
    <3>5. o \in DOMAIN stack' /\ stack'[o] = f[j]
      BY <3>4, <1>3
    <3> QED BY <3>5 DEF o
  <2> QED BY <2>1, <2>2
<1> QED BY <1>3, <1>4, <1>5 DEF Up, top

\* A pop of the last word of f.
LEMMA Pops ==
  ASSUME NEW n \in Nat, NEW f, NEW r \in Regs \ {RSP}, Up(regs, stack, n + 1, f), Runs(Pop(r)), Next
  PROVE  /\ Computes /\ Up(regs', stack', n, f)
         /\ regs'[r] = f[n + 1] /\ \A s \in Regs \ {RSP, r} : regs'[s] = regs[s]
<1> DEFINE top == -8 * (n + 1)
<1>1. regs[RSP] = Word("stack", top) /\ top \in DOMAIN stack /\ stack[top] = f[n + 1] /\ top + 8 = -8 * n
  <2>1. n + 1 \in 1..(n + 1)
    OBVIOUS
  <2> QED BY <2>1 DEF Up, Held
<1> HIDE DEF top
<1>2. Mapped(regs[RSP]) /\ Read(regs[RSP]) = f[n + 1]
  BY <1>1 DEF Mapped, Read, Word
<1>3. Computes /\ regs' = [regs EXCEPT ![RSP].off = @ + 8, ![r] = Read(regs[RSP])]
  BY <1>2, StepPop
<1>4. DOMAIN regs' = Regs /\ regs'[RSP] = Word("stack", top + 8) /\ regs'[r] = f[n + 1]
      /\ \A s \in Regs \ {RSP, r} : regs'[s] = regs[s]
  BY <1>1, <1>2, <1>3 DEF Up, Word, Regs, RSP
<1>5. Held(stack', n, f)
  BY <1>3 DEF Computes, Up, Held
<1> QED BY <1>1, <1>3, <1>4, <1>5 DEF Up

\* A register other than the stack pointer is set.
LEMMA Sets ==
  ASSUME NEW n, NEW f, NEW r \in Regs \ {RSP}, NEW v, Up(regs, stack, n, f), Computes,
         regs' = [regs EXCEPT ![r] = v]
  PROVE  /\ Up(regs', stack', n, f) /\ regs'[r] = v /\ \A s \in Regs \ {r} : regs'[s] = regs[s]
<1>1. DOMAIN regs' = Regs /\ regs'[r] = v /\ \A s \in Regs \ {r} : regs'[s] = regs[s]
  BY DEF Up
<1>2. regs'[RSP] = regs[RSP]
  BY <1>1 DEF RSP, Regs
<1>3. stack' = stack
  BY DEF Computes
<1> QED BY <1>1, <1>2, <1>3 DEF Up

(***************************************************************************)
(* What depends on the task alone.                                         *)
(***************************************************************************)

\* The words to be pushed and the places of the code depend on the task alone.
LEMMA TaskKept ==
  ASSUME task' = task
  PROVE  /\ Frame' = Frame /\ Start' = Start /\ Base' = Base /\ Pre' = Pre /\ Mid' = Mid /\ AllocLen' = AllocLen
         /\ Below' = Below /\ Height' = Height /\ Laid' = Laid /\ \A k \in 1..12 : Target(k)' = Target(k)
<1>1. Frame' = Frame /\ Start' = Start /\ Base' = Base /\ Pre' = Pre /\ Mid' = Mid
  BY DEF Frame, Start, Base, Pre, Mid
<1>2. AllocLen' = AllocLen
  BY <1>1 DEF AllocLen
<1>3. Below' = Below /\ Height' = Height
  BY <1>2 DEF Below, Height
<1>4. Laid' = Laid
  BY <1>1 DEF Laid
<1>5. \A k \in 1..12 : Target(k)' = Target(k)
  BY DEF Target
<1> QED BY <1>1, <1>2, <1>3, <1>4, <1>5

(***************************************************************************)
(* The stub, up to its loop.                                               *)
(***************************************************************************)

\* The stub runs its next instruction.
StubRuns == task.kind = "stub" /\ task.argc \in Nat /\ state = "runs" /\ Next

\* The stub executes the instruction at its place.
LEMMA RunsStub ==
  ASSUME StubRuns, pc \in 1..65
  PROVE  Runs(EntryStub[pc])
BY LabelsAre DEF StubRuns, Runs

\* The registers named are registers.
LEMMA RegistersAre ==
  /\ RAX \in Regs /\ RCX \in Regs /\ RDX \in Regs /\ RBX \in Regs /\ RSP \in Regs /\ RBP \in Regs /\ RSI \in Regs
  /\ RDI \in Regs /\ R11 \in Regs /\ R12 \in Regs /\ R13 \in Regs /\ R14 \in Regs /\ R15 \in Regs
  /\ \A i \in 1..7 : Kept[i] \in Regs \ {RSP}
  /\ \A i \in 1..12 : Cleared[i] \in Regs \ {RSP}
<1>1. /\ RAX \in Regs /\ RCX \in Regs /\ RDX \in Regs /\ RBX \in Regs /\ RSP \in Regs /\ RBP \in Regs /\ RSI \in Regs
      /\ RDI \in Regs /\ R11 \in Regs /\ R12 \in Regs /\ R13 \in Regs /\ R14 \in Regs /\ R15 \in Regs
  BY DEF Regs, RAX, RCX, RDX, RBX, RSP, RBP, RSI, RDI, R11, R12, R13, R14, R15
<1>2. \A i \in 1..7 : Kept[i] \in Regs \ {RSP}
  <2> SUFFICES ASSUME NEW i \in 1..7 PROVE Kept[i] \in Regs \ {RSP}
    OBVIOUS
  <2>1. i = 1 \/ i = 2 \/ i = 3 \/ i = 4 \/ i = 5 \/ i = 6 \/ i = 7
    OBVIOUS
  <2> QED BY <2>1, KeptAre DEF Regs, RBX, RSP, RBP, R11, R12, R13, R14, R15
<1>3. \A i \in 1..12 : Cleared[i] \in Regs \ {RSP}
  <2> SUFFICES ASSUME NEW i \in 1..12 PROVE Cleared[i] \in Regs \ {RSP}
    OBVIOUS
  <2>1. i = 1 \/ i = 2 \/ i = 3 \/ i = 4 \/ i = 5 \/ i = 6 \/ i = 7 \/ i = 8 \/ i = 9 \/ i = 10 \/ i = 11 \/ i = 12
    OBVIOUS
  <2> QED BY <2>1, ClearedAre DEF Regs, RAX, RCX, RDX, RBX, RSP, R11, R12, R13, R14, R15
<1> QED BY <1>1, <1>2, <1>3

\* The words of the stub, one by one.
LEMMA FrameIs ==
  ASSUME task.argc \in Nat
  PROVE  /\ Frame[1] = Caller(RBP) /\ Frame[2] = Word("stack", -8) /\ \A i \in 2..7 : Frame[i + 1] = Caller(Kept[i])
         /\ Frame[9] = Num(0) /\ \A m \in Nat : Frame[9 + m + 1] = Argument(task.argc - m)
<1>1. \A i \in 2..7 : i + 1 \in Nat /\ i + 1 # 1 /\ i + 1 # 2 /\ i + 1 \in 3..8 /\ (i + 1) - 1 = i
  OBVIOUS
<1>2. \A m \in Nat : /\ 9 + m + 1 \in Nat /\ 9 + m + 1 # 1 /\ 9 + m + 1 # 2 /\ 9 + m + 1 \notin 3..8 /\ 9 + m + 1 # 9
                     /\ task.argc + 10 - (9 + m + 1) = task.argc - m
  OBVIOUS
<1> QED BY <1>1, <1>2 DEF Frame

\* What the stub is entered with.
LEMMA StartIs ==
  ASSUME task.kind = "stub"
  PROVE  /\ Start[RDI] = Word("code", 0) /\ Start[RSI] = Num(2 * task.argc) /\ Start[RDX] = Word("argv", 0)
         /\ \A i \in 2..7 : Start[Kept[i]] = Caller(Kept[i])
<1>1. \A r \in Regs : r \notin {RSP, RDI, RSI, RDX} => Start[r] = Caller(r)
  BY DEF Start
<1>2. \A i \in 2..7 : Kept[i] \in Regs /\ Kept[i] \notin {RSP, RDI, RSI, RDX}
  <2> SUFFICES ASSUME NEW i \in 2..7 PROVE Kept[i] \in Regs /\ Kept[i] \notin {RSP, RDI, RSI, RDX}
    OBVIOUS
  <2>1. i = 2 \/ i = 3 \/ i = 4 \/ i = 5 \/ i = 6 \/ i = 7
    OBVIOUS
  <2> QED BY <2>1, KeptAre DEF Regs, RBX, RSP, R11, R12, R13, R14, R15, RDI, RSI, RDX
<1>3. Start[RDI] = Word("code", 0) /\ Start[RSI] = Num(2 * task.argc) /\ Start[RDX] = Word("argv", 0)
  BY RegistersAre DEF Start, RDI, RSI, RDX, RSP
<1> QED BY <1>1, <1>2, <1>3

\* The prologue and the registers kept.
LEMMA SavingSteps ==
  ASSUME StubRuns, Saving
  PROVE  state' = "runs" /\ task' = task /\ (Saving' \/ Counting')
<1> DEFINE n == IF pc = 1 THEN 0 ELSE IF pc <= 3 THEN 1 ELSE pc - 3
<1>1. /\ pc \in 1..11 /\ called = <<>> /\ Up(regs, stack, n, Frame)
      /\ regs[RBP] = IF pc <= 2 THEN Caller(RBP) ELSE Word("stack", -8)
      /\ \A r \in Regs \ {RSP, RBP} : regs[r] = Start[r]
  BY DEF Saving
<1>2. Runs(EntryStub[pc]) /\ state = "runs" /\ task.kind = "stub" /\ task.argc \in Nat /\ Next
  BY <1>1, RunsStub DEF StubRuns
<1>3. CASE pc = 1
  <2>1. Up(regs, stack, 0, Frame) /\ Runs(Push(RBP)) /\ regs[RBP] = Caller(RBP) /\ Frame[0 + 1] = regs[RBP]
    BY <1>1, <1>2, <1>3, StubInstructions, FrameIs
  <2>2. /\ Moves /\ UNCHANGED <<equal, called>> /\ Up(regs', stack', 0 + 1, Frame)
        /\ \A s \in Regs \ {RSP} : regs'[s] = regs[s]
    BY <1>2, <2>1, Pushes
  <2>3. pc' = 2 /\ state' = "runs" /\ task' = task /\ called' = <<>> /\ Frame' = Frame /\ Start' = Start
    BY <1>1, <1>2, <1>3, <2>2, TaskKept DEF Moves
  <2>4. regs'[RBP] = Caller(RBP) /\ \A r \in Regs \ {RSP, RBP} : regs'[r] = Start[r]
    BY <1>1, <2>1, <2>2, RegistersAre DEF RBP, RSP
  <2> QED BY <2>2, <2>3, <2>4 DEF Saving
<1>4. CASE pc = 2
  <2>1. Up(regs, stack, 1, Frame) /\ Runs(Mov(RSP, RBP)) /\ RBP \in Regs \ {RSP} /\ regs[RSP] = Word("stack", -8)
    BY <1>1, <1>2, <1>4, StubInstructions, RegistersAre DEF RBP, RSP, Up
  <2>2. Computes /\ regs' = [regs EXCEPT ![RBP] = regs[RSP]]
    BY <1>2, <2>1, StepMov
  <2>3. Up(regs', stack', 1, Frame) /\ regs'[RBP] = regs[RSP] /\ \A s \in Regs \ {RBP} : regs'[s] = regs[s]
    <3>1. Up(regs, stack, 1, Frame) /\ RBP \in Regs \ {RSP}
      BY <2>1
    <3> QED BY <3>1, <2>2, Sets
  <2>4. pc' = 3 /\ state' = "runs" /\ task' = task /\ called' = <<>> /\ Frame' = Frame /\ Start' = Start
    BY <1>1, <1>2, <1>4, <2>2, TaskKept DEF Computes, Moves
  <2> QED BY <1>1, <2>1, <2>3, <2>4 DEF Saving
<1>5. CASE pc = 3
  <2>1. Up(regs, stack, 1, Frame) /\ Runs(Mov(RDI, RDI)) /\ RDI \in Regs \ {RSP} /\ RDI # RBP
    BY <1>1, <1>2, <1>5, StubInstructions, RegistersAre DEF RDI, RSP, RBP
  <2>2. Computes /\ regs' = [regs EXCEPT ![RDI] = regs[RDI]]
    BY <1>2, <2>1, StepMov
  <2>3. Up(regs', stack', 1, Frame) /\ regs'[RDI] = regs[RDI] /\ \A s \in Regs \ {RDI} : regs'[s] = regs[s]
    <3>1. Up(regs, stack, 1, Frame) /\ RDI \in Regs \ {RSP}
      BY <2>1
    <3> QED BY <3>1, <2>2, Sets
  <2>4. pc' = 4 /\ state' = "runs" /\ task' = task /\ called' = <<>> /\ Frame' = Frame /\ Start' = Start
    BY <1>1, <1>2, <1>5, <2>2, TaskKept DEF Computes, Moves
  <2>5. regs'[RBP] = Word("stack", -8) /\ \A r \in Regs \ {RSP, RBP} : regs'[r] = Start[r]
    BY <1>1, <1>5, <2>1, <2>3, RegistersAre
  <2> QED BY <2>3, <2>4, <2>5 DEF Saving
<1>6. CASE pc \in 4..10
  <2> DEFINE i == pc - 3
             r == Kept[i]
  <2>1. i \in 1..7 /\ 3 + i = pc /\ n = i
    BY <1>6
  <2>2. Up(regs, stack, i, Frame) /\ Runs(Push(r)) /\ r \in Regs \ {RSP}
    BY <1>1, <1>2, <2>1, StubInstructions, RegistersAre
  <2>3. Frame[i + 1] = regs[r]
    <3>1. CASE i = 1
      <4>1. r = RBP /\ i + 1 = 2 /\ ~(pc <= 2)
        BY <1>6, <3>1, KeptAre
      <4>2. regs[RBP] = Word("stack", -8) /\ Frame[2] = Word("stack", -8)
        BY <1>1, <1>2, <4>1, FrameIs
      <4> HIDE DEF i, r
      <4> QED BY <4>1, <4>2
    <3>2. CASE i \in 2..7
      <4>1. Frame[i + 1] = Caller(r) /\ Start[r] = Caller(r)
        BY <1>2, <3>2, FrameIs, StartIs
      <4>2. r # RBP
        <5>1. i = 2 \/ i = 3 \/ i = 4 \/ i = 5 \/ i = 6 \/ i = 7
          BY <3>2
        <5> QED BY <5>1, KeptAre DEF RBP, RBX, R11, R12, R13, R14, R15
      <4> QED BY <1>1, <2>2, <4>1, <4>2
    <3> QED BY <2>1, <3>1, <3>2
  <2> HIDE DEF i, r
  <2>4. /\ Moves /\ UNCHANGED <<equal, called>> /\ Up(regs', stack', i + 1, Frame)
        /\ \A s \in Regs \ {RSP} : regs'[s] = regs[s]
    BY <1>2, <2>1, <2>2, <2>3, Pushes
  <2>5. pc' = pc + 1 /\ state' = "runs" /\ task' = task /\ called' = <<>> /\ Frame' = Frame /\ Start' = Start
    BY <1>1, <1>2, <2>4, TaskKept DEF Moves
  <2>6. pc' \in 5..11 /\ i + 1 = pc' - 3
    BY <1>6, <2>5 DEF i
  <2>7. regs'[RBP] = Word("stack", -8) /\ \A s \in Regs \ {RSP, RBP} : regs'[s] = Start[s]
    BY <1>1, <1>6, <2>4, RegistersAre DEF RBP, RSP
  <2> QED BY <2>4, <2>5, <2>6, <2>7 DEF Saving
<1>7. CASE pc = 11
  <2>1. Up(regs, stack, 8, Frame) /\ Runs(Mov(RSI, R14)) /\ R14 \in Regs \ {RSP} /\ RSI # R14 /\ RDX # R14
        /\ RSI \in Regs \ {RSP, RBP} /\ RDX \in Regs \ {RSP, RBP}
    BY <1>1, <1>2, <1>7, StubInstructions, RegistersAre DEF R14, RSP, RSI, RDX, RBP
  <2>2. Computes /\ regs' = [regs EXCEPT ![R14] = regs[RSI]]
    BY <1>2, <2>1, StepMov
  <2>3. Up(regs', stack', 8, Frame) /\ regs'[R14] = regs[RSI] /\ \A s \in Regs \ {R14} : regs'[s] = regs[s]
    <3>1. Up(regs, stack, 8, Frame) /\ R14 \in Regs \ {RSP}
      BY <2>1
    <3> QED BY <3>1, <2>2, Sets
  <2>4. pc' = 12 /\ state' = "runs" /\ task' = task /\ called' = <<>> /\ Frame' = Frame
    BY <1>1, <1>2, <1>7, <2>2, TaskKept DEF Computes, Moves
  <2>5. regs[RSI] = Num(2 * task.argc) /\ regs[RDX] = Word("argv", 0)
    BY <1>1, <1>2, <2>1, StartIs
  <2> QED BY <2>1, <2>3, <2>4, <2>5 DEF Counting, Given, Counted
<1> QED BY <1>1, <1>3, <1>4, <1>5, <1>6, <1>7

(***************************************************************************)
(* The stub, its count and its padding.                                    *)
(***************************************************************************)

\* Shifts and sums of numbers and addresses.
LEMMA Sums ==
  ASSUME NEW a \in Int, NEW b \in Int
  PROVE  /\ Halved(Num(2 * a)) = Num(a) /\ Scaled(Num(a), Power(3)) = Num(8 * a) /\ Scaled(Num(a), Power(1)) = Num(2 * a)
         /\ Plus(Num(a), Num(b)) = Num(a + b)
         /\ Plus(Num(a), Word("argv", b)) = Word("argv", b + a) /\ Plus(Word("argv", b), Num(a)) = Word("argv", b + a)
<1>1. (2 * a) \div 2 = a
  OBVIOUS
<1>2. Halved(Num(2 * a)) = Num(a)
  BY <1>1 DEF Halved, Num, Word, IsNum
<1>3. Power(3) = 8 /\ Power(1) = 2
  BY DEF Power
<1>4. Scaled(Num(a), Power(3)) = Num(8 * a) /\ Scaled(Num(a), Power(1)) = Num(2 * a)
  BY <1>3 DEF Scaled, Num, Word, IsNum
<1>5. Plus(Num(a), Num(b)) = Num(a + b)
  BY DEF Plus, Num, Word, IsNum
<1>6. Plus(Num(a), Word("argv", b)) = Word("argv", b + a) /\ Plus(Word("argv", b), Num(a)) = Word("argv", b + a)
  BY DEF Plus, Num, Word, IsNum
<1> QED BY <1>2, <1>4, <1>5, <1>6

\* From the count to the loop: no jump of these is taken, so that the padding is always pushed.
LEMMA CountingSteps ==
  ASSUME StubRuns, Counting
  PROVE  state' = "runs" /\ task' = task /\ (Counting' \/ Pushing')
<1> DEFINE a == task.argc
           n == IF pc <= 17 THEN 8 ELSE 9
<1>1. /\ pc \in 12..22 /\ called = <<>> /\ regs[RSI] = Num(2 * a) /\ regs[RDX] = Word("argv", 0) /\ Up(regs, stack, n, Frame)
      /\ regs[R14] = IF pc = 12 THEN Num(2 * a) ELSE Num(a)
      /\ (pc = 17 => regs[RAX] = Num(0)) /\ (pc = 20 => regs[RBX] = Num(a)) /\ (pc = 21 => regs[RBX] = Num(8 * a))
      /\ (pc = 22 => regs[RBX] = Word("argv", 8 * a))
  BY DEF Counting, Given, Counted
<1>2. Runs(EntryStub[pc]) /\ state = "runs" /\ task.kind = "stub" /\ a \in Nat /\ Next
  BY <1>1, RunsStub DEF StubRuns
<1>3. /\ RAX \in Regs \ {RSP} /\ RBX \in Regs \ {RSP} /\ R14 \in Regs \ {RSP}
      /\ RSI \in Regs \ {RAX, RBX, R14, RSP} /\ RDX \in Regs \ {RAX, RBX, R14, RSP} /\ R14 \in Regs \ {RAX, RBX}
      /\ RAX # RBX
  BY DEF Regs, RAX, RBX, RSP, R14, RSI, RDX
<1>4. ASSUME UNCHANGED <<task, state, called>>, pc' \in 12..22,
             Up(regs', stack', IF pc' <= 17 THEN 8 ELSE 9, Frame), regs'[RSI] = Num(2 * a), regs'[RDX] = Word("argv", 0),
             regs'[R14] = IF pc' = 12 THEN Num(2 * a) ELSE Num(a),
             pc' = 17 => regs'[RAX] = Num(0), pc' = 20 => regs'[RBX] = Num(a), pc' = 21 => regs'[RBX] = Num(8 * a),
             pc' = 22 => regs'[RBX] = Word("argv", 8 * a)
      PROVE  state' = "runs" /\ task' = task /\ Counting'
  <2>1. Frame' = Frame /\ task'.argc = a /\ called' = <<>> /\ state' = "runs"
    BY <1>1, <1>2, <1>4, TaskKept
  <2> QED BY <1>4, <2>1 DEF Counting, Given, Counted
<1> HIDE DEF a
<1>5. CASE pc = 12
  <2>1. Runs(ShrOne(R14)) /\ Up(regs, stack, 8, Frame)
    BY <1>1, <1>2, <1>5, StubInstructions
  <2>2. Computes /\ regs' = [regs EXCEPT ![R14] = Num(a)]
    BY <1>1, <1>2, <1>5, <2>1, StepShr, Sums
  <2>3. Up(regs', stack', 8, Frame) /\ regs'[R14] = Num(a) /\ \A s \in Regs \ {R14} : regs'[s] = regs[s]
    <3>1. Up(regs, stack, 8, Frame) /\ R14 \in Regs \ {RSP}
      BY <1>3, <2>1
    <3> QED BY <3>1, <2>2, Sets
  <2>4. pc' = 13 /\ UNCHANGED <<task, state, called>>
    BY <1>5, <2>2 DEF Computes, Moves
  <2>5. regs'[RSI] = Num(2 * a) /\ regs'[RDX] = Word("argv", 0) /\ regs'[R14] = Num(a)
    BY <1>1, <1>3, <1>5, <2>3
  <2> QED BY <1>4, <2>3, <2>4, <2>5
<1>6. CASE pc = 13
  <2>1. Runs(Imm(1, RAX)) /\ Up(regs, stack, 8, Frame)
    BY <1>1, <1>2, <1>6, StubInstructions
  <2>2. Computes /\ regs' = [regs EXCEPT ![RAX] = Num(1)]
    BY <1>1, <1>2, <1>6, <2>1, StepImm
  <2>3. Up(regs', stack', 8, Frame) /\ regs'[RAX] = Num(1) /\ \A s \in Regs \ {RAX} : regs'[s] = regs[s]
    <3>1. Up(regs, stack, 8, Frame) /\ RAX \in Regs \ {RSP}
      BY <1>3, <2>1
    <3> QED BY <3>1, <2>2, Sets
  <2>4. pc' = 14 /\ UNCHANGED <<task, state, called>>
    BY <1>6, <2>2 DEF Computes, Moves
  <2>5. regs'[RSI] = Num(2 * a) /\ regs'[RDX] = Word("argv", 0) /\ regs'[R14] = Num(a)
    BY <1>1, <1>3, <1>6, <2>3
  <2> QED BY <1>4, <2>3, <2>4, <2>5
<1>7. CASE pc = 14
  <2>1. Runs(Test(R14, RAX)) /\ Up(regs, stack, 8, Frame)
    BY <1>1, <1>2, <1>7, StubInstructions
  <2>2. Moves /\ UNCHANGED <<regs, stack, called>>
    BY <1>2, <2>1, StepTest
  <2>3. pc' = 15 /\ UNCHANGED <<task, state, called, regs, stack>>
    BY <1>7, <2>2 DEF Moves
  <2> QED BY <1>1, <1>4, <1>7, <2>1, <2>3
<1>8. CASE pc = 15
  <2>1. Runs(JumpIf(OnEqual, "even")) /\ Up(regs, stack, 8, Frame)
    BY <1>1, <1>2, <1>8, StubInstructions
  <2>2. pc' = 16 /\ UNCHANGED <<task, state, called, regs, stack>>
    BY <1>2, <1>8, <2>1, StepJump, LabelsAre
  <2> QED BY <1>1, <1>4, <1>8, <2>1, <2>2
<1>9. CASE pc = 16
  <2>1. Runs(Imm(0, RAX)) /\ Up(regs, stack, 8, Frame)
    BY <1>1, <1>2, <1>9, StubInstructions
  <2>2. Computes /\ regs' = [regs EXCEPT ![RAX] = Num(0)]
    BY <1>1, <1>2, <1>9, <2>1, StepImm
  <2>3. Up(regs', stack', 8, Frame) /\ regs'[RAX] = Num(0) /\ \A s \in Regs \ {RAX} : regs'[s] = regs[s]
    <3>1. Up(regs, stack, 8, Frame) /\ RAX \in Regs \ {RSP}
      BY <1>3, <2>1
    <3> QED BY <3>1, <2>2, Sets
  <2>4. pc' = 17 /\ UNCHANGED <<task, state, called>>
    BY <1>9, <2>2 DEF Computes, Moves
  <2>5. regs'[RSI] = Num(2 * a) /\ regs'[RDX] = Word("argv", 0) /\ regs'[R14] = Num(a)
    BY <1>1, <1>3, <1>9, <2>3
  <2> QED BY <1>4, <2>3, <2>4, <2>5
<1>10. CASE pc = 17
  <2>1. Runs(Push(RAX)) /\ Up(regs, stack, 8, Frame) /\ Frame[8 + 1] = regs[RAX]
    <3>1. Frame[9] = Num(0)
      BY <1>2, FrameIs DEF a
    <3>2. Runs(Push(RAX)) /\ Up(regs, stack, 8, Frame)
      BY <1>1, <1>2, <1>10, StubInstructions
    <3>3. regs[RAX] = Num(0) /\ 8 + 1 = 9
      BY <1>1, <1>10
    <3> QED BY <3>1, <3>2, <3>3
  <2>2. /\ Moves /\ UNCHANGED <<equal, called>> /\ Up(regs', stack', 8 + 1, Frame)
        /\ \A s \in Regs \ {RSP} : regs'[s] = regs[s]
    BY <1>2, <2>1, Pushes
  <2>3. pc' = 18 /\ UNCHANGED <<task, state, called>>
    BY <1>10, <2>2 DEF Moves
  <2>4. regs'[RSI] = Num(2 * a) /\ regs'[RDX] = Word("argv", 0) /\ regs'[R14] = Num(a)
    BY <1>1, <1>3, <1>10, <2>2
  <2> QED BY <1>4, <2>2, <2>3, <2>4
<1>11. CASE pc = 18
  <2>1. Runs(Label("even")) /\ Up(regs, stack, 9, Frame)
    BY <1>1, <1>2, <1>11, StubInstructions
  <2>2. pc' = 19 /\ UNCHANGED <<task, state, called, regs, stack>>
    BY <1>2, <1>11, <2>1, StepLabel DEF Computes, Moves
  <2> QED BY <1>1, <1>4, <1>11, <2>1, <2>2
<1>12. CASE pc = 19
  <2>1. Runs(Mov(R14, RBX)) /\ Up(regs, stack, 9, Frame)
    BY <1>1, <1>2, <1>12, StubInstructions
  <2>2. Computes /\ regs' = [regs EXCEPT ![RBX] = Num(a)]
    BY <1>1, <1>2, <1>12, <2>1, StepMov
  <2>3. Up(regs', stack', 9, Frame) /\ regs'[RBX] = Num(a) /\ \A s \in Regs \ {RBX} : regs'[s] = regs[s]
    <3>1. Up(regs, stack, 9, Frame) /\ RBX \in Regs \ {RSP}
      BY <1>3, <2>1
    <3> QED BY <3>1, <2>2, Sets
  <2>4. pc' = 20 /\ UNCHANGED <<task, state, called>>
    BY <1>12, <2>2 DEF Computes, Moves
  <2>5. regs'[RSI] = Num(2 * a) /\ regs'[RDX] = Word("argv", 0) /\ regs'[R14] = Num(a)
    BY <1>1, <1>3, <1>12, <2>3
  <2> QED BY <1>4, <2>3, <2>4, <2>5
<1>13. CASE pc = 20
  <2>1. Runs(Shl(3, RBX)) /\ Up(regs, stack, 9, Frame)
    BY <1>1, <1>2, <1>13, StubInstructions
  <2>2. Computes /\ regs' = [regs EXCEPT ![RBX] = Num(8 * a)]
    BY <1>1, <1>2, <1>13, <2>1, StepShl, Sums
  <2>3. Up(regs', stack', 9, Frame) /\ regs'[RBX] = Num(8 * a) /\ \A s \in Regs \ {RBX} : regs'[s] = regs[s]
    <3>1. Up(regs, stack, 9, Frame) /\ RBX \in Regs \ {RSP}
      BY <1>3, <2>1
    <3> QED BY <3>1, <2>2, Sets
  <2>4. pc' = 21 /\ UNCHANGED <<task, state, called>>
    BY <1>13, <2>2 DEF Computes, Moves
  <2>5. regs'[RSI] = Num(2 * a) /\ regs'[RDX] = Word("argv", 0) /\ regs'[R14] = Num(a)
    BY <1>1, <1>3, <1>13, <2>3
  <2> QED BY <1>4, <2>3, <2>4, <2>5
<1>14. CASE pc = 21
  <2>1. Runs(Add(RDX, RBX)) /\ Up(regs, stack, 9, Frame)
    BY <1>1, <1>2, <1>14, StubInstructions
  <2>2. Plus(regs[RBX], regs[RDX]) = Word("argv", 8 * a)
    <3> DEFINE b == 8 * a
    <3>1. b \in Int /\ 0 + b = b /\ regs[RBX] = Num(b) /\ regs[RDX] = Word("argv", 0)
      BY <1>1, <1>2, <1>14
    <3> HIDE DEF b
    <3>2. Plus(regs[RBX], regs[RDX]) = Word("argv", b)
      BY <3>1, Sums
    <3> QED BY <3>2 DEF b
  <2>3. Computes /\ regs' = [regs EXCEPT ![RBX] = Word("argv", 8 * a)]
    BY <1>2, <2>1, <2>2, StepAdd
  <2>4. Up(regs', stack', 9, Frame) /\ regs'[RBX] = Word("argv", 8 * a) /\ \A s \in Regs \ {RBX} : regs'[s] = regs[s]
    <3>1. Up(regs, stack, 9, Frame) /\ RBX \in Regs \ {RSP}
      BY <1>3, <2>1
    <3> QED BY <3>1, <2>3, Sets
  <2>5. pc' = 22 /\ UNCHANGED <<task, state, called>>
    BY <1>14, <2>3 DEF Computes, Moves
  <2>6. regs'[RSI] = Num(2 * a) /\ regs'[RDX] = Word("argv", 0) /\ regs'[R14] = Num(a)
    BY <1>1, <1>3, <1>14, <2>4
  <2> QED BY <1>4, <2>4, <2>5, <2>6
<1>15. CASE pc = 22
  <2>1. Runs(JumpIf(Always, "args_loop")) /\ Up(regs, stack, 9 + 0, Frame)
    BY <1>1, <1>2, <1>15, StubInstructions
  <2>2. pc' = 23 /\ UNCHANGED <<task, state, called, regs, stack>>
    BY <1>2, <1>15, <2>1, StepJump, LabelsAre
  <2>3. Frame' = Frame /\ task'.argc = a
    BY <2>2, TaskKept DEF a
  <2>4. regs[RBX] = Word("argv", 8 * (a - 0) - 0) /\ (0 < a \/ a = 0) /\ 0 \in 0..a
    BY <1>1, <1>2, <1>15
  <2>5. PushingOne(0)'
    BY <2>1, <2>2, <2>3, <2>4 DEF PushingOne
  <2> QED BY <1>1, <1>2, <2>2, <2>3, <2>4, <2>5 DEF Pushing, Given, Counted
<1> QED BY <1>1, <1>5, <1>6, <1>7, <1>8, <1>9, <1>10, <1>11, <1>12, <1>13, <1>14, <1>15

(***************************************************************************)
(* The loop of the stub: m arguments pushed, the last m of the array.      *)
(***************************************************************************)

\* Below the address of the m last arguments is the one before them, and below the array is nothing.
LEMMA ArgumentIs ==
  ASSUME task.kind = "stub", task.argc \in Nat, NEW m \in 0..task.argc
  PROVE  LET w == Word("argv", 8 * (task.argc - m) - 8) IN
         /\ m < task.argc => Mapped(w) /\ Read(w) = Argument(task.argc - m)
         /\ m = task.argc => ~Mapped(w)
<1> DEFINE a == task.argc
           o == 8 * (a - m) - 8
<1>1. Arguments = [i \in 1..a |-> Argument(i)] /\ Len(Arguments) = a /\ a \in Nat
  BY DEF Arguments
<1>2. /\ Word("argv", o).base = "argv" /\ Word("argv", o).off = o /\ "argv" # "stack"
  BY DEF Word
<1>3. Mapped(Word("argv", o)) <=> o >= 0 /\ o < 8 * a
  BY <1>1, <1>2 DEF Mapped
<1>4. Read(Word("argv", o)) = Arguments[o \div 8 + 1]
  BY <1>2 DEF Read
<1>5. CASE m < a
  <2>1. o = 8 * (a - m - 1) /\ a - m - 1 \in Nat
    BY <1>1, <1>5
  <2>2. o \div 8 = a - m - 1 /\ o >= 0 /\ o < 8 * a
    BY <1>1, <1>5, <2>1
  <2>3. o \div 8 + 1 = a - m /\ a - m \in 1..a
    BY <1>1, <1>5, <2>2
  <2> HIDE DEF o
  <2>4. Arguments[o \div 8 + 1] = Argument(a - m)
    BY <1>1, <2>3
  <2> QED BY <1>3, <1>4, <1>5, <2>2, <2>4 DEF o
<1>6. CASE m = a
  <2>1. ~(o >= 0)
    BY <1>1, <1>6
  <2> QED BY <1>3, <1>6, <2>1
<1> QED BY <1>5, <1>6

\* A turn of the loop pushes one argument; without arguments it reads below the array and faults.
LEMMA PushingSteps ==
  ASSUME StubRuns, Pushing
  PROVE  /\ task' = task
         /\ \/ state' = "runs" /\ (Pushing' \/ Clearing')
            \/ state' = "fault" /\ called' = <<>> /\ task.argc = 0
<1> DEFINE a == task.argc
<1>1. PICK m \in 0..a : PushingOne(m)
  BY DEF Pushing
<1> DEFINE b == Word("argv", 8 * (a - m) - (IF pc \in {25, 26} THEN 8 ELSE 0))
<1>2. /\ pc \in 23..29 /\ called = <<>> /\ regs[RSI] = Num(2 * a) /\ regs[RDX] = Word("argv", 0)
      /\ Up(regs, stack, 9 + m, Frame) /\ regs[RBX] = b
      /\ (pc <= 26 => (m < a \/ a = 0)) /\ (pc = 26 => m < a /\ regs[RAX] = Argument(a - m))
      /\ (pc >= 27 => m > 0) /\ (pc = 29 => equal = (m = a))
  BY <1>1 DEF Pushing, PushingOne, Given, Counted
<1>3. Runs(EntryStub[pc]) /\ state = "runs" /\ task.kind = "stub" /\ a \in Nat /\ Next /\ m \in Nat /\ m <= a
  BY <1>2, RunsStub DEF StubRuns
<1>4. /\ RAX \in Regs \ {RSP} /\ RBX \in Regs \ {RSP, RAX}
      /\ RSI \in Regs \ {RAX, RBX, RSP} /\ RDX \in Regs \ {RAX, RBX, RSP}
  BY DEF Regs, RAX, RBX, RSP, RSI, RDX
<1>5. ASSUME NEW k \in 0..a, UNCHANGED <<task, state, called>>, pc' \in 23..29,
             Up(regs', stack', 9 + k, Frame), regs'[RSI] = Num(2 * a), regs'[RDX] = Word("argv", 0),
             regs'[RBX] = Word("argv", 8 * (a - k) - (IF pc' \in {25, 26} THEN 8 ELSE 0)),
             pc' <= 26 => (k < a \/ a = 0), pc' = 26 => k < a /\ regs'[RAX] = Argument(a - k),
             pc' >= 27 => k > 0, pc' = 29 => equal' = (k = a)
      PROVE  state' = "runs" /\ task' = task /\ Pushing'
  <2>1. Frame' = Frame /\ task'.argc = a /\ called' = <<>> /\ state' = "runs"
    BY <1>2, <1>3, <1>5, TaskKept
  <2>2. PushingOne(k)'
    BY <1>5, <2>1 DEF PushingOne
  <2> QED BY <1>5, <2>1, <2>2 DEF Pushing, Given, Counted
<1> HIDE DEF a
<1>6. CASE pc = 23
  <2>1. Runs(Label("args"))
    BY <1>3, <1>6, StubInstructions
  <2>2. pc' = 24 /\ UNCHANGED <<task, state, called, regs, stack>>
    BY <1>3, <1>6, <2>1, StepLabel DEF Computes, Moves
  <2>3. regs'[RBX] = Word("argv", 8 * (a - m) - 0)
    BY <1>2, <1>6, <2>2
  <2> QED BY <1>2, <1>5, <1>6, <2>2, <2>3
<1>7. CASE pc = 24
  <2>1. Runs(AddImm(-8, RBX))
    BY <1>3, <1>7, StubInstructions
  <2>2. Plus(regs[RBX], Num(-8)) = Word("argv", 8 * (a - m) - 8)
    <3> DEFINE c == 8 * (a - m)
    <3>1. c \in Int /\ c - 0 = c /\ -8 \in Int /\ c + (-8) = c - 8 /\ regs[RBX] = Word("argv", c - 0)
      BY <1>2, <1>3, <1>7
    <3> HIDE DEF c
    <3>2. Plus(regs[RBX], Num(-8)) = Word("argv", c - 8)
      BY <3>1, Sums
    <3> QED BY <3>2 DEF c
  <2>3. Computes /\ regs' = [regs EXCEPT ![RBX] = Word("argv", 8 * (a - m) - 8)]
    BY <1>3, <2>1, <2>2, StepAddImm
  <2>4. Up(regs', stack', 9 + m, Frame) /\ regs'[RBX] = Word("argv", 8 * (a - m) - 8)
        /\ \A s \in Regs \ {RBX} : regs'[s] = regs[s]
    <3> DEFINE w == Word("argv", 8 * (a - m) - 8)
               n == 9 + m
    <3>1. regs' = [regs EXCEPT ![RBX] = w] /\ Up(regs, stack, n, Frame) /\ Computes /\ RBX \in Regs \ {RSP}
      BY <1>2, <1>4, <2>3
    <3> HIDE DEF w, n
    <3>2. Up(regs', stack', n, Frame) /\ regs'[RBX] = w /\ \A s \in Regs \ {RBX} : regs'[s] = regs[s]
      BY <3>1, Sets
    <3> QED BY <3>2 DEF w, n
  <2>5. pc' = 25 /\ UNCHANGED <<task, state, called>>
    BY <1>7, <2>3 DEF Computes, Moves
  <2>6. regs'[RSI] = Num(2 * a) /\ regs'[RDX] = Word("argv", 0)
    BY <1>2, <1>4, <2>4
  <2> QED BY <1>2, <1>5, <1>7, <2>4, <2>5, <2>6
<1>8. CASE pc = 25
  <2> DEFINE w == Word("argv", 8 * (a - m) - 8)
  <2>1. Runs(Load(RBX, RAX)) /\ regs[RBX] = w
    BY <1>2, <1>3, <1>8, StubInstructions
  <2>2. (m < a => Mapped(w) /\ Read(w) = Argument(a - m)) /\ (m = a => ~Mapped(w))
    BY <1>3, ArgumentIs DEF a
  <2> HIDE DEF w
  <2>3. CASE m < a
    <3>1. Computes /\ regs' = [regs EXCEPT ![RAX] = Argument(a - m)]
      BY <1>3, <2>1, <2>2, <2>3, StepLoad
    <3>2. Up(regs', stack', 9 + m, Frame) /\ regs'[RAX] = Argument(a - m) /\ \A s \in Regs \ {RAX} : regs'[s] = regs[s]
      <4>1. Up(regs, stack, 9 + m, Frame) /\ RAX \in Regs \ {RSP}
        BY <1>2, <1>4
      <4> QED BY <4>1, <3>1, Sets
    <3>3. pc' = 26 /\ UNCHANGED <<task, state, called>>
      BY <1>8, <3>1 DEF Computes, Moves
    <3>4. regs'[RSI] = Num(2 * a) /\ regs'[RDX] = Word("argv", 0) /\ regs'[RBX] = Word("argv", 8 * (a - m) - 8)
      BY <1>2, <1>4, <2>1, <3>2 DEF w
    <3> QED BY <1>2, <1>5, <1>8, <2>3, <3>2, <3>3, <3>4
  <2>4. CASE ~(m < a)
    <3>1. m = a /\ a = 0
      BY <1>2, <1>3, <1>8, <2>4
    <3>2. state' = "fault" /\ UNCHANGED <<task, called>>
      BY <1>3, <2>1, <2>2, <3>1, StepLoad
    <3> QED BY <1>2, <3>1, <3>2 DEF a
  <2> QED BY <2>3, <2>4
<1>9. CASE pc = 26
  <2>1. Runs(Push(RAX)) /\ Frame[9 + m + 1] = regs[RAX]
    BY <1>2, <1>3, <1>9, StubInstructions, FrameIs DEF a
  <2>2. 9 + m \in Nat /\ 9 + m + 1 = 9 + (m + 1) /\ m + 1 \in 0..a /\ m + 1 > 0
    BY <1>2, <1>3, <1>9
  <2>3. /\ Moves /\ UNCHANGED <<equal, called>> /\ Up(regs', stack', 9 + m + 1, Frame)
        /\ \A s \in Regs \ {RSP} : regs'[s] = regs[s]
    BY <1>2, <1>3, <2>1, <2>2, Pushes
  <2>4. pc' = 27 /\ UNCHANGED <<task, state, called>>
    BY <1>9, <2>3 DEF Moves
  <2>5. regs'[RSI] = Num(2 * a) /\ regs'[RDX] = Word("argv", 0) /\ regs'[RBX] = b
    BY <1>2, <1>4, <2>3
  <2>6. 8 * (a - m) - 8 = 8 * (a - (m + 1)) - 0
    BY <1>3
  <2>7. regs'[RBX] = Word("argv", 8 * (a - (m + 1)) - 0)
    BY <1>9, <2>5, <2>6
  <2> QED BY <1>5, <2>2, <2>3, <2>4, <2>5, <2>7
<1>10. CASE pc = 27
  <2>1. Runs(Label("args_loop"))
    BY <1>3, <1>10, StubInstructions
  <2>2. pc' = 28 /\ UNCHANGED <<task, state, called, regs, stack>>
    BY <1>3, <1>10, <2>1, StepLabel DEF Computes, Moves
  <2>3. regs'[RBX] = Word("argv", 8 * (a - m) - 0)
    BY <1>2, <1>10, <2>2
  <2> QED BY <1>2, <1>5, <1>10, <2>2, <2>3
<1>11. CASE pc = 28
  <2>1. Runs(Cmp(RBX, RDX)) /\ regs[RBX] = Word("argv", 8 * (a - m) - 0)
    BY <1>2, <1>3, <1>11, StubInstructions
  <2>2. Moves /\ UNCHANGED <<regs, stack, called>> /\ equal' = (regs[RBX] = regs[RDX])
    BY <1>3, <2>1, StepCmp
  <2>3. (regs[RBX] = regs[RDX]) <=> (m = a)
    <3>1. 8 * (a - m) - 0 = 0 <=> m = a
      BY <1>3
    <3> DEFINE c == 8 * (a - m) - 0
    <3> HIDE DEF c
    <3>2. Word("argv", c) = Word("argv", 0) <=> c = 0
      BY DEF Word
    <3> QED BY <1>2, <2>1, <3>1, <3>2 DEF c
  <2>4. equal' = (m = a) /\ pc' = 29 /\ UNCHANGED <<task, state, called, regs, stack>>
    BY <1>11, <2>2, <2>3 DEF Moves
  <2> QED BY <1>2, <1>5, <1>11, <2>1, <2>4
<1>12. CASE pc = 29
  <2>1. Runs(JumpIf(OnNotEqual, "args")) /\ equal = (m = a) /\ regs[RBX] = Word("argv", 8 * (a - m) - 0)
    BY <1>2, <1>3, <1>12, StubInstructions
  <2>2. /\ UNCHANGED <<task, regs, equal, stack, state, called>>
        /\ pc' = IF equal \in OnNotEqual /\ Bound("args") < pc THEN Bound("args") ELSE pc + 1
    BY <1>3, <2>1, StepJump
  <2>3. CASE m # a
    <3>1. pc' = 23 /\ m < a
      <4>1. equal \in OnNotEqual
        BY <2>1, <2>3 DEF OnNotEqual
      <4> QED BY <1>3, <1>12, <2>2, <2>3, <4>1, LabelsAre
    <3> QED BY <1>2, <1>5, <1>12, <2>1, <2>2, <3>1
  <2>4. CASE m = a
    <3>1. pc' = 30 /\ a > 0
      <4>1. equal \notin OnNotEqual
        BY <2>1, <2>4 DEF OnNotEqual
      <4> QED BY <1>2, <1>3, <1>12, <2>2, <2>4, <4>1
    <3>2. Frame' = Frame /\ task'.argc = a
      BY <2>2, TaskKept DEF a
    <3>3. Clearing'
      BY <1>2, <2>2, <2>4, <3>1, <3>2 DEF Clearing, Counted
    <3> QED BY <1>3, <2>2, <3>3
  <2> QED BY <2>3, <2>4
<1> QED BY <1>2, <1>6, <1>7, <1>8, <1>9, <1>10, <1>11, <1>12

(***************************************************************************)
(* The stub, from the end of its loop to the call.                         *)
(***************************************************************************)

\* Clearing a register changes none of those that are cleared before or needed after.
LEMMA ClearedApart ==
  /\ \A i \in 1..12 : Cleared[i] \in Regs \ {RSP, RSI}
  /\ \A i \in 1..12 : (i # 1 => Cleared[i] # RAX) /\ (i # 11 => Cleared[i] # R14)
<1> SUFFICES ASSUME NEW i \in 1..12
             PROVE  Cleared[i] \in Regs \ {RSP, RSI} /\ (i # 1 => Cleared[i] # RAX) /\ (i # 11 => Cleared[i] # R14)
  OBVIOUS
<1>1. i = 1 \/ i = 2 \/ i = 3 \/ i = 4 \/ i = 5 \/ i = 6 \/ i = 7 \/ i = 8 \/ i = 9 \/ i = 10 \/ i = 11 \/ i = 12
  OBVIOUS
<1> QED BY <1>1, ClearedAre DEF Regs, RAX, RCX, RDX, RBX, RSP, RSI, R11, R12, R13, R14, R15

\* From the loop to the call.
LEMMA ClearingSteps ==
  ASSUME StubRuns, Clearing
  PROVE  state' = "runs" /\ task' = task /\ (Clearing' \/ Unwinding')
<1> DEFINE a == task.argc
           n == 9 + a
<1>1. /\ pc \in 30..44 /\ called = <<>> /\ regs[RSI] = Num(2 * a) /\ a > 0 /\ Up(regs, stack, n, Frame)
      /\ \A i \in 1..12 : i <= pc - 30 /\ (pc >= 43 => i # 1) /\ (pc = 44 => i # 11) => regs[Cleared[i]] = Num(0)
      /\ (pc >= 43 => regs[RAX] = Num(2 * a))
  BY DEF Clearing, Counted
<1>2. Runs(EntryStub[pc]) /\ state = "runs" /\ task.kind = "stub" /\ a \in Nat /\ Next /\ n \in Nat
  <2>1. state = "runs" /\ task.kind = "stub" /\ a \in Nat /\ Next
    BY DEF StubRuns
  <2>2. pc \in 1..65
    BY <1>1
  <2> QED BY <2>1, <2>2, RunsStub
<1>3. RAX \in Regs \ {RSP, RSI} /\ R14 \in Regs \ {RSP, RSI, RAX} /\ RSI \in Regs
  BY DEF Regs, RAX, RSP, R14, RSI
<1>4. ASSUME UNCHANGED <<task, state, called>>, pc' \in 30..44, regs'[RSI] = Num(2 * a), Up(regs', stack', n, Frame),
             \A i \in 1..12 : i <= pc' - 30 /\ (pc' >= 43 => i # 1) /\ (pc' = 44 => i # 11) => regs'[Cleared[i]] = Num(0),
             pc' >= 43 => regs'[RAX] = Num(2 * a)
      PROVE  state' = "runs" /\ task' = task /\ Clearing'
  <2>1. Frame' = Frame /\ task'.argc = a /\ called' = <<>> /\ state' = "runs"
    BY <1>1, <1>2, <1>4, TaskKept
  <2> QED BY <1>1, <1>4, <2>1 DEF Clearing, Counted
<1> HIDE DEF n
<1>5. CASE pc \in 30..41
  <2> DEFINE k == pc - 29
             y == Cleared[k]
  <2>1. k \in 1..12 /\ 29 + k = pc /\ pc + 1 \in 31..42 /\ pc + 1 - 30 = k
    BY <1>5
  <2>2. Runs(Xor(y, y)) /\ y \in Regs \ {RSP, RSI}
    BY <1>2, <2>1, StubInstructions, ClearedApart
  <2> HIDE DEF k, y
  <2>3. Computes /\ regs' = [regs EXCEPT ![y] = Num(0)]
    BY <1>2, <2>2, StepClear
  <2>4. Up(regs', stack', n, Frame) /\ regs'[y] = Num(0) /\ \A s \in Regs \ {y} : regs'[s] = regs[s]
    <3>1. Up(regs, stack, n, Frame) /\ y \in Regs \ {RSP}
      BY <1>1, <2>2
    <3> QED BY <3>1, <2>3, Sets
  <2>5. pc' = pc + 1 /\ UNCHANGED <<task, state, called>>
    BY <2>3 DEF Computes, Moves
  <2>6. \A i \in 1..12 : i <= k => regs'[Cleared[i]] = Num(0)
    <3> SUFFICES ASSUME NEW i \in 1..12, i <= k PROVE regs'[Cleared[i]] = Num(0)
      OBVIOUS
    <3>1. CASE i = k
      BY <2>4, <3>1 DEF y
    <3>2. CASE i # k
      <4>1. i <= pc - 30 /\ ~(pc >= 43) /\ ~(pc = 44)
        BY <1>5, <2>1, <3>2
      <4>2. regs[Cleared[i]] = Num(0) /\ Cleared[i] \in Regs
        BY <1>1, <4>1, ClearedApart
      <4> QED BY <2>4, <4>2
    <3> QED BY <3>1, <3>2
  <2>7. regs'[RSI] = Num(2 * a)
    BY <1>1, <1>3, <2>2, <2>4
  <2>8. pc' \in 30..44 /\ ~(pc' >= 43) /\ pc' - 30 = k
    BY <2>1, <2>5
  <2> HIDE DEF a
  <2> QED BY <1>4, <2>4, <2>5, <2>6, <2>7, <2>8
<1>6. CASE pc = 42
  <2>1. Runs(Mov(RSI, RAX))
    BY <1>2, <1>6, StubInstructions
  <2>2. Computes /\ regs' = [regs EXCEPT ![RAX] = regs[RSI]]
    BY <1>2, <2>1, StepMov
  <2>3. Up(regs', stack', n, Frame) /\ regs'[RAX] = regs[RSI] /\ \A s \in Regs \ {RAX} : regs'[s] = regs[s]
    <3>1. Up(regs, stack, n, Frame) /\ RAX \in Regs \ {RSP}
      BY <1>1, <1>3
    <3> QED BY <3>1, <2>2, Sets
  <2>4. pc' = 43 /\ UNCHANGED <<task, state, called>>
    BY <1>6, <2>2 DEF Computes, Moves
  <2>5. \A i \in 1..12 : i # 1 => regs'[Cleared[i]] = Num(0)
    <3> SUFFICES ASSUME NEW i \in 1..12, i # 1 PROVE regs'[Cleared[i]] = Num(0)
      OBVIOUS
    <3>1. i <= pc - 30 /\ ~(pc >= 43) /\ ~(pc = 44)
      BY <1>6
    <3> QED BY <1>1, <2>3, <3>1, ClearedApart
  <2>6. regs'[RSI] = Num(2 * a) /\ regs'[RAX] = Num(2 * a)
    BY <1>1, <1>3, <2>3
  <2> HIDE DEF a
  <2> QED BY <1>4, <2>3, <2>4, <2>5, <2>6
<1>7. CASE pc = 43
  <2>1. Runs(Mov(RDI, R14))
    BY <1>2, <1>7, StubInstructions
  <2>2. Computes /\ regs' = [regs EXCEPT ![R14] = regs[RDI]]
    BY <1>2, <2>1, StepMov
  <2>3. Up(regs', stack', n, Frame) /\ \A s \in Regs \ {R14} : regs'[s] = regs[s]
    <3>1. Up(regs, stack, n, Frame) /\ R14 \in Regs \ {RSP}
      BY <1>1, <1>3
    <3> QED BY <3>1, <2>2, Sets
  <2>4. pc' = 44 /\ UNCHANGED <<task, state, called>>
    BY <1>7, <2>2 DEF Computes, Moves
  <2>5. \A i \in 1..12 : i # 1 /\ i # 11 => regs'[Cleared[i]] = Num(0)
    <3> SUFFICES ASSUME NEW i \in 1..12, i # 1, i # 11 PROVE regs'[Cleared[i]] = Num(0)
      OBVIOUS
    <3>1. i <= pc - 30 /\ ~(pc = 44)
      BY <1>7
    <3> QED BY <1>1, <2>3, <3>1, ClearedApart
  <2>6. regs'[RSI] = Num(2 * a) /\ regs'[RAX] = Num(2 * a)
    BY <1>1, <1>3, <1>7, <2>3
  <2> HIDE DEF a
  <2> QED BY <1>4, <2>3, <2>4, <2>5, <2>6
<1>8. CASE pc = 44
  <2> DEFINE c == [regs |-> regs, stack |-> stack]
  <2>1. Runs(Call(R14))
    BY <1>2, <1>8, StubInstructions
  <2>2. /\ Moves /\ UNCHANGED <<equal, stack>> /\ called' = Append(called, c)
        /\ \E keeps \in {{RSP, RBP}, {RSP, RBP, RSI}} :
             regs' = [s \in Regs |-> IF s \in keeps THEN regs[s] ELSE Word("callee", s)]
    BY <1>2, <2>1, StepCall
  <2>3. c.regs = regs /\ c.stack = stack
    OBVIOUS
  <2> HIDE DEF c
  <2>4. called' = <<c>>
    BY <1>1, <2>2
  <2>5. Len(called') = 1 /\ called'[1] = c
    BY <2>4
  <2>6. pc' = 45 /\ UNCHANGED <<task, state, stack>> /\ Frame' = Frame
    BY <1>8, <2>2, TaskKept DEF Moves
  <2>7. DOMAIN regs' = Regs /\ regs'[RSP] = Word("stack", -8 * n)
    BY <1>1, <2>2, RegistersAre DEF Up
  <2>8. \A i \in 1..12 : i \notin {1, 11} => c.regs[Cleared[i]] = Num(0)
    <3> SUFFICES ASSUME NEW i \in 1..12, i \notin {1, 11} PROVE c.regs[Cleared[i]] = Num(0)
      OBVIOUS
    <3>1. i <= pc - 30 /\ i # 1 /\ i # 11
      BY <1>8
    <3> QED BY <1>1, <2>3, <3>1
  <2>9. Entered(called[1])'
    <3>1. Up(c.regs, c.stack, n, Frame) /\ c.regs[RAX] = Num(2 * a)
      BY <1>1, <1>8, <2>3
    <3>2. task'.argc = a
      BY <2>6
    <3> QED BY <2>5, <2>6, <2>8, <3>1, <3>2 DEF Entered, n
  <2>10. Once'
    BY <1>1, <2>4, <2>5, <2>6, <2>9 DEF Once
  <2>11. Held(stack', n, Frame')
    BY <1>1, <2>6 DEF Up
  <2>12. Unwinding'
    BY <2>6, <2>7, <2>10, <2>11 DEF Unwinding, n
  <2> QED BY <1>2, <2>6, <2>12
<1> QED BY <1>1, <1>5, <1>6, <1>7, <1>8

(***************************************************************************)
(* The stub, after the call.                                               *)
(***************************************************************************)

\* No further call is made.
LEMMA OnceKept ==
  ASSUME Once, task' = task, called' = called
  PROVE  Once'
BY TaskKept DEF Once, Entered

\* The stack pointer stays where it was at the call: the instruction that should add to it adds it.
LEMMA UnwindingSteps ==
  ASSUME StubRuns, Unwinding
  PROVE  state' = "runs" /\ task' = task /\ (Unwinding' \/ Restoring')
<1> DEFINE n == 9 + task.argc
           off == IF pc \in 47..49 THEN 10 + task.argc ELSE 9 + task.argc
<1>1. /\ pc \in 45..55 /\ Once /\ DOMAIN regs = Regs /\ Held(stack, n, Frame)
      /\ regs[RSP] = Word("stack", -8 * off) /\ (pc \in 47..49 => -8 * (10 + task.argc) \in DOMAIN stack)
  BY DEF Unwinding
<1>2. Runs(EntryStub[pc]) /\ state = "runs" /\ task.kind = "stub" /\ task.argc \in Nat /\ Next /\ n \in Nat /\ n + 1 = 10 + task.argc
  BY <1>1, RunsStub DEF StubRuns
<1>3. RSI \in Regs \ {RSP} /\ R15 \in Regs \ {RSP} /\ RSP \in Regs
  BY DEF Regs, RSI, RSP, R15
<1>4. ASSUME UNCHANGED <<task, state, called>>, pc' \in 46..55, DOMAIN regs' = Regs, Held(stack', n, Frame),
             regs'[RSP] = Word("stack", -8 * (IF pc' \in 47..49 THEN 10 + task.argc ELSE 9 + task.argc)),
             pc' \in 47..49 => -8 * (10 + task.argc) \in DOMAIN stack'
      PROVE  state' = "runs" /\ task' = task /\ Unwinding'
  <2>1. Frame' = Frame /\ task'.argc = task.argc /\ state' = "runs" /\ Once'
    BY <1>1, <1>2, <1>4, TaskKept, OnceKept
  <2> QED BY <1>4, <2>1 DEF Unwinding
<1>5. ASSUME Computes, DOMAIN regs' = Regs, regs'[RSP] = regs[RSP], pc \notin {46, 49, 55}
      PROVE  state' = "runs" /\ task' = task /\ Unwinding'
  <2>2. pc' = pc + 1 /\ UNCHANGED <<task, state, called, stack>>
    BY <1>5 DEF Computes, Moves
  <2>3. pc' \in 46..55 /\ (pc' \in 47..49 <=> pc \in 47..49)
    BY <1>1, <1>5, <2>2
  <2> QED BY <1>1, <1>4, <1>5, <2>2, <2>3
<1>6. ASSUME UNCHANGED <<task, regs, stack, state, called>>, pc' = pc + 1, pc \notin {46, 49, 55}
      PROVE  state' = "runs" /\ task' = task /\ Unwinding'
  <2>1. pc' \in 46..55 /\ (pc' \in 47..49 <=> pc \in 47..49)
    BY <1>1, <1>6
  <2> QED BY <1>1, <1>4, <1>6, <2>1
<1> HIDE DEF n
<1>7. CASE pc = 45
  <2>1. Runs(ShrOne(RSI))
    BY <1>2, <1>7, StubInstructions
  <2>2. Computes /\ regs' = [regs EXCEPT ![RSI] = Halved(regs[RSI])]
    BY <1>2, <2>1, StepShr
  <2>3. DOMAIN regs' = Regs /\ regs'[RSP] = regs[RSP]
    BY <1>1, <1>3, <2>2
  <2> QED BY <1>5, <1>7, <2>2, <2>3
<1>8. CASE pc = 46
  <2> DEFINE top == -8 * (10 + task.argc)
  <2>1. Runs(Push(R15)) /\ regs[RSP] = Word("stack", -8 * n)
    BY <1>1, <1>2, <1>8, StubInstructions DEF n
  <2>2. top = regs[RSP].off - 8 /\ top \in Int /\ \A j \in 1..n : -8 * j # top
    BY <1>2, <2>1 DEF Word
  <2> HIDE DEF top
  <2>3. /\ Moves /\ UNCHANGED <<equal, called>>
        /\ stack' = [o \in DOMAIN stack \cup {top} |-> IF o = top THEN regs[R15] ELSE stack[o]]
        /\ regs' = [regs EXCEPT ![RSP].off = top]
    BY <1>2, <2>1, <2>2, StepPush
  <2>4. DOMAIN regs' = Regs /\ regs'[RSP] = Word("stack", top) /\ top \in DOMAIN stack'
    BY <1>1, <1>3, <2>1, <2>3 DEF Word
  <2>5. Held(stack', n, Frame)
    <3> SUFFICES ASSUME NEW j \in 1..n PROVE -8 * j \in DOMAIN stack' /\ stack'[-8 * j] = Frame[j]
      BY DEF Held
    <3>1. -8 * j \in DOMAIN stack /\ stack[-8 * j] = Frame[j] /\ -8 * j # top
      BY <1>1, <2>2 DEF Held
    <3> DEFINE o == -8 * j
    <3> HIDE DEF o
    <3>2. o \in DOMAIN stack /\ stack[o] = Frame[j] /\ o # top
      BY <3>1 DEF o
    <3>3. o \in DOMAIN stack' /\ stack'[o] = Frame[j]
      BY <2>3, <3>2
    <3> QED BY <3>3 DEF o
  <2>6. pc' = 47 /\ UNCHANGED <<task, state, called>>
    BY <1>8, <2>3 DEF Moves
  <2> QED BY <1>4, <2>4, <2>5, <2>6 DEF top
<1>9. CASE pc = 47
  <2>1. Runs(Imm(1, R15))
    BY <1>2, <1>9, StubInstructions
  <2>2. Computes /\ regs' = [regs EXCEPT ![R15] = Num(1)]
    BY <1>2, <2>1, StepImm
  <2>3. DOMAIN regs' = Regs /\ regs'[RSP] = regs[RSP]
    BY <1>1, <1>3, <2>2
  <2> QED BY <1>5, <1>9, <2>2, <2>3
<1>10. CASE pc = 48
  <2>1. Runs(Test(RSI, R15))
    BY <1>2, <1>10, StubInstructions
  <2>2. pc' = pc + 1 /\ UNCHANGED <<task, regs, stack, state, called>>
    BY <1>2, <2>1, StepTest DEF Moves
  <2> QED BY <1>6, <1>10, <2>2
<1>11. CASE pc = 49
  <2> DEFINE top == -8 * (10 + task.argc)
  <2>1. Runs(Pop(R15)) /\ regs[RSP] = Word("stack", top) /\ top \in DOMAIN stack /\ top + 8 = -8 * n
    BY <1>1, <1>2, <1>11, StubInstructions DEF n
  <2> HIDE DEF top
  <2>2. Mapped(regs[RSP])
    BY <2>1 DEF Mapped, Word
  <2>3. Computes /\ regs' = [regs EXCEPT ![RSP].off = @ + 8, ![R15] = Read(regs[RSP])]
    BY <1>2, <2>1, <2>2, StepPop
  <2>4. DOMAIN regs' = Regs /\ regs'[RSP] = Word("stack", top + 8)
    BY <1>1, <1>3, <2>1, <2>3 DEF Word
  <2>5. pc' = 50 /\ UNCHANGED <<task, state, called, stack>>
    BY <1>11, <2>3 DEF Computes, Moves
  <2>6. regs'[RSP] = Word("stack", -8 * (9 + task.argc))
    BY <2>1, <2>4 DEF n
  <2> QED BY <1>1, <1>4, <2>4, <2>5, <2>6
<1>12. CASE pc = 50
  <2>1. Runs(JumpIf(OnEqual, "unwind_even"))
    BY <1>2, <1>12, StubInstructions
  <2>2. pc' = pc + 1 /\ UNCHANGED <<task, regs, stack, state, called>>
    BY <1>2, <1>12, <2>1, StepJump, LabelsAre
  <2> QED BY <1>6, <1>12, <2>2
<1>13. CASE pc = 51
  <2>1. Runs(AddImm(1, RSI))
    BY <1>2, <1>13, StubInstructions
  <2>2. Computes /\ regs' = [regs EXCEPT ![RSI] = Plus(regs[RSI], Num(1))]
    BY <1>2, <2>1, StepAddImm
  <2>3. DOMAIN regs' = Regs /\ regs'[RSP] = regs[RSP]
    BY <1>1, <1>3, <2>2
  <2> QED BY <1>5, <1>13, <2>2, <2>3
<1>14. CASE pc = 52
  <2>1. Runs(Label("unwind_even"))
    BY <1>2, <1>14, StubInstructions
  <2>2. pc' = pc + 1 /\ UNCHANGED <<task, regs, stack, state, called>>
    BY <1>2, <1>14, <2>1, StepLabel DEF Computes, Moves
  <2> QED BY <1>6, <1>14, <2>2
<1>15. CASE pc = 53
  <2>1. Runs(Shl(3, RSI))
    BY <1>2, <1>15, StubInstructions
  <2>2. Computes /\ regs' = [regs EXCEPT ![RSI] = Scaled(regs[RSI], Power(3))]
    BY <1>2, <2>1, StepShl
  <2>3. DOMAIN regs' = Regs /\ regs'[RSP] = regs[RSP]
    BY <1>1, <1>3, <2>2
  <2> QED BY <1>5, <1>15, <2>2, <2>3
<1>16. CASE pc = 54
  <2>1. Runs(Add(RSP, RSI))
    BY <1>2, <1>16, StubInstructions
  <2>2. Computes /\ regs' = [regs EXCEPT ![RSI] = Plus(regs[RSI], regs[RSP])]
    BY <1>2, <2>1, StepAdd
  <2>3. DOMAIN regs' = Regs /\ regs'[RSP] = regs[RSP]
    BY <1>1, <1>3, <2>2
  <2> QED BY <1>5, <1>16, <2>2, <2>3
<1>17. CASE pc = 55
  <2>1. Runs(Xor(RSI, RSI)) /\ Up(regs, stack, n, Frame)
    BY <1>1, <1>2, <1>17, StubInstructions DEF Up, n
  <2>2. Computes /\ regs' = [regs EXCEPT ![RSI] = Num(0)]
    BY <1>2, <2>1, StepClear
  <2>3. Up(regs', stack', n, Frame)
    <3>1. Up(regs, stack, n, Frame) /\ RSI \in Regs \ {RSP}
      BY <1>3, <2>1
    <3> QED BY <3>1, <2>2, Sets
  <2>4. pc' = 56 /\ UNCHANGED <<task, state, called>> /\ Frame' = Frame /\ Once'
    BY <1>1, <1>17, <2>2, TaskKept, OnceKept DEF Computes, Moves
  <2>5. 65 + task'.argc - pc' = n
    BY <1>2, <2>4 DEF n
  <2>6. Restoring'
    BY <2>3, <2>4, <2>5 DEF Restoring
  <2> QED BY <1>2, <2>4, <2>6
<1> QED BY <1>1, <1>7, <1>8, <1>9, <1>10, <1>11, <1>12, <1>13, <1>14, <1>15, <1>16, <1>17

\* The registers kept differ.
LEMMA KeptApart ==
  \A i \in 1..7, j \in 1..7 : i # j => Kept[i] # Kept[j]
<1> SUFFICES ASSUME NEW i \in 1..7, NEW j \in 1..7, i # j PROVE Kept[i] # Kept[j]
  OBVIOUS
<1>1. i = 1 \/ i = 2 \/ i = 3 \/ i = 4 \/ i = 5 \/ i = 6 \/ i = 7
  OBVIOUS
<1>2. j = 1 \/ j = 2 \/ j = 3 \/ j = 4 \/ j = 5 \/ j = 6 \/ j = 7
  OBVIOUS
<1> QED BY <1>1, <1>2, KeptAre DEF RBX, RBP, R11, R12, R13, R14, R15

\* Popping the registers and taking the frame pointer popped for the stack.
LEMMA RestoringSteps ==
  ASSUME StubRuns, Restoring
  PROVE  state' = "runs" /\ task' = task /\ (Restoring' \/ Lost')
<1> DEFINE a == task.argc
<1>1. /\ pc \in 56..63 /\ Once /\ Up(regs, stack, 65 + a - pc, Frame)
      /\ \A k \in 1..7 : k <= pc - 56 => regs[Kept[8 - k]] = Frame[10 + a - k]
  BY DEF Restoring
<1>2. Runs(EntryStub[pc]) /\ state = "runs" /\ task.kind = "stub" /\ a \in Nat /\ Next
  BY <1>1, RunsStub DEF StubRuns
<1>3. CASE pc \in 56..62
  <2> DEFINE i == pc - 55
             r == Kept[8 - i]
             n == 64 + a - pc
  <2>1. i \in 1..7 /\ 55 + i = pc /\ 8 - i \in 1..7 /\ n \in Nat /\ n + 1 = 65 + a - pc /\ n + 1 = 10 + a - i
    BY <1>2, <1>3
  <2>2. Up(regs, stack, n + 1, Frame) /\ Runs(Pop(r)) /\ r \in Regs \ {RSP}
    BY <1>1, <1>2, <2>1, StubInstructions, RegistersAre
  <2> HIDE DEF i, r, n
  <2>3. /\ Computes /\ Up(regs', stack', n, Frame)
        /\ regs'[r] = Frame[n + 1] /\ \A s \in Regs \ {RSP, r} : regs'[s] = regs[s]
    BY <1>2, <2>1, <2>2, Pops
  <2>4. pc' = pc + 1 /\ UNCHANGED <<task, state, called>> /\ Frame' = Frame /\ Once'
    BY <1>1, <2>3, TaskKept, OnceKept DEF Computes, Moves
  <2>5. \A k \in 1..7 : k <= i => regs'[Kept[8 - k]] = Frame[10 + a - k]
    <3> SUFFICES ASSUME NEW k \in 1..7, k <= i PROVE regs'[Kept[8 - k]] = Frame[10 + a - k]
      OBVIOUS
    <3>1. CASE k = i
      <4>1. Kept[8 - k] = r /\ Frame[10 + a - k] = Frame[n + 1]
        BY <2>1, <3>1 DEF r
      <4> QED BY <2>3, <4>1
    <3>2. CASE k # i
      <4>1. 8 - k \in 1..7 /\ 8 - k # 8 - i /\ k <= pc - 56
        BY <2>1, <3>2
      <4>2. Kept[8 - k] \in Regs \ {RSP, r}
        BY <2>1, <4>1, RegistersAre, KeptApart DEF r
      <4> QED BY <1>1, <2>3, <4>1, <4>2
    <3> QED BY <3>1, <3>2
  <2>6. pc' \in 57..63 /\ pc' - 56 = i /\ 65 + task'.argc - pc' = n /\ task'.argc = a
    BY <1>2, <1>3, <2>1, <2>4 DEF n
  <2> HIDE DEF a
  <2>7. Restoring'
    BY <2>3, <2>4, <2>5, <2>6 DEF Restoring
  <2> QED BY <1>2, <2>4, <2>7
<1>4. CASE pc = 63
  <2>1. Runs(Mov(RBP, RSP)) /\ DOMAIN regs = Regs
    BY <1>1, <1>2, <1>4, StubInstructions DEF Up
  <2>2. Computes /\ regs' = [regs EXCEPT ![RSP] = regs[RBP]]
    BY <1>2, <2>1, StepMov
  <2>3. DOMAIN regs' = Regs /\ regs'[RSP] = regs[RBP] /\ \A s \in Regs \ {RSP} : regs'[s] = regs[s]
    BY <2>1, <2>2, RegistersAre
  <2>4. pc' = 64 /\ UNCHANGED <<task, state, called>> /\ Frame' = Frame /\ Once' /\ task'.argc = a
    BY <1>1, <1>4, <2>2, TaskKept, OnceKept DEF Computes, Moves
  <2>5. regs[RBP] = Frame[3 + a]
    <3>1. 7 <= pc - 56 /\ 8 - 7 = 1 /\ 10 + a - 7 = 3 + a /\ 7 \in 1..7
      BY <1>2, <1>4
    <3>2. regs[Kept[8 - 7]] = Frame[10 + a - 7]
      BY <1>1, <3>1
    <3> QED BY <3>1, <3>2, KeptAre
  <2>6. \A k \in 1..6 : regs'[Kept[8 - k]] = Frame[10 + a - k]
    <3> SUFFICES ASSUME NEW k \in 1..6 PROVE regs'[Kept[8 - k]] = Frame[10 + a - k]
      OBVIOUS
    <3>1. k \in 1..7 /\ k <= pc - 56 /\ 8 - k \in 1..7
      BY <1>4
    <3> QED BY <1>1, <2>3, <3>1, RegistersAre
  <2> HIDE DEF a
  <2>7. Lost'
    BY <2>3, <2>4, <2>5, <2>6 DEF Lost
  <2> QED BY <1>2, <2>4, <2>7
<1> QED BY <1>1, <1>3, <1>4

\* The frame pointer that the stub takes for its stack is no address of the stack.
LEMMA LostFrame ==
  ASSUME task.kind = "stub", task.argc \in Nat, task.argc > 0
  PROVE  ~Mapped(Frame[3 + task.argc])
<1> DEFINE j == 3 + task.argc
<1>1. j \in Nat /\ j >= 4
  OBVIOUS
<1>2. Frame[j] = IF j \in 3..8 THEN Caller(Kept[j - 1]) ELSE IF j = 9 THEN Num(0) ELSE Argument(task.argc + 10 - j)
  BY <1>1 DEF Frame
<1>3. Frame[j].base \in {"caller", "number", "argument"}
  <2> HIDE DEF j
  <2> QED BY <1>2 DEF Caller, Num, Argument, Word
<1> QED BY <1>3 DEF Mapped

\* The last pop of the stub faults.
LEMMA LostSteps ==
  ASSUME StubRuns, Lost
  PROVE  state' = "fault" /\ task' = task /\ Lost'
<1>1. pc = 64 /\ Once /\ regs[RSP] = Frame[3 + task.argc]
  BY DEF Lost
<1>2. Runs(EntryStub[64]) /\ Next /\ task.kind = "stub" /\ task.argc \in Nat /\ task.argc > 0
  BY <1>1, RunsStub DEF StubRuns, Once
<1>3. Runs(Pop(RBP)) /\ ~Mapped(regs[RSP])
  BY <1>1, <1>2, StubInstructions, LostFrame
<1>4. state' = "fault" /\ UNCHANGED <<task, pc, regs, equal, stack, called>>
  BY <1>2, <1>3, StepPop
<1>5. Frame' = Frame /\ Once'
  BY <1>1, <1>4, TaskKept, OnceKept
<1> QED BY <1>4, <1>5 DEF Lost

(***************************************************************************)
(* The parts of Masm, joined.                                              *)
(***************************************************************************)

\* The registers of pushad (asm.rs 120-148), in their order and in the reverse one.
LEMMA PushedAre ==
  /\ IsCode(Pushed, 12) /\ Pushed[1] = RAX /\ Pushed[2] = RBX /\ Pushed[3] = RCX /\ Pushed[4] = RDX
  /\ Pushed[5] = 8 /\ Pushed[6] = 9 /\ Pushed[7] = 10 /\ Pushed[8] = R11 /\ Pushed[9] = R12
  /\ Pushed[10] = R13 /\ Pushed[11] = RDI /\ Pushed[12] = RSI
  /\ IsCode(Reverse(Pushed), 12) /\ \A i \in 1..12 : Reverse(Pushed)[i] = Pushed[13 - i]
<1>1. /\ IsCode(Pushed, 12) /\ Pushed[1] = RAX /\ Pushed[2] = RBX /\ Pushed[3] = RCX /\ Pushed[4] = RDX
      /\ Pushed[5] = 8 /\ Pushed[6] = 9 /\ Pushed[7] = 10 /\ Pushed[8] = R11 /\ Pushed[9] = R12
      /\ Pushed[10] = R13 /\ Pushed[11] = RDI /\ Pushed[12] = RSI
  BY DEF IsCode, Pushed, ROOT_REG, CONTEXT_REG
<1>2. Pushed \in Seq({Pushed[i] : i \in 1..12})
  BY <1>1 DEF IsCode
<1>3. Len(Pushed) = 12
  BY <1>1, <1>2 DEF IsCode
<1>4. IsCode(Reverse(Pushed), 12)
  BY <1>3 DEF IsCode, Reverse
<1>5. \A i \in 1..12 : Reverse(Pushed)[i] = Pushed[13 - i]
  BY <1>3 DEF Reverse
<1> QED BY <1>1, <1>4, <1>5

\* What pushad and popad emit.
LEMMA PushadIs ==
  /\ IsCode(Pushad, 12) /\ \A i \in 1..12 : Pushad[i] = Push(Pushed[i])
  /\ IsCode(Popad(task.result), 12) /\ \A i \in 1..12 : Popad(task.result)[i] = Pop(Target(i))
<1>1. IsCode(Pushad, 12) /\ \A i \in 1..12 : Pushad[i] = Push(Pushed[i])
  BY PushedAre DEF IsCode, Pushad
<1>2. IsCode(Popad(task.result), 12)
  BY PushedAre DEF IsCode, Popad
<1>3. \A i \in 1..12 : Popad(task.result)[i] = PreservePop(Reverse(Pushed)[i], task.result)
  BY PushedAre DEF IsCode, Popad
<1>4. \A i \in 1..12 : PreservePop(Reverse(Pushed)[i], task.result) = Pop(Target(i))
  BY PushedAre DEF PreservePop, Target
<1> QED BY <1>1, <1>2, <1>3, <1>4

\* The pieces of an allocation (asm.rs 165-194): RAX is kept, the size is computed, the tag is added,
\* the result is moved and RAX comes back.
Taken == IF task.result # RAX THEN <<Push(RAX), Push(RAX)>> ELSE <<>>
Asked ==
  IF task.size = kNoRegister THEN <<Imm(2 * (Size + 8), RAX)>>
  ELSE <<Mov(task.size, RAX)>> \o Untag(RAX) \o <<AddImm(8, RAX)>> \o TagNumber(RAX)
Tagged == <<Push(RAX), Imm(2 * Tag, RAX), Push(RAX)>>
Handed == IF task.result # RAX THEN <<Mov(RAX, task.result), Pop(RAX), Pop(RAX)>> ELSE <<>>

\* All of them.
Allocation == Allocate(task.size, task.result)

\* The size is an immediate, or is computed from a register.
LEMMA AskedIs ==
  /\ IsCode(Asked, Mid)
  /\ task.size = kNoRegister => Asked[1] = Imm(2 * (Size + 8), RAX)
  /\ task.size # kNoRegister =>
       Asked[1] = Mov(task.size, RAX) /\ Asked[2] = ShrOne(RAX) /\ Asked[3] = AddImm(8, RAX) /\ Asked[4] = Shl(1, RAX)
<1>1. CASE task.size = kNoRegister
  BY <1>1 DEF Asked, Mid, IsCode
<1>2. CASE task.size # kNoRegister
  <2> DEFINE u == <<Mov(task.size, RAX)>>
             v == <<ShrOne(RAX)>>
             w == <<AddImm(8, RAX)>>
             x == <<Shl(1, RAX)>>
  <2>1. IsCode(u, 1) /\ IsCode(v, 1) /\ IsCode(w, 1) /\ IsCode(x, 1)
    BY DEF IsCode
  <2>2. u[1] = Mov(task.size, RAX) /\ v[1] = ShrOne(RAX) /\ w[1] = AddImm(8, RAX) /\ x[1] = Shl(1, RAX)
    OBVIOUS
  <2>3. Asked = u \o v \o w \o x /\ Mid = 4
    BY <1>2 DEF Asked, Mid, Untag, TagNumber
  <2> DEFINE s == u \o v
             t == s \o w
             z == t \o x
  <2> HIDE DEF u, v, w, x, s, t, z
  <2>4. 1 \in 1..1 /\ 1 + 1 = 2 /\ 2 + 1 = 3 /\ 3 + 1 = 4 /\ 1 \in 1..2 /\ 2 \in 1..2 /\ 1 \in 1..3 /\ 2 \in 1..3 /\ 3 \in 1..3
    OBVIOUS
  <2>5. IsCode(s, 2) /\ s[1] = u[1] /\ s[2] = v[1]
    <3>1. IsCode(s, 1 + 1) /\ (\A i \in 1..1 : s[i] = u[i]) /\ Stands(v, 1, s, 1)
      BY <2>1, Joined DEF s
    <3> QED BY <2>4, <3>1 DEF Stands
  <2>6. IsCode(t, 3) /\ t[1] = s[1] /\ t[2] = s[2] /\ t[3] = w[1]
    <3>1. IsCode(t, 2 + 1) /\ (\A i \in 1..2 : t[i] = s[i]) /\ Stands(w, 1, t, 2)
      <4>1. IsCode(s, 2) /\ IsCode(w, 1)
        BY <2>1, <2>5
      <4> QED BY <4>1, Joined DEF t
    <3> QED BY <2>4, <3>1 DEF Stands
  <2>7. IsCode(z, 4) /\ z[1] = t[1] /\ z[2] = t[2] /\ z[3] = t[3] /\ z[4] = x[1]
    <3>1. IsCode(z, 3 + 1) /\ (\A i \in 1..3 : z[i] = t[i]) /\ Stands(x, 1, z, 3)
      <4>1. IsCode(t, 3) /\ IsCode(x, 1)
        BY <2>1, <2>6
      <4> QED BY <4>1, Joined DEF z
    <3> QED BY <2>4, <3>1 DEF Stands
  <2>8. Asked = z
    BY <2>3 DEF z, t, s
  <2> QED BY <1>2, <2>2, <2>3, <2>5, <2>6, <2>7, <2>8
<1> QED BY <1>1, <1>2

\* The instructions of an allocation by their place.
LEMMA AllocationIs ==
  /\ IsCode(Allocation, AllocLen) /\ Pre \in {0, 2} /\ Mid \in {1, 4}
  /\ task.result # RAX => Pre = 2 /\ Allocation[1] = Push(RAX) /\ Allocation[2] = Push(RAX)
  /\ task.result = RAX => Pre = 0
  /\ Stands(Asked, Mid, Allocation, Pre)
  /\ Allocation[Pre + Mid + 1] = Push(RAX) /\ Allocation[Pre + Mid + 2] = Imm(2 * Tag, RAX)
  /\ Allocation[Pre + Mid + 3] = Push(RAX)
  /\ task.result # RAX =>
       /\ Allocation[Pre + Mid + 4] = Mov(RAX, task.result) /\ Allocation[Pre + Mid + 5] = Pop(RAX)
       /\ Allocation[Pre + Mid + 6] = Pop(RAX)
<1> DEFINE e == IF task.result # RAX THEN 3 ELSE 0
<1>1. Pre \in {0, 2} /\ Mid \in {1, 4} /\ (task.result # RAX => Pre = 2) /\ (task.result = RAX => Pre = 0)
      /\ e \in {0, 3} /\ AllocLen = Pre + Mid + 3 + e /\ (task.result # RAX => e = 3)
  BY DEF Pre, Mid, AllocLen
<1>2. IsCode(Taken, Pre) /\ (task.result # RAX => Taken[1] = Push(RAX) /\ Taken[2] = Push(RAX))
  BY DEF Taken, Pre, IsCode
<1>3. IsCode(Tagged, 3) /\ Tagged[1] = Push(RAX) /\ Tagged[2] = Imm(2 * Tag, RAX) /\ Tagged[3] = Push(RAX)
  BY DEF Tagged, IsCode
<1>4. IsCode(Handed, e) /\ (task.result # RAX => Handed[1] = Mov(RAX, task.result) /\ Handed[2] = Pop(RAX) /\ Handed[3] = Pop(RAX))
  BY DEF Handed, IsCode
<1>5. IsCode(Asked, Mid)
  BY AskedIs
<1>6. Allocation = Taken \o Asked \o Tagged \o Handed
  BY DEF Allocation, Allocate, Taken, Asked, Tagged, Handed
<1> DEFINE s == Taken \o Asked
           t == s \o Tagged
           z == t \o Handed
<1> HIDE DEF e, s, t, z
<1>7. IsCode(s, Pre + Mid) /\ (\A i \in 1..Pre : s[i] = Taken[i]) /\ Stands(Asked, Mid, s, Pre)
  <2>1. IsCode(Taken, Pre) /\ IsCode(Asked, Mid)
    BY <1>2, <1>5
  <2> QED BY <2>1, Joined DEF s
<1>8. IsCode(t, Pre + Mid + 3) /\ (\A i \in 1..(Pre + Mid) : t[i] = s[i]) /\ Stands(Tagged, 3, t, Pre + Mid)
  <2>1. IsCode(s, Pre + Mid) /\ IsCode(Tagged, 3)
    BY <1>3, <1>7
  <2> QED BY <2>1, Joined DEF t
<1>9. IsCode(z, Pre + Mid + 3 + e) /\ (\A i \in 1..(Pre + Mid + 3) : z[i] = t[i]) /\ Stands(Handed, e, z, Pre + Mid + 3)
  <2>1. IsCode(t, Pre + Mid + 3) /\ IsCode(Handed, e)
    BY <1>4, <1>8
  <2> QED BY <2>1, Joined DEF z
<1>10. Allocation = z
  BY <1>6 DEF z, t, s
<1>11. \A i \in 1..(Pre + Mid) : z[i] = s[i]
  BY <1>1, <1>8, <1>9
<1>12. Stands(Asked, Mid, z, Pre)
  <2>1. \A i \in 1..Mid : Pre + i \in 1..(Pre + Mid)
    BY <1>1
  <2> QED BY <2>1, <1>7, <1>11 DEF Stands
<1>13. task.result # RAX => z[1] = Push(RAX) /\ z[2] = Push(RAX)
  <2> SUFFICES ASSUME task.result # RAX PROVE z[1] = Push(RAX) /\ z[2] = Push(RAX)
    OBVIOUS
  <2>1. 1 \in 1..Pre /\ 2 \in 1..Pre /\ 1 \in 1..(Pre + Mid) /\ 2 \in 1..(Pre + Mid)
    BY <1>1
  <2> QED BY <2>1, <1>2, <1>7, <1>11
<1>14. z[Pre + Mid + 1] = Tagged[1] /\ z[Pre + Mid + 2] = Tagged[2] /\ z[Pre + Mid + 3] = Tagged[3]
  <2>1. \A i \in 1..3 : Pre + Mid + i \in 1..(Pre + Mid + 3)
    BY <1>1
  <2> QED BY <2>1, <1>8, <1>9 DEF Stands
<1>15. task.result # RAX => /\ z[Pre + Mid + 4] = Handed[1] /\ z[Pre + Mid + 5] = Handed[2] /\ z[Pre + Mid + 6] = Handed[3]
  <2> SUFFICES ASSUME task.result # RAX
               PROVE  /\ z[Pre + Mid + 4] = Handed[1] /\ z[Pre + Mid + 5] = Handed[2] /\ z[Pre + Mid + 6] = Handed[3]
    OBVIOUS
  <2>1. e = 3 /\ Pre + Mid + 3 + 1 = Pre + Mid + 4 /\ Pre + Mid + 3 + 2 = Pre + Mid + 5 /\ Pre + Mid + 3 + 3 = Pre + Mid + 6
    BY <1>1
  <2>2. z[Pre + Mid + 3 + 1] = Handed[1] /\ z[Pre + Mid + 3 + 2] = Handed[2] /\ z[Pre + Mid + 3 + 3] = Handed[3]
    BY <1>9, <2>1 DEF Stands
  <2> QED BY <2>1, <2>2
<1> QED BY <1>1, <1>3, <1>4, <1>9, <1>10, <1>12, <1>13, <1>14, <1>15

\* A piece of code that is not the stub.
Part == task \in Tasks /\ task.kind # "stub"

\* What such a piece is given.
LEMMA PartTasks ==
  ASSUME Part
  PROVE  /\ task.kind \in {"save", "allocate", "both"} /\ task.result \in Regs \ {RSP}
         /\ task.kind \in {"allocate", "both"} => task.size \in {kNoRegister, RAX, RBX}
BY DEF Part, Tasks

\* The instructions of these pieces by their place.
LEMMA PartIs ==
  ASSUME Part
  PROVE  /\ task.kind \in {"save", "both"} =>
              /\ DOMAIN Program = 1..(Below + 12) /\ \A i \in 1..12 : Program[i] = Push(Pushed[i])
              /\ \A i \in 1..12 : Program[Below + i] = Pop(Target(i))
         /\ task.kind = "save" => Program[13] = Call(R14)
         /\ task.kind = "both" => Stands(Allocation, AllocLen, Program, 12)
         /\ task.kind = "allocate" => DOMAIN Program = 1..AllocLen /\ Stands(Allocation, AllocLen, Program, 0)
<1> DEFINE p == Popad(task.result)
<1>1. IsCode(Pushad, 12) /\ IsCode(p, 12) /\ (\A i \in 1..12 : Pushad[i] = Push(Pushed[i])) /\ \A i \in 1..12 : p[i] = Pop(Target(i))
  BY PushadIs
<1> HIDE DEF p
<1>2. CASE task.kind = "save"
  <2> DEFINE c == <<Call(SCRATCH)>>
             s == Pushad \o c
             t == s \o p
  <2>1. IsCode(c, 1) /\ c[1] = Call(R14)
    BY DEF IsCode, SCRATCH
  <2>2. Program = t
    BY <1>2 DEF Program, p
  <2> HIDE DEF c, s, t
  <2>3. IsCode(s, 12 + 1) /\ (\A i \in 1..12 : s[i] = Pushad[i]) /\ Stands(c, 1, s, 12)
    <3>1. IsCode(Pushad, 12) /\ IsCode(c, 1)
      BY <1>1, <2>1
    <3> QED BY <3>1, Joined DEF s
  <2>4. IsCode(s, 13) /\ s[13] = c[1]
    <3>1. 1 \in 1..1 /\ 12 + 1 = 13
      OBVIOUS
    <3> QED BY <2>3, <3>1 DEF Stands
  <2>5. IsCode(t, 13 + 12) /\ (\A i \in 1..13 : t[i] = s[i]) /\ Stands(p, 12, t, 13)
    <3>1. IsCode(s, 13) /\ IsCode(p, 12)
      BY <1>1, <2>4
    <3> QED BY <3>1, Joined DEF t
  <2>6. Below = 13
    BY <1>2 DEF Below
  <2>7. \A i \in 1..12 : t[i] = Push(Pushed[i]) /\ t[13 + i] = Pop(Target(i))
    <3>1. \A i \in 1..12 : i \in 1..13
      OBVIOUS
    <3> QED BY <1>1, <2>3, <2>5, <3>1 DEF Stands
  <2>8. t[13] = Call(R14)
    BY <2>1, <2>4, <2>5
  <2>9. DOMAIN t = 1..(13 + 12)
    BY <2>5 DEF IsCode
  <2> QED BY <1>2, <2>2, <2>6, <2>7, <2>8, <2>9
<1>3. CASE task.kind = "both"
  <2> DEFINE s == Pushad \o Allocation
             t == s \o p
  <2>1. IsCode(Allocation, AllocLen) /\ AllocLen \in Nat
    BY AllocationIs DEF IsCode
  <2>2. Program = t
    BY <1>3 DEF Program, p, Allocation
  <2> HIDE DEF s, t
  <2>3. IsCode(s, 12 + AllocLen) /\ (\A i \in 1..12 : s[i] = Pushad[i]) /\ Stands(Allocation, AllocLen, s, 12)
    <3>1. IsCode(Pushad, 12) /\ IsCode(Allocation, AllocLen)
      BY <1>1, <2>1
    <3> QED BY <3>1, Joined DEF s
  <2>4. IsCode(t, 12 + AllocLen + 12) /\ (\A i \in 1..(12 + AllocLen) : t[i] = s[i]) /\ Stands(p, 12, t, 12 + AllocLen)
    <3>1. IsCode(s, 12 + AllocLen) /\ IsCode(p, 12)
      BY <1>1, <2>3
    <3> QED BY <3>1, Joined DEF t
  <2>5. Stands(Allocation, AllocLen, t, 12)
    <3>1. \A i \in 1..AllocLen : 12 + i \in 1..(12 + AllocLen)
      BY <2>1
    <3> QED BY <2>3, <2>4, <3>1 DEF Stands
  <2>6. Below = 12 + AllocLen
    BY <1>3 DEF Below
  <2>7. \A i \in 1..12 : t[i] = Push(Pushed[i])
    <3>1. \A i \in 1..12 : i \in 1..(12 + AllocLen)
      BY <2>1
    <3> QED BY <1>1, <2>3, <2>4, <3>1
  <2>8. \A i \in 1..12 : t[12 + AllocLen + i] = Pop(Target(i))
    BY <1>1, <2>4 DEF Stands
  <2>9. DOMAIN t = 1..(12 + AllocLen + 12)
    BY <2>4 DEF IsCode
  <2> QED BY <1>3, <2>2, <2>5, <2>6, <2>7, <2>8, <2>9
<1>4. CASE task.kind = "allocate"
  <2>1. Program = Allocation
    BY <1>4 DEF Program, Allocation
  <2>2. IsCode(Allocation, AllocLen)
    BY AllocationIs
  <2>3. \A i \in 1..AllocLen : 0 + i = i
    BY <2>2 DEF IsCode
  <2> QED BY <1>4, <2>1, <2>2, <2>3 DEF IsCode, Stands
<1> QED BY <1>2, <1>3, <1>4, PartTasks

(***************************************************************************)
(* Registers saved and restored, and an allocation.                        *)
(***************************************************************************)

\* Such a piece executes its next instruction.
PartRuns == Part /\ state = "runs" /\ Next

\* The registers of pushad differ, and the scratch register is none of them.
LEMMA PushedRegisters ==
  /\ \A i \in 1..12 : Pushed[i] \in Regs \ {RSP, R14}
  /\ \A i \in 1..12, j \in 1..12 : i # j => Pushed[i] # Pushed[j]
<1>1. ASSUME NEW i \in 1..12
      PROVE  i = 1 \/ i = 2 \/ i = 3 \/ i = 4 \/ i = 5 \/ i = 6 \/ i = 7 \/ i = 8 \/ i = 9 \/ i = 10 \/ i = 11 \/ i = 12
  OBVIOUS
<1>2. \A i \in 1..12 : Pushed[i] \in Regs \ {RSP, R14}
  BY <1>1, PushedAre DEF Regs, RAX, RCX, RDX, RBX, RSP, RSI, RDI, R11, R12, R13, R14
<1> DEFINE place == [r \in Regs |-> IF r = RAX THEN 1 ELSE IF r = RBX THEN 2 ELSE IF r = RCX THEN 3 ELSE IF r = RDX THEN 4
                                    ELSE IF r \in 8..10 THEN r - 3 ELSE IF r \in 11..13 THEN r - 3
                                    ELSE IF r = RDI THEN 11 ELSE 12]
<1>3. \A i \in 1..12 : place[Pushed[i]] = i
  <2> SUFFICES ASSUME NEW i \in 1..12 PROVE place[Pushed[i]] = i
    OBVIOUS
  <2> QED BY <1>1, PushedAre DEF Regs, RAX, RCX, RDX, RBX, RSI, RDI, R11, R12, R13
<1> HIDE DEF place
<1> QED BY <1>2, <1>3

\* So do those of popad, where the scratch register may take the place of one.
LEMMA Targets ==
  ASSUME Part
  PROVE  /\ \A i \in 1..12 : Target(i) \in Regs \ {RSP}
         /\ \A i \in 1..12, j \in 1..12 : i # j => Target(i) # Target(j)
<1>1. \A i \in 1..12 : 13 - i \in 1..12
  OBVIOUS
<1>2. \A i \in 1..12 : Target(i) \in Regs \ {RSP}
  BY <1>1, PushedRegisters, RegistersAre DEF Target, SCRATCH, R14, RSP
<1>3. ASSUME NEW i \in 1..12, NEW j \in 1..12, i # j
      PROVE  Target(i) # Target(j)
  <2>1. 13 - i \in 1..12 /\ 13 - j \in 1..12 /\ 13 - i # 13 - j
    BY <1>3
  <2>2. Pushed[13 - i] # Pushed[13 - j] /\ Pushed[13 - i] # R14 /\ Pushed[13 - j] # R14
    BY <2>1, PushedRegisters
  <2> QED BY <2>2 DEF Target, SCRATCH
<1> QED BY <1>2, <1>3

\* The words of these pieces, one by one.
LEMMA LaidIs ==
  ASSUME Part
  PROVE  /\ Pre \in {0, 2} /\ Mid \in {1, 4} /\ Base \in {0, 12}
         /\ task.kind \in {"save", "both"} => Base = 12 /\ \A j \in 1..12 : Laid[j] = Start[Pushed[j]]
         /\ task.kind = "allocate" => Base = 0
         /\ \A j \in 1..Pre : Laid[Base + j] = Start[RAX]
         /\ Laid[Base + Pre + 1] = Num(2 * (Size + 8)) /\ Laid[Base + Pre + 2] = Num(2 * Tag)
<1>1. Pre \in {0, 2} /\ Mid \in {1, 4} /\ Base \in {0, 12}
      /\ (task.kind \in {"save", "both"} => Base = 12) /\ (task.kind = "allocate" => Base = 0)
  BY DEF Pre, Mid, Base
<1>2. Base = 12 => \A j \in 1..12 : Laid[j] = Start[Pushed[j]]
  BY DEF Laid
<1>3. \A j \in 1..Pre : Laid[Base + j] = Start[RAX]
  BY <1>1 DEF Laid
<1>4. Laid[Base + Pre + 1] = Num(2 * (Size + 8))
  <2>1. Base + Pre + 1 \in Nat /\ ~(Base + Pre + 1 <= Base) /\ ~(Base + Pre + 1 <= Base + Pre)
    BY <1>1
  <2> QED BY <2>1 DEF Laid
<1>5. Laid[Base + Pre + 2] = Num(2 * Tag)
  <2>1. Base + Pre + 2 \in Nat /\ ~(Base + Pre + 2 <= Base) /\ ~(Base + Pre + 2 <= Base + Pre) /\ Base + Pre + 2 # Base + Pre + 1
    BY <1>1
  <2> QED BY <2>1 DEF Laid
<1> QED BY <1>1, <1>2, <1>3, <1>4, <1>5

\* How far an allocation has come is a matter of registers and stack.
LEMMA AllocKept ==
  ASSUME task' = task, NEW k
  PROVE  AllocAt(k, regs, stack)' = AllocAt(k, regs', stack')
BY TaskKept DEF AllocAt

\* pushad.
LEMMA SavingAllSteps ==
  ASSUME PartRuns, SavingAll
  PROVE  state' = "runs" /\ task' = task /\ (SavingAll' \/ Calling' \/ Allocating(0)')
<1>1. /\ task.kind \in {"save", "both"} /\ pc \in 1..12 /\ Up(regs, stack, pc - 1, Laid)
      /\ \A r \in Regs \ {RSP} : regs[r] = Start[r]
  BY DEF SavingAll, Untouched
<1> DEFINE r == Pushed[pc]
           n == pc - 1
<1>2. Part /\ Next /\ state = "runs" /\ n \in Nat /\ n + 1 = pc /\ Below \in Nat
  <2>1. Below \in Nat
    BY AllocationIs DEF Below, IsCode
  <2> QED BY <1>1, <2>1 DEF PartRuns
<1>3. Runs(Push(r)) /\ r \in Regs \ {RSP} /\ Laid[n + 1] = regs[r]
  <2>1. pc \in DOMAIN Program /\ Program[pc] = Push(Pushed[pc])
    <3>1. pc \in 1..(Below + 12)
      BY <1>1, <1>2
    <3> QED BY <1>1, <1>2, <3>1, PartIs
  <2>2. Pushed[pc] \in Regs \ {RSP} /\ Laid[pc] = Start[Pushed[pc]]
    BY <1>1, <1>2, LaidIs, PushedRegisters
  <2> QED BY <1>1, <1>2, <2>1, <2>2 DEF Runs
<1>4. Up(regs, stack, n, Laid)
  BY <1>1
<1> HIDE DEF r, n
<1>5. Moves /\ Up(regs', stack', n + 1, Laid) /\ \A s \in Regs \ {RSP} : regs'[s] = regs[s]
  BY <1>2, <1>3, <1>4, Pushes
<1>6. pc' = pc + 1 /\ task' = task /\ state' = "runs" /\ Laid' = Laid /\ Start' = Start
  BY <1>2, <1>5, TaskKept DEF Moves
<1>7. \A s \in Regs \ {RSP} : regs'[s] = Start[s]
  BY <1>1, <1>5
<1>8. CASE pc < 12
  <2>1. pc' \in 1..12 /\ pc' - 1 = n + 1
    BY <1>1, <1>2, <1>6, <1>8
  <2> QED BY <1>1, <1>5, <1>6, <1>7, <2>1 DEF SavingAll, Untouched
<1>9. CASE pc = 12 /\ task.kind = "save"
  <2>1. pc' = 13 /\ n + 1 = 12
    BY <1>2, <1>6, <1>9
  <2> QED BY <1>5, <1>6, <1>9, <2>1 DEF Calling
<1>10. CASE pc = 12 /\ task.kind = "both"
  <2>1. pc' = 13 /\ n + 1 = 12 /\ Base = 12 /\ Base' = Base /\ 0 \in 0..Pre /\ Base + 0 = 12 /\ Base + 0 + 1 = 13
    BY <1>2, <1>6, <1>10, LaidIs, TaskKept
  <2>2. AllocAt(0, regs', stack')
    BY <1>5, <1>7, <2>1 DEF AllocAt
  <2>3. AllocAt(0, regs, stack)'
    BY <1>6, <2>2, AllocKept
  <2> QED BY <1>6, <1>10, <2>1, <2>3 DEF Allocating
<1> QED BY <1>1, <1>8, <1>9, <1>10

\* The call keeps the stack.
LEMMA CallingSteps ==
  ASSUME PartRuns, Calling
  PROVE  state' = "runs" /\ task' = task /\ RestoringAll'
<1>1. task.kind = "save" /\ pc = 13 /\ Up(regs, stack, 12, Laid) /\ Part /\ Next /\ state = "runs"
  BY DEF Calling, PartRuns
<1>2. Below = 13 /\ Height = 12
  BY <1>1 DEF Below, Height
<1>3. Runs(Call(R14))
  <2>1. DOMAIN Program = 1..(13 + 12) /\ Program[13] = Call(R14)
    BY <1>1, <1>2, PartIs
  <2> QED BY <1>1, <2>1 DEF Runs
<1>4. /\ Moves /\ stack' = stack
      /\ \E keeps \in {{RSP, RBP}, {RSP, RBP, RSI}} :
           regs' = [s \in Regs |-> IF s \in keeps THEN regs[s] ELSE Word("callee", s)]
  BY <1>1, <1>3, StepCall
<1>5. Up(regs', stack', 12, Laid)
  BY <1>1, <1>4, RegistersAre DEF Up
<1>6. pc' = 14 /\ task' = task /\ state' = "runs" /\ Laid' = Laid /\ Below' = 13 /\ Height' = 12
  BY <1>1, <1>2, <1>4, TaskKept DEF Moves
<1>7. pc' \in 13 + 1 .. 13 + 13 /\ 12 + 13 + 1 - pc' = 12 /\ \A k \in 1..12 : ~(k <= pc' - 13 - 1)
  BY <1>6
<1> QED BY <1>1, <1>5, <1>6, <1>7 DEF RestoringAll

\* popad, and the end.
LEMMA RestoringAllSteps ==
  ASSUME PartRuns, RestoringAll
  PROVE  /\ task' = task /\ RestoringAll'
         /\ state' = "runs" \/ (state' = "end" /\ pc' = Below' + 13)
<1>1. /\ task.kind \in {"save", "both"} /\ pc \in Below + 1 .. Below + 13 /\ Up(regs, stack, Height + Below + 1 - pc, Laid)
      /\ \A k \in 1..12 : k <= pc - Below - 1 => regs[Target(k)] = Laid[Height + 1 - k]
  BY DEF RestoringAll
<1>2. Part /\ Next /\ state = "runs" /\ Below \in Nat /\ Height \in {12, 14}
  <2>1. Below \in Nat
    BY AllocationIs DEF Below, IsCode
  <2> QED BY <2>1 DEF PartRuns, Height
<1>3. CASE pc = Below + 13
  <2>1. pc \notin DOMAIN Program
    <3>1. DOMAIN Program = 1..(Below + 12)
      BY <1>1, <1>2, PartIs
    <3>2. pc \notin 1..(Below + 12)
      BY <1>2, <1>3
    <3> QED BY <3>1, <3>2
  <2>2. state' = "end" /\ UNCHANGED <<task, pc, regs, equal, stack, called>>
    BY <1>2, <2>1, StepEnd
  <2>3. Below' = Below /\ Height' = Height /\ Laid' = Laid /\ \A k \in 1..12 : Target(k)' = Target(k)
    BY <2>2, TaskKept
  <2> QED BY <1>1, <1>3, <2>2, <2>3 DEF RestoringAll
<1>4. CASE pc \in Below + 1 .. Below + 12
  <2> DEFINE i == pc - Below
             r == Target(i)
             n == Height + Below - pc
  <2>1. i \in 1..12 /\ Below + i = pc /\ n \in Nat /\ n + 1 = Height + Below + 1 - pc /\ n + 1 = Height + 1 - i
    BY <1>2, <1>4
  <2>2. Runs(Pop(r))
    <3>1. pc \in DOMAIN Program
      BY <1>1, <1>2, <1>4, PartIs
    <3>2. Program[Below + i] = Pop(Target(i))
      BY <1>1, <1>2, <2>1, PartIs
    <3> QED BY <1>2, <2>1, <3>1, <3>2 DEF Runs
  <2>3. Up(regs, stack, n + 1, Laid) /\ r \in Regs \ {RSP}
    BY <1>1, <1>2, <2>1, Targets
  <2> HIDE DEF i, r, n
  <2>4. /\ Computes /\ Up(regs', stack', n, Laid)
        /\ regs'[r] = Laid[n + 1] /\ \A s \in Regs \ {RSP, r} : regs'[s] = regs[s]
    BY <1>2, <2>1, <2>2, <2>3, Pops
  <2>5. pc' = pc + 1 /\ task' = task /\ state' = "runs"
    BY <1>2, <2>4 DEF Computes, Moves
  <2>6. Below' = Below /\ Height' = Height /\ Laid' = Laid /\ \A k \in 1..12 : Target(k)' = Target(k)
    BY <2>5, TaskKept
  <2>7. \A k \in 1..12 : k <= i => regs'[Target(k)] = Laid[Height + 1 - k]
    <3> SUFFICES ASSUME NEW k \in 1..12, k <= i PROVE regs'[Target(k)] = Laid[Height + 1 - k]
      OBVIOUS
    <3>1. CASE k = i
      BY <2>1, <2>4, <3>1 DEF r
    <3>2. CASE k # i
      <4>1. k <= pc - Below - 1
        BY <1>2, <2>1, <3>2
      <4>2. Target(k) \in Regs \ {RSP, r}
        BY <1>2, <2>1, <3>2, Targets DEF r
      <4> QED BY <1>1, <2>4, <4>1, <4>2
    <3> QED BY <3>1, <3>2
  <2>8. pc' \in Below + 1 .. Below + 13 /\ pc' - Below - 1 = i /\ Height + Below + 1 - pc' = n
    BY <1>2, <1>4, <2>5 DEF i, n
  <2>9. RestoringAll'
    BY <1>1, <2>4, <2>5, <2>6, <2>7, <2>8 DEF RestoringAll
  <2> QED BY <2>5, <2>9
<1>5. pc = Below + 13 \/ pc \in Below + 1 .. Below + 12
  BY <1>1, <1>2
<1> QED BY <1>3, <1>4, <1>5

(***************************************************************************)
(* An allocation.                                                          *)
(***************************************************************************)

\* An allocation executes the instruction at its place.
LEMMA RunsAllocation ==
  ASSUME PartRuns, task.kind \in {"allocate", "both"}, NEW k \in Nat, k < AllocLen, pc = Base + k + 1
  PROVE  Runs(Allocation[k + 1])
<1>1. Part /\ state = "runs" /\ AllocLen \in Nat /\ k + 1 \in 1..AllocLen
  BY AllocationIs DEF PartRuns, IsCode
<1>2. CASE task.kind = "both"
  <2>1. Base = 12 /\ Below = 12 + AllocLen
    BY <1>2 DEF Base, Below
  <2>2. DOMAIN Program = 1..(Below + 12) /\ Stands(Allocation, AllocLen, Program, 12)
    BY <1>1, <1>2, PartIs
  <2>3. Program[12 + (k + 1)] = Allocation[k + 1]
    BY <1>1, <2>2 DEF Stands
  <2>4. pc = 12 + (k + 1) /\ pc \in 1..(Below + 12)
    BY <1>1, <2>1
  <2> QED BY <1>1, <2>2, <2>3, <2>4 DEF Runs
<1>3. CASE task.kind = "allocate"
  <2>1. Base = 0
    BY <1>3 DEF Base
  <2>2. DOMAIN Program = 1..AllocLen /\ Stands(Allocation, AllocLen, Program, 0)
    BY <1>1, <1>3, PartIs
  <2>3. Program[0 + (k + 1)] = Allocation[k + 1]
    BY <1>1, <2>2 DEF Stands
  <2>4. pc = 0 + (k + 1) /\ pc \in 1..AllocLen
    BY <1>1, <2>1
  <2> QED BY <1>1, <2>2, <2>3, <2>4 DEF Runs
<1> QED BY <1>2, <1>3

\* The register of the size has it when the allocation begins.
LEMMA SizeIs ==
  ASSUME Part, task.kind \in {"allocate", "both"}, task.size # kNoRegister
  PROVE  task.size \in Regs \ {RSP} /\ Start[task.size] = Num(2 * Size) /\ Mid = 4
<1>1. task.size \in {RAX, RBX}
  BY PartTasks
<1>2. task.size \in Regs \ {RSP}
  BY <1>1 DEF RAX, RBX, RSP, Regs
<1>3. Start[task.size] = Num(2 * Size)
  BY <1>2 DEF Start
<1> QED BY <1>2, <1>3 DEF Mid

\* One instruction of an allocation.
LEMMA AllocatingSteps ==
  ASSUME PartRuns, NEW k \in Nat, k < AllocLen, Allocating(k)
  PROVE  task' = task /\ state' = "runs" /\ Allocating(k + 1)'
<1> DEFINE p == Pre
           m == Mid
           b == Base
           A == Allocation
<1>1. /\ Part /\ Next /\ state = "runs" /\ task.kind \in {"allocate", "both"} /\ pc = b + k + 1 /\ AllocAt(k, regs, stack)
      /\ p \in {0, 2} /\ m \in {1, 4} /\ b \in {0, 12}
  BY LaidIs DEF PartRuns, Allocating
<1>2. AllocLen = p + m + 3 + (IF task.result # RAX THEN 3 ELSE 0) /\ (task.result # RAX => p = 2) /\ (task.result = RAX => p = 0)
  BY DEF AllocLen, Pre
<1>3. Runs(A[k + 1])
  BY <1>1, RunsAllocation
<1>4. RAX \in Regs \ {RSP} /\ task.result \in Regs \ {RSP}
  BY <1>1, RegistersAre, PartTasks DEF RAX, RSP
<1>5. ASSUME UNCHANGED <<task, state>>, pc' = pc + 1, AllocAt(k + 1, regs', stack')
      PROVE  task' = task /\ state' = "runs" /\ Allocating(k + 1)'
  <2>1. AllocAt(k + 1, regs, stack)' /\ Base' = b
    BY <1>5, AllocKept, TaskKept
  <2>2. pc' = b + (k + 1) + 1
    BY <1>1, <1>5
  <2> QED BY <1>1, <1>5, <2>1, <2>2 DEF Allocating
<1>6. /\ task.result # RAX => A[1] = Push(RAX) /\ A[2] = Push(RAX)
      /\ task.size = kNoRegister => A[p + 1] = Imm(2 * (Size + 8), RAX)
      /\ task.size # kNoRegister =>
           A[p + 1] = Mov(task.size, RAX) /\ A[p + 2] = ShrOne(RAX) /\ A[p + 3] = AddImm(8, RAX) /\ A[p + 4] = Shl(1, RAX)
      /\ A[p + m + 1] = Push(RAX) /\ A[p + m + 2] = Imm(2 * Tag, RAX) /\ A[p + m + 3] = Push(RAX)
      /\ task.result # RAX =>
           A[p + m + 4] = Mov(RAX, task.result) /\ A[p + m + 5] = Pop(RAX) /\ A[p + m + 6] = Pop(RAX)
  <2>1. (task.size = kNoRegister => m = 1) /\ (task.size # kNoRegister => m = 4) /\ Stands(Asked, m, A, p)
    BY AllocationIs DEF Mid
  <2>2. CASE task.size = kNoRegister
    <3>1. A[p + 1] = Asked[1]
      BY <2>1, <2>2 DEF Stands
    <3> QED BY <2>2, <3>1, AskedIs, AllocationIs
  <2>3. CASE task.size # kNoRegister
    <3>1. A[p + 1] = Asked[1] /\ A[p + 2] = Asked[2] /\ A[p + 3] = Asked[3] /\ A[p + 4] = Asked[4]
      BY <2>1, <2>3 DEF Stands
    <3> QED BY <2>3, <3>1, AskedIs, AllocationIs
  <2> QED BY <2>2, <2>3
<1>7. /\ \A j \in 1..p : Laid[b + j] = Start[RAX]
      /\ Laid[b + p + 1] = Num(2 * (Size + 8)) /\ Laid[b + p + 2] = Num(2 * Tag)
  BY <1>1, LaidIs
\* Setting a register, and what the stack becomes.
<1>8. ASSUME NEW y \in Regs \ {RSP}, NEW v, Computes, regs' = [regs EXCEPT ![y] = v], NEW n, Up(regs, stack, n, Laid)
      PROVE  /\ Up(regs', stack', n, Laid) /\ regs'[y] = v /\ UNCHANGED <<task, state>> /\ pc' = pc + 1
             /\ \A s \in Regs \ {y} : regs'[s] = regs[s]
  <2>1. Up(regs', stack', n, Laid) /\ regs'[y] = v /\ \A s \in Regs \ {y} : regs'[s] = regs[s]
    BY <1>8, Sets
  <2> QED BY <1>8, <2>1 DEF Computes, Moves
<1>9. ASSUME NEW n \in Nat, Runs(Push(RAX)), Up(regs, stack, n, Laid), Laid[n + 1] = regs[RAX]
      PROVE  /\ Up(regs', stack', n + 1, Laid) /\ UNCHANGED <<task, state>> /\ pc' = pc + 1
             /\ \A s \in Regs \ {RSP} : regs'[s] = regs[s]
  BY <1>1, <1>9, Pushes DEF Moves
<1> HIDE DEF p, m, b, A
<1>10. CASE k < p
  <2>1. p = 2 /\ k \in {0, 1} /\ task.result # RAX /\ k \in 0..p /\ k + 1 \in 0..p /\ k + 1 \in 1..p
    BY <1>1, <1>2, <1>10
  <2>2. Up(regs, stack, b + k, Laid) /\ \A r \in Regs \ {RSP} : regs[r] = Start[r]
    BY <1>1, <2>1 DEF AllocAt, p, m, b
  <2>3. A[k + 1] = Push(RAX)
    BY <1>6, <2>1
  <2>4. Laid[b + k + 1] = regs[RAX] /\ b + k \in Nat /\ b + k + 1 = b + (k + 1)
    BY <1>1, <1>4, <1>7, <2>1, <2>2
  <2>5. /\ Up(regs', stack', b + k + 1, Laid) /\ UNCHANGED <<task, state>> /\ pc' = pc + 1
        /\ \A s \in Regs \ {RSP} : regs'[s] = regs[s]
    BY <1>3, <1>9, <2>2, <2>3, <2>4
  <2>6. AllocAt(k + 1, regs', stack')
    BY <2>1, <2>2, <2>4, <2>5 DEF AllocAt, p, m, b
  <2> QED BY <1>5, <2>5, <2>6
<1>11. CASE k = p
  <2>1. k \in 0..p /\ p + 1 \in p + 1 .. p + m
    BY <1>1, <1>11
  <2>2. Up(regs, stack, b + p, Laid) /\ \A r \in Regs \ {RSP} : regs[r] = Start[r]
    BY <1>1, <1>11, <2>1 DEF AllocAt, p, m, b
  <2>3. CASE task.size = kNoRegister
    <3>1. m = 1 /\ A[k + 1] = Imm(2 * (Size + 8), RAX)
      BY <1>6, <1>11, <2>3 DEF m, Mid
    <3>2. Computes /\ regs' = [regs EXCEPT ![RAX] = Num(2 * (Size + 8))]
      BY <1>1, <1>3, <3>1, StepImm
    <3>3. Up(regs', stack', b + p, Laid) /\ regs'[RAX] = Num(2 * (Size + 8)) /\ UNCHANGED <<task, state>> /\ pc' = pc + 1
      <4> DEFINE n == b + p
                 v == Num(2 * (Size + 8))
      <4>1. Up(regs, stack, n, Laid) /\ regs' = [regs EXCEPT ![RAX] = v]
        BY <2>2, <3>2
      <4> HIDE DEF n, v
      <4>2. Up(regs', stack', n, Laid) /\ regs'[RAX] = v /\ UNCHANGED <<task, state>> /\ pc' = pc + 1
        BY <1>4, <1>8, <3>2, <4>1
      <4> QED BY <4>2 DEF n, v
    <3>4. AllocAt(k + 1, regs', stack')
      BY <1>11, <2>1, <3>1, <3>3 DEF AllocAt, p, m, b
    <3> QED BY <1>5, <3>3, <3>4
  <2>4. CASE task.size # kNoRegister
    <3>1. m = 4 /\ A[k + 1] = Mov(task.size, RAX) /\ regs[task.size] = Num(2 * Size)
      BY <1>1, <1>6, <1>11, <2>2, <2>4, SizeIs DEF m
    <3>2. Computes /\ regs' = [regs EXCEPT ![RAX] = Num(2 * Size)]
      BY <1>1, <1>3, <3>1, StepMov
    <3>3. Up(regs', stack', b + p, Laid) /\ regs'[RAX] = Num(2 * Size) /\ UNCHANGED <<task, state>> /\ pc' = pc + 1
      BY <1>4, <1>8, <2>2, <3>2
    <3>4. p + 1 # p + m
      BY <1>1, <3>1
    <3>5. AllocAt(k + 1, regs', stack')
      BY <1>11, <2>1, <3>3, <3>4 DEF AllocAt, p, m, b
    <3> QED BY <1>5, <3>3, <3>5
  <2> QED BY <2>3, <2>4
<1>12. CASE k \in p + 1 .. p + m - 1
  <2>1. m = 4 /\ task.size # kNoRegister /\ (k = p + 1 \/ k = p + 2 \/ k = p + 3)
    BY <1>1, <1>12 DEF m, Mid
  <2>2. k \in p + 1 .. p + m /\ k \notin 0..p /\ k # p + m /\ k + 1 \in p + 1 .. p + m /\ k # p + m + 1 /\ k # p + m + 2
        /\ k # p + m + 3 /\ k \notin p + m + 4 .. p + m + 6
    BY <1>1, <1>12
  <2>3. /\ Up(regs, stack, b + p, Laid)
        /\ regs[RAX] = Num(IF k = p + 1 THEN 2 * Size ELSE IF k = p + 2 THEN Size ELSE Size + 8)
    BY <1>1, <2>2 DEF AllocAt, p, m, b
  <2>4. Size \in Nat /\ p \in Int
    BY <1>1, ArgsAssumption
  <2>5. CASE k = p + 1
    <3>1. A[k + 1] = ShrOne(RAX) /\ regs[RAX] = Num(2 * Size)
      <4>1. k + 1 = p + 2
        BY <2>4, <2>5
      <4> QED BY <1>6, <2>1, <2>3, <2>5, <4>1
    <3>2. Halved(regs[RAX]) = Num(Size)
      BY <2>4, <3>1, Sums
    <3>3. Computes /\ regs' = [regs EXCEPT ![RAX] = Num(Size)]
      BY <1>1, <1>3, <3>1, <3>2, StepShr
    <3>4. Up(regs', stack', b + p, Laid) /\ regs'[RAX] = Num(Size) /\ UNCHANGED <<task, state>> /\ pc' = pc + 1
      BY <1>4, <1>8, <2>3, <3>3
    <3>5. k + 1 = p + 2 /\ k + 1 # p + m /\ k + 1 # p + 1
      BY <2>1, <2>4, <2>5
    <3>6. AllocAt(k + 1, regs', stack')
      BY <2>2, <3>4, <3>5 DEF AllocAt, p, m, b
    <3> QED BY <1>5, <3>4, <3>6
  <2>6. CASE k = p + 2
    <3>1. A[k + 1] = AddImm(8, RAX) /\ regs[RAX] = Num(Size)
      <4>1. k + 1 = p + 3 /\ k # p + 1
        BY <2>4, <2>6
      <4> QED BY <1>6, <2>1, <2>3, <2>6, <4>1
    <3>2. Plus(regs[RAX], Num(8)) = Num(Size + 8)
      BY <2>4, <3>1, Sums
    <3>3. Computes /\ regs' = [regs EXCEPT ![RAX] = Num(Size + 8)]
      BY <1>1, <1>3, <3>1, <3>2, StepAddImm
    <3>4. Up(regs', stack', b + p, Laid) /\ regs'[RAX] = Num(Size + 8) /\ UNCHANGED <<task, state>> /\ pc' = pc + 1
      BY <1>4, <1>8, <2>3, <3>3
    <3>5. k + 1 = p + 3 /\ k + 1 # p + m /\ k + 1 # p + 1 /\ k + 1 # p + 2
      BY <2>1, <2>4, <2>6
    <3>6. AllocAt(k + 1, regs', stack')
      BY <2>2, <3>4, <3>5 DEF AllocAt, p, m, b
    <3> QED BY <1>5, <3>4, <3>6
  <2>7. CASE k = p + 3
    <3>1. A[k + 1] = Shl(1, RAX) /\ regs[RAX] = Num(Size + 8)
      <4>1. k + 1 = p + 4 /\ k # p + 1 /\ k # p + 2
        BY <2>4, <2>7
      <4> QED BY <1>6, <2>1, <2>3, <4>1
    <3>2. Scaled(regs[RAX], Power(1)) = Num(2 * (Size + 8))
      <4>1. Size + 8 \in Int
        BY <2>4
      <4> QED BY <3>1, <4>1, Sums
    <3>3. Computes /\ regs' = [regs EXCEPT ![RAX] = Num(2 * (Size + 8))]
      BY <1>1, <1>3, <3>1, <3>2, StepShl
    <3>4. Up(regs', stack', b + p, Laid) /\ regs'[RAX] = Num(2 * (Size + 8)) /\ UNCHANGED <<task, state>> /\ pc' = pc + 1
      BY <1>4, <1>8, <2>3, <3>3
    <3>5. k + 1 = p + m
      BY <2>1, <2>4, <2>7
    <3>6. AllocAt(k + 1, regs', stack')
      BY <2>2, <3>4, <3>5 DEF AllocAt, p, m, b
    <3> QED BY <1>5, <3>4, <3>6
  <2> QED BY <2>1, <2>5, <2>6, <2>7
<1>13. CASE k = p + m
  <2>1. k \in p + 1 .. p + m /\ k \notin 0..p /\ k # p + m + 1 /\ k # p + m + 2
        /\ k # p + m + 3 /\ k \notin p + m + 4 .. p + m + 6
    BY <1>1, <1>13
  <2>2. Up(regs, stack, b + p, Laid) /\ regs[RAX] = Num(2 * (Size + 8))
    BY <1>1, <1>13, <2>1 DEF AllocAt, p, m, b
  <2>3. A[k + 1] = Push(RAX) /\ b + p \in Nat
    BY <1>1, <1>6, <1>13
  <2>4. Up(regs', stack', b + p + 1, Laid) /\ UNCHANGED <<task, state>> /\ pc' = pc + 1
    BY <1>3, <1>7, <1>9, <2>2, <2>3
  <2>5. AllocAt(k + 1, regs', stack')
    BY <1>13, <2>4 DEF AllocAt, p, m, b
  <2> QED BY <1>5, <2>4, <2>5
<1>14. CASE k = p + m + 1
  <2>1. k \notin p + 1 .. p + m /\ k \notin 0..p /\ k # p + m + 2
        /\ k # p + m + 3 /\ k \notin p + m + 4 .. p + m + 6 /\ k + 1 = p + m + 2
    BY <1>1, <1>14
  <2>2. Up(regs, stack, b + p + 1, Laid)
    BY <1>1, <2>1 DEF AllocAt, p, m, b
  <2>3. A[k + 1] = Imm(2 * Tag, RAX)
    BY <1>6, <2>1
  <2>4. Computes /\ regs' = [regs EXCEPT ![RAX] = Num(2 * Tag)]
    BY <1>1, <1>3, <2>3, StepImm
  <2>5. Up(regs', stack', b + p + 1, Laid) /\ regs'[RAX] = Num(2 * Tag) /\ UNCHANGED <<task, state>> /\ pc' = pc + 1
    BY <1>4, <1>8, <2>2, <2>4
  <2>6. AllocAt(k + 1, regs', stack')
    BY <2>1, <2>5 DEF AllocAt, p, m, b
  <2> QED BY <1>5, <2>5, <2>6
<1>15. CASE k = p + m + 2
  <2>1. k \notin p + 1 .. p + m /\ k \notin 0..p /\ k # p + m + 1
        /\ k # p + m + 3 /\ k \notin p + m + 4 .. p + m + 6 /\ k + 1 = p + m + 3 /\ b + p + 1 \in Nat /\ b + p + 1 + 1 = b + p + 2
    BY <1>1, <1>15
  <2>2. Up(regs, stack, b + p + 1, Laid) /\ regs[RAX] = Num(2 * Tag)
    BY <1>1, <2>1 DEF AllocAt, p, m, b
  <2>3. A[k + 1] = Push(RAX) /\ Laid[b + p + 1 + 1] = regs[RAX]
    BY <1>6, <1>7, <2>1, <2>2
  <2>4. Up(regs', stack', b + p + 1 + 1, Laid) /\ UNCHANGED <<task, state>> /\ pc' = pc + 1
        /\ \A s \in Regs \ {RSP} : regs'[s] = regs[s]
    BY <1>3, <1>9, <2>1, <2>2, <2>3
  <2>5. regs'[RAX] = Num(2 * Tag)
    BY <1>4, <2>2, <2>4
  <2>6. AllocAt(k + 1, regs', stack')
    BY <2>1, <2>4, <2>5 DEF AllocAt, p, m, b
  <2> QED BY <1>5, <2>4, <2>6
<1>16. CASE k = p + m + 3
  <2>1. k \notin p + 1 .. p + m /\ k \notin 0..p /\ k # p + m + 1 /\ k # p + m + 2
        /\ k \notin p + m + 4 .. p + m + 6 /\ k + 1 = p + m + 4
    BY <1>1, <1>16
  <2>2. Up(regs, stack, b + p + 2, Laid) /\ regs[RAX] = Num(2 * Tag)
    BY <1>1, <2>1 DEF AllocAt, p, m, b
  <2>3. task.result # RAX /\ p = 2
    BY <1>1, <1>2, <1>16
  <2>4. A[k + 1] = Mov(RAX, task.result)
    BY <1>6, <2>1, <2>3
  <2>5. Computes /\ regs' = [regs EXCEPT ![task.result] = Num(2 * Tag)]
    BY <1>1, <1>3, <2>2, <2>4, StepMov
  <2>6. Up(regs', stack', b + p + 2, Laid) /\ regs'[task.result] = Num(2 * Tag) /\ UNCHANGED <<task, state>> /\ pc' = pc + 1
    <3> DEFINE n == b + p + 2
               v == Num(2 * Tag)
               y == task.result
    <3>1. Up(regs, stack, n, Laid) /\ regs' = [regs EXCEPT ![y] = v] /\ y \in Regs \ {RSP}
      BY <1>4, <2>2, <2>5
    <3> HIDE DEF n, v, y
    <3>2. Up(regs', stack', n, Laid) /\ regs'[y] = v /\ UNCHANGED <<task, state>> /\ pc' = pc + 1
      BY <1>8, <2>5, <3>1
    <3> QED BY <3>2 DEF n, v, y
  <2>7. b + 8 + p + m - (k + 1) = b + p + 2 /\ k + 1 \in p + m + 4 .. p + m + 6
    BY <1>1, <2>1, <2>3
  <2>8. AllocAt(k + 1, regs', stack')
    BY <2>3, <2>6, <2>7 DEF AllocAt, p, m, b
  <2> QED BY <1>5, <2>6, <2>8
<1>17. CASE k \in p + m + 4 .. p + m + 5
  <2> DEFINE n == b + 7 + p + m - k
  <2>1. k \notin p + 1 .. p + m /\ k \notin 0..p /\ k # p + m + 1 /\ k # p + m + 2 /\ k # p + m + 3
        /\ k \in p + m + 4 .. p + m + 6 /\ k + 1 \in p + m + 4 .. p + m + 6
        /\ n \in Nat /\ n + 1 = b + 8 + p + m - k /\ n = b + 8 + p + m - (k + 1)
    BY <1>1, <1>17
  <2>2. task.result # RAX /\ Up(regs, stack, b + 8 + p + m - k, Laid) /\ regs[task.result] = Num(2 * Tag)
    BY <1>1, <2>1 DEF AllocAt, p, m, b
  <2>3. A[k + 1] = Pop(RAX)
    <3>1. k + 1 = p + m + 5 \/ k + 1 = p + m + 6
      BY <1>1, <1>17
    <3> QED BY <1>6, <2>2, <3>1
  <2>4. Up(regs, stack, n + 1, Laid) /\ Runs(Pop(RAX))
    BY <1>3, <2>1, <2>2, <2>3
  <2> HIDE DEF n
  <2>5. Computes /\ Up(regs', stack', n, Laid) /\ \A s \in Regs \ {RSP, RAX} : regs'[s] = regs[s]
    BY <1>1, <1>4, <2>1, <2>4, Pops
  <2>6. UNCHANGED <<task, state>> /\ pc' = pc + 1 /\ regs'[task.result] = Num(2 * Tag)
    BY <1>4, <2>2, <2>5 DEF Computes, Moves
  <2>7. AllocAt(k + 1, regs', stack')
    BY <2>1, <2>2, <2>5, <2>6 DEF AllocAt, p, m, b
  <2> QED BY <1>5, <2>6, <2>7
<1>18. \/ k < p \/ k = p \/ k \in p + 1 .. p + m - 1 \/ k = p + m \/ k = p + m + 1 \/ k = p + m + 2 \/ k = p + m + 3
       \/ k \in p + m + 4 .. p + m + 5
  BY <1>1, <1>2
<1> QED BY <1>10, <1>11, <1>12, <1>13, <1>14, <1>15, <1>16, <1>17, <1>18

\* An allocation is done: two words are left, and the result is the tag.
LEMMA AllocatedIs ==
  ASSUME Part, Allocating(AllocLen)
  PROVE  Up(regs, stack, Base + 2, Laid) /\ regs[task.result] = Num(2 * Tag) /\ pc = Base + AllocLen + 1
<1>1. pc = Base + AllocLen + 1 /\ AllocAt(AllocLen, regs, stack) /\ Pre \in {0, 2} /\ Mid \in {1, 4} /\ Base \in {0, 12}
  BY LaidIs DEF Allocating
<1>2. CASE task.result # RAX
  <2>1. Pre = 2 /\ AllocLen = Pre + Mid + 6
    BY <1>1, <1>2 DEF AllocLen, Pre
  <2>2. /\ AllocLen \notin 0..Pre /\ AllocLen \notin Pre + 1 .. Pre + Mid /\ AllocLen # Pre + Mid + 1 /\ AllocLen # Pre + Mid + 2
        /\ AllocLen # Pre + Mid + 3 /\ Base + 8 + Pre + Mid - AllocLen = Base + 2
    BY <1>1, <2>1
  <2> QED BY <1>1, <2>2 DEF AllocAt
<1>3. CASE task.result = RAX
  <2>1. Pre = 0 /\ AllocLen = Pre + Mid + 3
    BY <1>1, <1>3 DEF AllocLen, Pre
  <2>2. /\ AllocLen \notin 0..Pre /\ AllocLen \notin Pre + 1 .. Pre + Mid /\ AllocLen # Pre + Mid + 1 /\ AllocLen # Pre + Mid + 2
        /\ AllocLen \notin Pre + Mid + 4 .. Pre + Mid + 6 /\ Base + Pre + 2 = Base + 2
    BY <1>1, <2>1
  <2> QED BY <1>1, <1>3, <2>2 DEF AllocAt
<1> QED BY <1>2, <1>3

\* An allocation done while registers are saved leaves two words over them.
LEMMA AllocatedRestores ==
  ASSUME Part, task.kind = "both", Allocating(AllocLen)
  PROVE  RestoringAll
<1>1. Up(regs, stack, Base + 2, Laid) /\ pc = Base + AllocLen + 1 /\ Base = 12 /\ AllocLen \in Nat
  BY AllocatedIs, LaidIs, AllocationIs DEF IsCode
<1>2. Below = 12 + AllocLen /\ Height = 14
  BY DEF Below, Height
<1>3. pc \in Below + 1 .. Below + 13 /\ Height + Below + 1 - pc = 14 /\ Base + 2 = 14 /\ \A k \in 1..12 : ~(k <= pc - Below - 1)
  BY <1>1, <1>2
<1> QED BY <1>1, <1>3 DEF RestoringAll

\* An allocation alone ends.
LEMMA AllocateEnds ==
  ASSUME PartRuns, task.kind = "allocate", Allocating(AllocLen)
  PROVE  task' = task /\ state' = "end" /\ Allocating(AllocLen)'
<1>1. Part /\ Next /\ state = "runs" /\ AllocLen \in Nat /\ Base = 0
  BY LaidIs, AllocationIs DEF PartRuns, IsCode
<1>2. pc = Base + AllocLen + 1 /\ DOMAIN Program = 1..AllocLen
  BY <1>1, AllocatedIs, PartIs
<1>3. pc \notin DOMAIN Program
  BY <1>1, <1>2
<1>4. state' = "end" /\ UNCHANGED <<task, pc, regs, equal, stack, called>>
  BY <1>1, <1>3, StepEnd
<1>5. AllocAt(AllocLen, regs, stack)' = AllocAt(AllocLen', regs', stack')
  BY <1>4, TaskKept DEF AllocAt
<1>6. AllocLen' = AllocLen /\ Base' = Base
  BY <1>4, TaskKept
<1>7. AllocAt(AllocLen, regs, stack) = AllocAt(AllocLen, regs, stack)'
  BY <1>4, <1>6, TaskKept DEF AllocAt
<1> QED BY <1>1, <1>2, <1>4, <1>6, <1>7 DEF Allocating

(***************************************************************************)
(* The invariant.                                                          *)
(***************************************************************************)

\* The invariant holds at first: nothing has been pushed.
LEMMA InvInit ==
  ASSUME Init
  PROVE  IInv
<1>1. task \in Tasks /\ pc = 1 /\ regs = Start /\ stack = [off \in {0} |-> ReturnAddress] /\ state = "runs" /\ called = <<>>
  BY DEF Init
<1>2. DOMAIN Start = Regs /\ Start[RSP] = Word("stack", 0)
  <2>1. task.kind \in {"allocate", "both"} => task.size # RSP
    <3> SUFFICES ASSUME task.kind \in {"allocate", "both"} PROVE task.size # RSP
      OBVIOUS
    <3>1. task.size \in {kNoRegister, RAX, RBX}
      BY <1>1, PartTasks DEF Part
    <3> QED BY <3>1 DEF kNoRegister, RAX, RBX, RSP
  <2>2. RSP # RDI /\ RSP # RSI /\ RSP # RDX /\ RSP \in Regs
    BY DEF Regs, RSP, RDI, RSI, RDX
  <2> QED BY <2>1, <2>2 DEF Start
<1>3. \A f : Up(regs, stack, 0, f)
  <2>1. -8 * 0 = 0
    <3>1. (\A n \in Int : -8 * n = 0 - 8 * n) /\ 0 \in Int /\ 0 - 8 * 0 = 0
      OBVIOUS
    <3> QED BY <3>1
  <2>2. 1..0 = {}
    OBVIOUS
  <2> QED BY <1>1, <1>2, <2>1, <2>2 DEF Up, Held
<1>4. CASE task.kind = "stub"
  <2>1. Start[RBP] = Caller(RBP)
    BY <1>4 DEF Start, Regs, RBP, RSP, RDI, RSI, RDX
  <2>2. Saving
    BY <1>1, <1>3, <2>1 DEF Saving
  <2> QED BY <1>1, <1>4, <2>2 DEF IInv, StubInv
<1>5. CASE task.kind # "stub"
  <2>1. Part
    BY <1>1, <1>5 DEF Part
  <2>2. CASE task.kind \in {"save", "both"}
    <3>1. SavingAll
      BY <1>1, <1>3, <2>2 DEF SavingAll, Untouched
    <3> QED BY <1>1, <1>5, <3>1 DEF IInv, PartInv
  <2>3. CASE task.kind = "allocate"
    <3>1. Base = 0 /\ Pre \in {0, 2} /\ AllocLen \in Nat
      BY <2>1, <2>3, LaidIs, AllocationIs DEF IsCode
    <3>2. AllocAt(0, regs, stack)
      BY <1>1, <1>3, <3>1 DEF AllocAt
    <3>3. Allocating(0) /\ 0 \in 0..AllocLen
      BY <1>1, <2>3, <3>1, <3>2 DEF Allocating
    <3> QED BY <1>1, <1>5, <3>3 DEF IInv, PartInv
  <2> QED BY <2>1, <2>2, <2>3, PartTasks
<1> QED BY <1>4, <1>5

\* Every step of the stub keeps it.
LEMMA StubSteps ==
  ASSUME task \in Tasks, task.kind = "stub", StubInv, Next
  PROVE  task' = task /\ StubInv'
<1>1. task.argc \in Nat
  BY ArgsAssumption DEF Tasks
<1>2. state = "runs"
  BY StepNone
<1>3. StubRuns
  BY <1>1, <1>2 DEF StubRuns
<1>4. CASE Saving
  BY <1>3, <1>4, SavingSteps DEF StubInv
<1>5. CASE Counting
  BY <1>3, <1>5, CountingSteps DEF StubInv
<1>6. CASE Pushing
  BY <1>3, <1>6, PushingSteps DEF StubInv
<1>7. CASE Clearing
  BY <1>3, <1>7, ClearingSteps DEF StubInv
<1>8. CASE Unwinding
  BY <1>3, <1>8, UnwindingSteps DEF StubInv
<1>9. CASE Restoring
  BY <1>3, <1>9, RestoringSteps DEF StubInv
<1>10. CASE Lost
  BY <1>3, <1>10, LostSteps DEF StubInv
<1> QED BY <1>2, <1>4, <1>5, <1>6, <1>7, <1>8, <1>9, <1>10 DEF StubInv

\* So does every step of the other pieces.
LEMMA PartSteps ==
  ASSUME Part, PartInv, Next
  PROVE  task' = task /\ PartInv'
<1>1. state = "runs"
  BY StepNone
<1>2. PartRuns /\ AllocLen \in Nat
  BY <1>1, AllocationIs DEF PartRuns, IsCode
<1>3. CASE SavingAll
  <2>1. state' = "runs" /\ task' = task /\ (SavingAll' \/ Calling' \/ Allocating(0)')
    BY <1>2, <1>3, SavingAllSteps
  <2>2. 0 \in 0..AllocLen' /\ AllocLen' = AllocLen
    BY <1>2, <2>1, TaskKept
  <2> QED BY <2>1, <2>2 DEF PartInv
<1>4. CASE Calling
  BY <1>2, <1>4, CallingSteps DEF PartInv
<1>5. CASE RestoringAll
  BY <1>2, <1>5, RestoringAllSteps DEF PartInv
<1>6. ASSUME NEW k \in 0..AllocLen, Allocating(k)
      PROVE  task' = task /\ PartInv'
  <2>1. CASE k < AllocLen
    <3>1. task' = task /\ state' = "runs" /\ Allocating(k + 1)'
      BY <1>2, <1>6, <2>1, AllocatingSteps
    <3>2. AllocLen' = AllocLen /\ k + 1 \in 0..AllocLen
      BY <1>2, <2>1, <3>1, TaskKept
    <3> QED BY <3>1, <3>2 DEF PartInv
  <2>2. CASE k = AllocLen /\ task.kind = "both"
    <3>1. RestoringAll
      BY <1>6, <2>2, AllocatedRestores
    <3> QED BY <1>2, <3>1, RestoringAllSteps DEF PartInv
  <2>3. CASE k = AllocLen /\ task.kind = "allocate"
    <3>1. task' = task /\ state' = "end" /\ Allocating(AllocLen)'
      BY <1>2, <1>6, <2>3, AllocateEnds
    <3> QED BY <2>3, <3>1 DEF PartInv
  <2> QED BY <1>2, <1>6, <2>1, <2>2, <2>3 DEF Allocating
<1> QED BY <1>1, <1>3, <1>4, <1>5, <1>6 DEF PartInv

\* And a step that changes nothing.
LEMMA Stutters ==
  ASSUME IInv, UNCHANGED vars
  PROVE  IInv'
<1>1. UNCHANGED <<task, pc, regs, equal, stack, state, called>>
  BY DEF vars
<1>2. /\ Frame' = Frame /\ Start' = Start /\ Base' = Base /\ Pre' = Pre /\ Mid' = Mid /\ AllocLen' = AllocLen
      /\ Below' = Below /\ Height' = Height /\ Laid' = Laid /\ \A k \in 1..12 : Target(k)' = Target(k)
  BY <1>1, TaskKept
<1>3. Once' = Once
  BY <1>1, <1>2 DEF Once, Entered
<1>4. Saving' = Saving /\ Counting' = Counting /\ Pushing' = Pushing
  BY <1>1, <1>2 DEF Saving, Counting, Pushing, PushingOne, Given, Counted
<1>5. Clearing' = Clearing /\ Unwinding' = Unwinding
  BY <1>1, <1>2, <1>3 DEF Clearing, Unwinding, Counted
<1>6. Restoring' = Restoring /\ Lost' = Lost
  BY <1>1, <1>2, <1>3 DEF Restoring, Lost
<1>7. StubInv' = StubInv
  BY <1>1, <1>4, <1>5, <1>6 DEF StubInv
<1>8. SavingAll' = SavingAll /\ Calling' = Calling /\ RestoringAll' = RestoringAll
  BY <1>1, <1>2 DEF SavingAll, Untouched, Calling, RestoringAll
<1>9. \A k : Allocating(k)' = Allocating(k)
  BY <1>1, <1>2 DEF Allocating, AllocAt
<1>10. Allocating(AllocLen)' = Allocating(AllocLen)
  BY <1>1, <1>2 DEF Allocating, AllocAt
<1>11. PartInv' = PartInv
  BY <1>1, <1>2, <1>8, <1>9, <1>10 DEF PartInv
<1> QED BY <1>1, <1>7, <1>11 DEF IInv

\* Whatever is run, at every instruction the stack and the registers in use hold what IInv says.
THEOREM MasmInductive == Spec => []IInv
<1>1. Init => IInv
  BY InvInit
<1>2. IInv /\ [Next]_vars => IInv'
  <2> SUFFICES ASSUME IInv, [Next]_vars PROVE IInv'
    OBVIOUS
  <2>1. CASE UNCHANGED vars
    BY <2>1, Stutters
  <2>2. CASE Next /\ task.kind = "stub"
    <3>1. task \in Tasks /\ StubInv
      BY <2>2 DEF IInv
    <3>2. task' = task /\ StubInv'
      BY <2>2, <3>1, StubSteps
    <3> QED BY <2>2, <3>1, <3>2 DEF IInv
  <2>3. CASE Next /\ task.kind # "stub"
    <3>1. Part /\ PartInv
      BY <2>3 DEF IInv, Part
    <3>2. task' = task /\ PartInv'
      BY <2>3, <3>1, PartSteps
    <3> QED BY <2>3, <3>1, <3>2 DEF IInv, Part
  <2> QED BY <2>1, <2>2, <2>3
<1> QED BY <1>1, <1>2, PTL DEF Spec

(***************************************************************************)
(* What the invariant says of the words pushed.                            *)
(***************************************************************************)

\* The words pushed, the last one first.
LEMMA WordsOf ==
  ASSUME NEW rs, NEW st, NEW n \in Nat, NEW f, Up(rs, st, n, f)
  PROVE  IsCode(Words(rs, st), n) /\ \A i \in 1..n : Words(rs, st)[i] = f[n + 1 - i]
<1>1. rs[RSP].off = -8 * n
  BY DEF Up, Word
<1>2. (-rs[RSP].off) \div 8 = n
  <2>1. -(-8 * n) = 8 * n
    OBVIOUS
  <2>2. (8 * n) \div 8 = n
    OBVIOUS
  <2> QED BY <1>1, <2>1, <2>2
<1>3. Words(rs, st) = [i \in 1..n |-> st[rs[RSP].off + 8 * (i - 1)]]
  BY <1>2 DEF Words
<1>4. ASSUME NEW i \in 1..n
      PROVE  st[rs[RSP].off + 8 * (i - 1)] = f[n + 1 - i]
  <2>1. rs[RSP].off + 8 * (i - 1) = -8 * (n + 1 - i) /\ n + 1 - i \in 1..n
    BY <1>1
  <2>2. st[-8 * (n + 1 - i)] = f[n + 1 - i]
    BY <2>1 DEF Up, Held
  <2> QED BY <2>1, <2>2
<1> QED BY <1>3, <1>4 DEF IsCode

\* What the stub saved is what it pushed first.
LEMMA SavedIs ==
  /\ IsCode(Saved, 8) /\ \A k \in 1..8 : Saved[k] = Frame[9 - k]
<1>1. IsCode(Saved, 8)
  BY DEF IsCode, Saved
<1>2. /\ Saved[1] = Caller(R15) /\ Saved[2] = Caller(R14) /\ Saved[3] = Caller(R13) /\ Saved[4] = Caller(R12)
      /\ Saved[5] = Caller(R11) /\ Saved[6] = Caller(RBX) /\ Saved[7] = Word("stack", -8) /\ Saved[8] = Caller(RBP)
  BY DEF Saved
<1>3. /\ Frame[8] = Caller(R15) /\ Frame[7] = Caller(R14) /\ Frame[6] = Caller(R13) /\ Frame[5] = Caller(R12)
      /\ Frame[4] = Caller(R11) /\ Frame[3] = Caller(RBX) /\ Frame[2] = Word("stack", -8) /\ Frame[1] = Caller(RBP)
  <2>1. /\ Frame[1] = Caller(RBP) /\ Frame[2] = Word("stack", -8) /\ Frame[3] = Caller(Kept[2]) /\ Frame[4] = Caller(Kept[3])
        /\ Frame[5] = Caller(Kept[4]) /\ Frame[6] = Caller(Kept[5]) /\ Frame[7] = Caller(Kept[6]) /\ Frame[8] = Caller(Kept[7])
    BY DEF Frame
  <2> QED BY <2>1, KeptAre
<1>4. ASSUME NEW k \in 1..8
      PROVE  Saved[k] = Frame[9 - k]
  <2>1. k = 1 \/ k = 2 \/ k = 3 \/ k = 4 \/ k = 5 \/ k = 6 \/ k = 7 \/ k = 8
    OBVIOUS
  <2> QED BY <2>1, <1>2, <1>3
<1> QED BY <1>1, <1>4

\* The arguments, the padding and what was saved are the words of the frame.
LEMMA FrameWords ==
  ASSUME task.kind = "stub", task.argc \in Nat
  PROVE  LET w == Arguments \o <<Num(0)>> \o Saved
             n == 9 + task.argc
         IN  IsCode(w, n) /\ \A i \in 1..n : w[i] = Frame[n + 1 - i]
<1> DEFINE a == task.argc
           z == <<Num(0)>>
           s == Arguments \o z
           t == s \o Saved
<1>1. IsCode(Arguments, a) /\ \A i \in 1..a : Arguments[i] = Argument(i)
  BY DEF Arguments, IsCode
<1>2. IsCode(z, 1) /\ z[1] = Num(0)
  BY DEF IsCode
<1>3. a \in Nat
  OBVIOUS
<1> HIDE DEF a, z, s, t
<1>4. IsCode(s, a + 1) /\ (\A i \in 1..a : s[i] = Arguments[i]) /\ Stands(z, 1, s, a)
  <2>1. IsCode(Arguments, a) /\ IsCode(z, 1)
    BY <1>1, <1>2
  <2> QED BY <2>1, Joined DEF s
<1>5. IsCode(t, a + 1 + 8) /\ (\A i \in 1..(a + 1) : t[i] = s[i]) /\ Stands(Saved, 8, t, a + 1)
  <2>1. IsCode(s, a + 1) /\ IsCode(Saved, 8)
    BY <1>4, SavedIs
  <2> QED BY <2>1, Joined DEF t
<1>6. ASSUME NEW i \in 1..(9 + a)
      PROVE  t[i] = Frame[9 + a + 1 - i]
  <2>1. CASE i \in 1..a
    <3>1. t[i] = Argument(i)
      BY <1>1, <1>3, <1>4, <1>5, <2>1
    <3>2. a - i \in Nat /\ 9 + (a - i) + 1 = 9 + a + 1 - i /\ a - (a - i) = i
      BY <1>3, <2>1
    <3>3. Frame[9 + (a - i) + 1] = Argument(a - (a - i))
      BY <1>3, <3>2, FrameIs DEF a
    <3> QED BY <3>1, <3>2, <3>3
  <2>2. CASE i = a + 1
    <3>1. t[i] = Num(0)
      <4>1. i \in 1..(a + 1) /\ 1 \in 1..1
        BY <1>3, <2>2
      <4>2. s[a + 1] = z[1]
        BY <1>4, <4>1 DEF Stands
      <4> QED BY <1>2, <1>5, <2>2, <4>1, <4>2
    <3>2. 9 + a + 1 - i = 9
      BY <1>3, <2>2
    <3>3. Frame[9] = Num(0)
      BY <1>3, FrameIs DEF a
    <3> QED BY <3>1, <3>2, <3>3
  <2>3. CASE i > a + 1
    <3> DEFINE k == i - (a + 1)
    <3>1. k \in 1..8 /\ a + 1 + k = i /\ 9 - k = 9 + a + 1 - i
      BY <1>3, <2>3
    <3> HIDE DEF k
    <3>2. t[a + 1 + k] = Saved[k] /\ Saved[k] = Frame[9 - k]
      BY <1>5, <3>1, SavedIs DEF Stands
    <3> QED BY <3>1, <3>2
  <2>4. i \in 1..a \/ i = a + 1 \/ i > a + 1
    BY <1>3
  <2> QED BY <2>1, <2>2, <2>3, <2>4
<1>7. a + 1 + 8 = 9 + a
  BY <1>3
<1> QED BY <1>5, <1>6, <1>7 DEF a, z, s, t

\* Two pieces with the same words are one.
LEMMA SameCode ==
  ASSUME NEW u, NEW v, NEW n, IsCode(u, n), IsCode(v, n), \A i \in 1..n : u[i] = v[i]
  PROVE  u = v
BY DEF IsCode

\* Hence there is one call to look at.
LEMMA CalledOnce ==
  ASSUME Once
  PROVE  ToSet(called) = {called[1]}
<1>1. called = <<called[1]>>
  BY DEF Once
<1> DEFINE c == called[1]
<1>2. ToSet(<<c>>) = {c}
  BY DEF ToSet
<1> QED BY <1>1, <1>2

\* Nothing is called before the call, and one call is made.
LEMMA CalledIs ==
  ASSUME StubInv
  PROVE  called = <<>> \/ Once
BY DEF StubInv, Saving, Counting, Pushing, Clearing, Unwinding, Restoring, Lost, Given, Counted

\* The invariant says what the code called finds, and that nothing else faults before the call.
LEMMA InvPushed ==
  ASSUME IInv
  PROVE  ArgumentsPushed
<1> SUFFICES ASSUME task.kind = "stub"
             PROVE  /\ \A c \in ToSet(called) :
                         /\ task.argc > 0
                         /\ Words(c.regs, c.stack) = Arguments \o <<Num(0)>> \o Saved
                         /\ c.regs[RAX] = Num(2 * task.argc)
                         /\ \A r \in ToSet(Cleared) \ {RAX, SCRATCH} : c.regs[r] = Num(0)
                    /\ called = <<>> /\ state = "fault" => task.argc = 0
  BY DEF ArgumentsPushed
<1>1. StubInv /\ task.argc \in Nat
  BY ArgsAssumption DEF IInv, Tasks
<1>2. ASSUME NEW c \in ToSet(called)
      PROVE  /\ task.argc > 0
             /\ Words(c.regs, c.stack) = Arguments \o <<Num(0)>> \o Saved
             /\ c.regs[RAX] = Num(2 * task.argc)
             /\ \A r \in ToSet(Cleared) \ {RAX, SCRATCH} : c.regs[r] = Num(0)
  <2>1. Once
    <3>1. called # <<>>
      BY <1>2 DEF ToSet
    <3> QED BY <1>1, <3>1, CalledIs
  <2>2. task.argc > 0 /\ Entered(c)
    BY <1>2, <2>1, CalledOnce DEF Once
  <2>3. Words(c.regs, c.stack) = Arguments \o <<Num(0)>> \o Saved
    <3> DEFINE n == 9 + task.argc
               w == Words(c.regs, c.stack)
               t == Arguments \o <<Num(0)>> \o Saved
    <3>1. n \in Nat /\ Up(c.regs, c.stack, n, Frame)
      BY <1>1, <2>2 DEF Entered
    <3>2. IsCode(t, n) /\ \A i \in 1..n : t[i] = Frame[n + 1 - i]
      BY <1>1, FrameWords
    <3> HIDE DEF n
    <3>3. IsCode(w, n) /\ \A i \in 1..n : w[i] = Frame[n + 1 - i]
      BY <3>1, WordsOf
    <3> HIDE DEF w, t
    <3>4. w = t
      BY <3>2, <3>3, SameCode
    <3> QED BY <3>4 DEF w, t
  <2>4. ASSUME NEW r \in ToSet(Cleared) \ {RAX, SCRATCH}
        PROVE  c.regs[r] = Num(0)
    <3>1. PICK i \in 1..12 : r = Cleared[i]
      BY ClearedAre DEF ToSet, IsCode
    <3>2. i \notin {1, 11}
      BY <3>1, ClearedAre DEF SCRATCH
    <3> QED BY <2>2, <3>1, <3>2 DEF Entered
  <2> QED BY <2>2, <2>3, <2>4 DEF Entered
<1>3. called = <<>> /\ state = "fault" => task.argc = 0
  <2> SUFFICES ASSUME called = <<>>, state = "fault" PROVE task.argc = 0
    OBVIOUS
  <2>1. ~Lost
    BY DEF Lost, Once
  <2> QED BY <1>1, <2>1 DEF StubInv
<1> QED BY <1>2, <1>3

\* The code entered through entry_stub finds its arguments on the stack, their count in RAX and no
\* address in any register that was cleared; without arguments it is not entered (stubs.rs 36-66).
THEOREM ArgumentsArePushed == Spec => []ArgumentsPushed
BY MasmInductive, InvPushed, PTL

(***************************************************************************)
(* What the invariant says of the registers.                               *)
(***************************************************************************)

\* The words an allocation leaves are the first two it pushed.
LEMMA LeftIs ==
  ASSUME Part
  PROVE  /\ task.kind = "save" => IsCode(LeftBehind, 0) /\ Len(LeftBehind) = 0
         /\ task.kind # "save" =>
              /\ IsCode(LeftBehind, 2) /\ Len(LeftBehind) = 2
              /\ LeftBehind[1] = Laid[Base + 2] /\ LeftBehind[2] = Laid[Base + 1]
<1>1. CASE task.kind = "save"
  BY <1>1 DEF LeftBehind, IsCode
<1>2. CASE task.kind # "save" /\ task.result = RAX
  <2>1. Pre = 0 /\ Base \in Nat /\ Base + Pre + 1 = Base + 1 /\ Base + Pre + 2 = Base + 2
    BY <1>2, LaidIs DEF Pre
  <2>2. LeftBehind = <<Num(2 * Tag), Num(2 * (Size + 8))>>
    BY <1>2 DEF LeftBehind
  <2>3. IsCode(LeftBehind, 2) /\ Len(LeftBehind) = 2 /\ LeftBehind[1] = Num(2 * Tag) /\ LeftBehind[2] = Num(2 * (Size + 8))
    BY <2>2 DEF IsCode
  <2> QED BY <1>2, <2>1, <2>3, LaidIs
<1>3. CASE task.kind # "save" /\ task.result # RAX
  <2>1. Pre = 2 /\ 1 \in 1..Pre /\ 2 \in 1..Pre
    BY <1>3 DEF Pre
  <2>2. LeftBehind = <<Start[RAX], Start[RAX]>>
    BY <1>3 DEF LeftBehind
  <2>3. IsCode(LeftBehind, 2) /\ Len(LeftBehind) = 2 /\ LeftBehind[1] = Start[RAX] /\ LeftBehind[2] = Start[RAX]
    BY <2>2 DEF IsCode
  <2> QED BY <1>3, <2>1, <2>3, LaidIs
<1> QED BY <1>1, <1>2, <1>3

\* popad pops what is left and then what was saved.
LEMMA PoppedIs ==
  ASSUME Part, task.kind \in {"save", "both"}
  PROVE  \A i \in 1..12 : Popped[i] = Laid[Height + 1 - i]
<1> DEFINE q == [i \in DOMAIN Pushed |-> Start[Reverse(Pushed)[i]]]
<1>1. IsCode(q, 12) /\ \A i \in 1..12 : q[i] = Start[Pushed[13 - i]]
  BY PushedAre DEF IsCode
<1>2. Popped = LeftBehind \o q
  BY DEF Popped
<1>3. Base = 12 /\ \A j \in 1..12 : Laid[j] = Start[Pushed[j]]
  BY LaidIs
<1> HIDE DEF q
<1>4. CASE task.kind = "save"
  <2>1. IsCode(LeftBehind, 0) /\ IsCode(q, 12)
    BY <1>1, <1>4, LeftIs
  <2>2. Stands(q, 12, LeftBehind \o q, 0)
    BY <2>1, Joined
  <2>3. Height = 12
    BY <1>4 DEF Height
  <2>4. ASSUME NEW i \in 1..12
        PROVE  Popped[i] = Laid[Height + 1 - i]
    <3>1. 0 + i = i /\ 13 - i \in 1..12 /\ 12 + 1 - i = 13 - i
      OBVIOUS
    <3>2. (LeftBehind \o q)[0 + i] = q[i]
      BY <2>2 DEF Stands
    <3>3. Popped[i] = Start[Pushed[13 - i]]
      BY <1>1, <1>2, <3>1, <3>2
    <3> QED BY <1>3, <2>3, <3>1, <3>3
  <2> QED BY <2>4
<1>5. CASE task.kind = "both"
  <2>1. IsCode(LeftBehind, 2) /\ IsCode(q, 12)
    BY <1>1, <1>5, LeftIs
  <2>2. Stands(q, 12, LeftBehind \o q, 2) /\ \A i \in 1..2 : (LeftBehind \o q)[i] = LeftBehind[i]
    BY <2>1, Joined
  <2>3. Height = 14
    BY <1>5 DEF Height
  <2>4. ASSUME NEW i \in 1..12
        PROVE  Popped[i] = Laid[Height + 1 - i]
    <3>1. CASE i \in 1..2
      <4>1. Popped[i] = LeftBehind[i]
        BY <1>2, <2>2, <3>1
      <4>2. LeftBehind[1] = Laid[14] /\ LeftBehind[2] = Laid[13]
        BY <1>3, <1>5, LeftIs
      <4>3. 14 + 1 - 1 = 14 /\ 14 + 1 - 2 = 13 /\ (i = 1 \/ i = 2)
        BY <3>1
      <4> QED BY <2>3, <4>1, <4>2, <4>3
    <3>2. CASE i \in 3..12
      <4> DEFINE k == i - 2
      <4>1. k \in 1..12 /\ 2 + k = i /\ 13 - k \in 1..12 /\ 13 - k = 14 + 1 - i
        BY <3>2
      <4> HIDE DEF k
      <4>2. (LeftBehind \o q)[2 + k] = q[k]
        BY <2>2, <4>1 DEF Stands
      <4>3. Popped[i] = Start[Pushed[13 - k]]
        BY <1>1, <1>2, <4>1, <4>2
      <4> QED BY <1>3, <2>3, <4>1, <4>3
    <3> QED BY <3>1, <3>2
  <2> QED BY <2>4
<1> QED BY <1>4, <1>5

\* The invariant says where every register comes from when a piece has ended or the stub is lost.
LEMMA InvBack ==
  ASSUME IInv
  PROVE  RegistersComeBack
<1>1. ASSUME task.kind # "stub"
      PROVE  /\ state # "fault"
             /\ state = "end" => regs[RSP].off = -8 * Len(LeftBehind)
             /\ task.kind \in {"save", "both"} /\ state = "end" =>
                  \A i \in DOMAIN Pushed :
                    LET r == Reverse(Pushed)[i]
                    IN regs[IF r = task.result THEN SCRATCH ELSE r] = Popped[i]
             /\ task.kind = "allocate" /\ state = "end" =>
                  /\ Words(regs, stack) = LeftBehind
                  /\ regs[task.result] = Num(2 * Tag)
  <2>1. Part /\ PartInv
    BY <1>1 DEF IInv, Part
  <2>2. state # "fault"
    BY <2>1 DEF PartInv
  <2>3. CASE state = "end" /\ task.kind \in {"save", "both"}
    <3>1. RestoringAll /\ pc = Below + 13 /\ Below \in Nat
      <4>1. Below \in Nat
        BY AllocationIs DEF Below, IsCode
      <4> QED BY <2>1, <2>3, <4>1 DEF PartInv
    <3>2. Height = 12 + Len(LeftBehind) /\ Len(LeftBehind) \in Nat
      <4>1. CASE task.kind = "save"
        <5>1. Height = 12 /\ Len(LeftBehind) = 0
          BY <2>1, <4>1, LeftIs DEF Height
        <5> QED BY <5>1
      <4>2. CASE task.kind = "both"
        <5>1. Height = 14 /\ Len(LeftBehind) = 2
          BY <2>1, <4>2, LeftIs DEF Height
        <5> QED BY <5>1
      <4> QED BY <2>3, <4>1, <4>2
    <3>3. Height + Below + 1 - pc = Len(LeftBehind)
      BY <3>1, <3>2
    <3>4. regs[RSP].off = -8 * Len(LeftBehind)
      <4> DEFINE h == Height + Below + 1 - pc
      <4>1. Up(regs, stack, h, Laid)
        BY <3>1 DEF RestoringAll
      <4> HIDE DEF h
      <4>2. regs[RSP].off = -8 * h
        BY <4>1 DEF Up, Word
      <4> QED BY <3>3, <4>2 DEF h
    <3>5. ASSUME NEW i \in DOMAIN Pushed
          PROVE  LET r == Reverse(Pushed)[i]
                 IN regs[IF r = task.result THEN SCRATCH ELSE r] = Popped[i]
      <4>1. i \in 1..12 /\ i <= pc - Below - 1
        BY <3>1, PushedAre DEF IsCode
      <4>2. regs[Target(i)] = Laid[Height + 1 - i]
        BY <3>1, <4>1 DEF RestoringAll
      <4>3. Popped[i] = Laid[Height + 1 - i] /\ Reverse(Pushed)[i] = Pushed[13 - i]
        BY <2>1, <2>3, <4>1, PoppedIs, PushedAre
      <4> QED BY <4>2, <4>3 DEF Target
    <3> QED BY <2>2, <2>3, <3>4, <3>5
  <2>4. CASE state = "end" /\ task.kind = "allocate"
    <3>1. Allocating(AllocLen)
      BY <2>1, <2>4 DEF PartInv, RestoringAll
    <3>2. Up(regs, stack, Base + 2, Laid) /\ regs[task.result] = Num(2 * Tag) /\ Base = 0
      BY <2>1, <2>4, <3>1, AllocatedIs, LaidIs
    <3>3. Up(regs, stack, 2, Laid) /\ IsCode(LeftBehind, 2) /\ Len(LeftBehind) = 2
          /\ LeftBehind[1] = Laid[2] /\ LeftBehind[2] = Laid[1]
      BY <2>1, <2>4, <3>2, LeftIs
    <3>4. regs[RSP].off = -8 * Len(LeftBehind)
      BY <3>3 DEF Up, Word
    <3>5. IsCode(Words(regs, stack), 2) /\ \A i \in 1..2 : Words(regs, stack)[i] = Laid[2 + 1 - i]
      BY <3>3, WordsOf
    <3>6. \A i \in 1..2 : Words(regs, stack)[i] = LeftBehind[i]
      <4>1. 2 + 1 - 1 = 2 /\ 2 + 1 - 2 = 1 /\ \A i \in 1..2 : i = 1 \/ i = 2
        OBVIOUS
      <4> QED BY <3>3, <3>5, <4>1
    <3>7. Words(regs, stack) = LeftBehind
      BY <3>3, <3>5, <3>6, SameCode
    <3> QED BY <2>2, <2>4, <3>2, <3>4, <3>7
  <2>5. state = "end" => task.kind \in {"save", "both", "allocate"}
    BY <2>1, PartTasks
  <2> QED BY <2>2, <2>3, <2>4, <2>5
<1>2. ASSUME task.kind = "stub"
      PROVE  /\ state # "end"
             /\ state = "fault" => \A c \in ToSet(called) :
                  LET words == Words(c.regs, c.stack) IN
                  /\ \A i \in 1..6 : regs[Reverse(Kept)[i]] = words[i]
                  /\ regs[RSP] = words[7]
  <2>1. StubInv /\ task.argc \in Nat
    BY <1>2, ArgsAssumption DEF IInv, Tasks
  <2>2. state # "end"
    BY <2>1 DEF StubInv
  <2>3. ASSUME state = "fault", NEW c \in ToSet(called)
        PROVE  LET words == Words(c.regs, c.stack) IN
               /\ \A i \in 1..6 : regs[Reverse(Kept)[i]] = words[i]
               /\ regs[RSP] = words[7]
    <3>1. called # <<>>
      BY <2>3 DEF ToSet
    <3>2. Lost
      BY <2>1, <2>3, <3>1 DEF StubInv
    <3>3. Once /\ Entered(c)
      BY <2>3, <3>2, CalledOnce DEF Lost, Once
    <3> DEFINE n == 9 + task.argc
               w == Words(c.regs, c.stack)
    <3>4. n \in Nat /\ Up(c.regs, c.stack, n, Frame) /\ n >= 9
      BY <2>1, <3>3 DEF Entered
    <3>5. \A k \in 1..6 : regs[Kept[8 - k]] = Frame[n + 1 - k]
      <4>1. \A k \in 1..6 : 10 + task.argc - k = n + 1 - k
        BY <2>1
      <4> QED BY <3>2, <4>1 DEF Lost
    <3>6. regs[RSP] = Frame[n + 1 - 7]
      <4>1. 3 + task.argc = n + 1 - 7
        BY <2>1
      <4> QED BY <3>2, <4>1 DEF Lost
    <3> HIDE DEF n
    <3>7. \A i \in 1..n : w[i] = Frame[n + 1 - i]
      BY <3>4, WordsOf
    <3>8. regs[RSP] = w[7]
      <4>1. 7 \in 1..n
        BY <3>4
      <4> QED BY <3>6, <3>7, <4>1
    <3>9. \A i \in 1..6 : regs[Reverse(Kept)[i]] = w[i]
      <4>1. \A i \in 1..6 : i \in 1..n /\ i \in 1..7
        BY <3>4
      <4> QED BY <3>5, <3>7, <4>1, KeptAre
    <3> QED BY <3>8, <3>9
  <2> QED BY <2>2, <2>3
<1> QED BY <1>1, <1>2 DEF RegistersComeBack

\* Registers come back as pushad saved them, or off by the two words an allocation leaves (asm.rs
\* 120-197); the stub never returns, with the seventh word as its stack (stubs.rs 68-87).
THEOREM RegistersAreBack == Spec => []RegistersComeBack
BY MasmInductive, InvBack, PTL
=============================================================================
