-------------------------- MODULE EncodingProofs ---------------------------
(***************************************************************************)
(* What TLAPS proves about the encoders of Encoding and VexEncoding, one   *)
(* by one, for every register, address and immediate: what each of them    *)
(* emits is what the properties ask of it (Good, VexGood), and from that   *)
(* the invariants of both modules as theorems of AllSpec.                  *)
(*                                                                         *)
(* The argument: a code is a legacy prefix or none, a REX prefix or none,  *)
(* an opcode and what comes after it (Laid), and the processor takes it    *)
(* apart at the same places (Layout).  What it finds there are the numbers *)
(* of the registers, from their low and their high bits                    *)
(* (ThroughRegisters), or the address that was emitted (MemPiecesLaid,     *)
(* ThroughMemory), and the immediate (Ends).  Each encoder is then an      *)
(* instance of a few forms; those the properties make an exception for are *)
(* compared with what was asked operand by operand.                        *)
(*                                                                         *)
(* A VEX prefix for registers is read as the fields it was given, inverted *)
(* twice (PrefixHolds), so that the processor finds the registers where it *)
(* does behind a REX prefix (PlainRegisters).  A prefix for an address has *)
(* bit 3 of its second byte set, which no map has (MemPrefix, WrongMap); a *)
(* broadcast has lost the only byte after its opcode.  EncodingInv carries *)
(* from a call to what is found in its code.                               *)
(***************************************************************************)
EXTENDS VexEncoding, SequenceTheorems, TLAPS

(***************************************************************************)
(* The pieces of a code, and where the processor finds them.               *)
(***************************************************************************)

Bits == {0, 1}
Low == 0..7
Names == DOMAIN Opcodes \cup DOMAIN VexOpcodes

\* Pieces whose fields hold what they are for.
RexPiece == [k : {"rex"}, w : Bits, r : Bits, x : Bits, b : Bits]
OpPiece == [k : {"op"}, op : Names] \cup [k : {"op"}, op : Names, low : Low]
ModRMPiece == [k : {"modrm"}, mode : 0..3, reg : Low, rm : Low]
SibPiece == [k : {"sib"}, scale : 0..3, index : Low, base : Low]
BytePiece == [k : {"n1"}, n : -128..255]
LongPiece == [k : {"n4", "n8"}, n : Int]
PrefixPiece == [k : {"prefix"}]
VexPiece == [k : {"vex2"}, n : 0..255] \cup [k : {"vex3"}, n : 0..255, n2 : Int]
CutPiece == [k : {"n3"}]
Pieces == RexPiece \cup OpPiece \cup ModRMPiece \cup SibPiece \cup BytePiece
            \cup LongPiece \cup PrefixPiece \cup VexPiece \cup CutPiece

\* Such a piece has the fields the encoders assert, and of the width of its bytes.
LEMMA PiecesOK ==
  ASSUME NEW p \in Pieces
  PROVE  p.k \in PieceKinds /\ FieldsOK(p) /\ (p.k = "n1" => p.n \in -128..255)
<1>1. CASE p \in RexPiece
  BY <1>1 DEF RexPiece, PieceKinds, FieldsOK, Bits
<1>2. CASE p \in OpPiece
  BY <1>2 DEF OpPiece, PieceKinds, FieldsOK
<1>3. CASE p \in ModRMPiece
  BY <1>3 DEF ModRMPiece, PieceKinds, FieldsOK, Low
<1>4. CASE p \in SibPiece
  BY <1>4 DEF SibPiece, PieceKinds, FieldsOK, Low
<1>5. CASE p \in BytePiece \/ p \in LongPiece \/ p \in PrefixPiece \/ p \in CutPiece
  BY <1>5 DEF BytePiece, LongPiece, PrefixPiece, CutPiece, PieceKinds, FieldsOK
<1>6. CASE p \in VexPiece
  BY <1>6 DEF VexPiece, PieceKinds, FieldsOK
<1> QED BY <1>1, <1>2, <1>3, <1>4, <1>5, <1>6 DEF Pieces

\* An instruction as its encoder puts it together.
Laid(h, y, o, rest) == h \o ((y \o <<o>>) \o rest)

\* A REX prefix, which is left out only where it says nothing.
MaybeRex(y, z) ==
  /\ z \in RexPiece /\ y \in {<<>>, <<z>>}
  /\ y = <<>> => z.w = 0 /\ z.r = 0 /\ z.x = 0 /\ z.b = 0

\* What a code is made of: pieces before its opcode, the opcode and the rest.
Parts(c, o, rest) ==
  /\ c \in Seq(Pieces) /\ rest \in Seq(Pieces)
  /\ OpAt(c) \in 1..3 /\ c[OpAt(c)] = o
  /\ Len(c) = OpAt(c) + Len(rest)
  /\ \A i \in 1..Len(rest) : c[OpAt(c) + i] = rest[i]

\* ... and how the processor takes it apart.
Opens(c, y, z, o, rest) ==
  /\ Parts(c, o, rest)
  /\ HasRex(c) <=> y = <<z>>
  /\ RexOf(c).w = z.w /\ RexOf(c).r = z.r /\ RexOf(c).x = z.x /\ RexOf(c).b = z.b
  /\ \A i \in DOMAIN c : i < OpAt(c) => c[i].k = "prefix" \/ (c[i].k = "rex" /\ HasRex(c))

\* The processor takes a code apart where its encoder put it together.
LEMMA Layout ==
  ASSUME NEW h \in {<<>>, Prefix}, NEW z, NEW y, MaybeRex(y, z),
         NEW o \in OpPiece, NEW rest \in Seq(Pieces), NEW c, c = Laid(h, y, o, rest)
  PROVE  Opens(c, y, z, o, rest)
<1> DEFINE p == [k |-> "prefix"]
<1> SUFFICES /\ c \in Seq(Pieces)
             /\ HasRex(c) <=> y = <<z>>
             /\ RexOf(c).w = z.w /\ RexOf(c).r = z.r /\ RexOf(c).x = z.x /\ RexOf(c).b = z.b
             /\ OpAt(c) \in 1..3 /\ c[OpAt(c)] = o
             /\ Len(c) = OpAt(c) + Len(rest)
             /\ \A i \in 1..Len(rest) : c[OpAt(c) + i] = rest[i]
             /\ \A i \in DOMAIN c : i < OpAt(c) => c[i].k = "prefix" \/ (c[i].k = "rex" /\ HasRex(c))
  BY DEF Opens, Parts
<1>1. /\ p \in Pieces /\ z \in Pieces /\ o \in Pieces
      /\ p.k = "prefix" /\ z.k = "rex" /\ o.k = "op"
  BY DEF MaybeRex, Pieces, PrefixPiece, RexPiece, OpPiece
<1>2. /\ h = <<>> \/ h = <<p>>
      /\ y = <<z>> \/ (y = <<>> /\ z.w = 0 /\ z.r = 0 /\ z.x = 0 /\ z.b = 0)
      /\ <<>> # <<z>>
  BY DEF Prefix, MaybeRex
<1>3. c = h \o ((y \o <<o>>) \o rest)
  BY DEF Laid
<1> HIDE DEF p
<1>4. CASE h = <<>> /\ y = <<>>
  <2>1. /\ c = <<o>> \o rest /\ c \in Seq(Pieces) /\ Len(c) = 1 + Len(rest) /\ c[1] = o
        /\ DOMAIN c = 1..Len(c)
        /\ \A i \in 1..Len(rest) : c[1 + i] = rest[i]
    BY <1>1, <1>3, <1>4
  <2>2. ~HasPrefix(c) /\ RexAt(c) = 1 /\ ~HasRex(c) /\ OpAt(c) = 1
    BY <1>1, <2>1 DEF HasPrefix, RexAt, HasRex, OpAt
  <2> QED BY <1>1, <1>2, <1>4, <2>1, <2>2 DEF RexOf
<1>5. CASE h = <<p>> /\ y = <<>>
  <2>1. /\ c = <<p, o>> \o rest /\ c \in Seq(Pieces) /\ Len(c) = 2 + Len(rest) /\ c[1] = p /\ c[2] = o
        /\ DOMAIN c = 1..Len(c)
        /\ \A i \in 1..Len(rest) : c[2 + i] = rest[i]
    BY <1>1, <1>3, <1>5
  <2>2. HasPrefix(c) /\ RexAt(c) = 2 /\ ~HasRex(c) /\ OpAt(c) = 2
    BY <1>1, <2>1 DEF HasPrefix, RexAt, HasRex, OpAt
  <2> QED BY <1>1, <1>2, <1>5, <2>1, <2>2, SMTT(30) DEF RexOf
<1>6. CASE h = <<>> /\ y = <<z>>
  <2>1. /\ c = <<z, o>> \o rest /\ c \in Seq(Pieces) /\ Len(c) = 2 + Len(rest) /\ c[1] = z /\ c[2] = o
        /\ DOMAIN c = 1..Len(c)
        /\ \A i \in 1..Len(rest) : c[2 + i] = rest[i]
    BY <1>1, <1>3, <1>6
  <2>2. ~HasPrefix(c) /\ RexAt(c) = 1 /\ HasRex(c) /\ OpAt(c) = 2
    BY <1>1, <2>1 DEF HasPrefix, RexAt, HasRex, OpAt
  <2> QED BY <1>1, <1>2, <1>6, <2>1, <2>2, SMTT(30) DEF RexOf
<1>7. CASE h = <<p>> /\ y = <<z>>
  <2> DEFINE q == <<z, o>> \o rest
  <2>0. /\ q \in Seq(Pieces) /\ Len(q) = 2 + Len(rest) /\ q[1] = z /\ q[2] = o
        /\ \A i \in 1..Len(rest) : q[2 + i] = rest[i]
        /\ c = <<p>> \o q
    BY <1>1, <1>3, <1>7
  <2> HIDE DEF q
  <2>1. /\ c \in Seq(Pieces) /\ Len(c) = 3 + Len(rest)
        /\ c[1] = p /\ c[2] = z /\ c[3] = o
        /\ DOMAIN c = 1..Len(c)
        /\ \A i \in 1..Len(rest) : c[3 + i] = rest[i]
    <3>1. /\ c \in Seq(Pieces) /\ Len(c) = 1 + Len(q) /\ c[1] = p /\ DOMAIN c = 1..Len(c)
          /\ \A i \in 1..Len(q) : c[1 + i] = q[i]
      BY <1>1, <2>0
    <3>2. \A i \in 1..Len(rest) : 2 + i \in 1..Len(q) /\ 1 + (2 + i) = 3 + i
      BY <2>0
    <3>3. 1 \in 1..Len(q) /\ 2 \in 1..Len(q) /\ 1 + 1 = 2 /\ 1 + 2 = 3 /\ Len(rest) \in Nat
      BY <2>0
    <3> QED BY <2>0, <3>1, <3>2, <3>3
  <2>2. HasPrefix(c) /\ RexAt(c) = 2 /\ HasRex(c) /\ OpAt(c) = 3
    BY <1>1, <2>1 DEF HasPrefix, RexAt, HasRex, OpAt
  <2>3. RexOf(c) = z
    BY <2>1, <2>2 DEF RexOf
  <2>4. \A i \in DOMAIN c : i < 3 => i = 1 \/ i = 2
    BY <2>1
  <2>6. \A i \in DOMAIN c : i < 3 => c[i].k = "prefix" \/ c[i].k = "rex"
    BY <1>1, <2>1, <2>4
  <2>7. HasRex(c) <=> y = <<z>>
    BY <1>7, <2>2
  <2> QED BY <1>1, <2>1, <2>2, <2>3, <2>6, <2>7
<1> QED BY <1>2, <1>4, <1>5, <1>6, <1>7

\* The kinds of the pieces of a sequence.
LEMMA KindsOf ==
  ASSUME NEW q \in Seq(Pieces)
  PROVE  /\ Kinds(q) \in Seq(PieceKinds) /\ Len(Kinds(q)) = Len(q) /\ DOMAIN Kinds(q) = 1..Len(q)
         /\ \A i \in 1..Len(q) : Kinds(q)[i] = q[i].k
<1>1. \A i \in DOMAIN q : q[i] \in Pieces
  OBVIOUS
<1>2. \A i \in DOMAIN q : q[i].k \in PieceKinds
  BY <1>1, PiecesOK
<1>3. DOMAIN q = 1..Len(q) /\ Len(q) \in Nat
  OBVIOUS
<1>4. Kinds(q) = [i \in 1..Len(q) |-> q[i].k]
  BY <1>3 DEF Kinds
<1> QED BY <1>2, <1>3, <1>4

\* The kinds of what comes after the first pieces.
LEMMA RestKinds ==
  ASSUME NEW c \in Seq(Pieces), NEW rest \in Seq(Pieces), NEW n \in 1..3,
         Len(c) = n + Len(rest), \A i \in 1..Len(rest) : c[n + i] = rest[i]
  PROVE  SubSeq(Kinds(c), n + 1, Len(c)) = Kinds(rest)
<1> DEFINE s == SubSeq(Kinds(c), n + 1, Len(c))
<1>1. /\ Kinds(c) \in Seq(PieceKinds) /\ Len(Kinds(c)) = Len(c)
      /\ Kinds(rest) \in Seq(PieceKinds) /\ Len(Kinds(rest)) = Len(rest) /\ Len(rest) \in Nat
      /\ \A i \in 1..Len(c) : Kinds(c)[i] = c[i].k
      /\ \A i \in 1..Len(rest) : Kinds(rest)[i] = rest[i].k
  BY KindsOf
<1>2. s = [i \in 1..Len(rest) |-> Kinds(c)[i + n]]
  <2>1. Len(c) - (n + 1) + 1 = Len(rest)
    BY <1>1
  <2>2. \A i \in 1..Len(rest) : i + (n + 1) - 1 = i + n /\ i + n \in 1..Len(Kinds(c))
    BY <1>1
  <2> QED BY <1>1, <2>1, <2>2
<1>3. \A i \in 1..Len(rest) : Kinds(c)[i + n] = rest[i].k
  <2>1. \A i \in 1..Len(rest) : i + n = n + i /\ n + i \in 1..Len(c)
    BY <1>1
  <2> QED BY <1>1, <2>1
<1>4. Kinds(rest) = [i \in 1..Len(rest) |-> rest[i].k]
  <2>1. DOMAIN rest = 1..Len(rest)
    OBVIOUS
  <2> QED BY <2>1 DEF Kinds
<1> HIDE DEF s
<1>5. s = Kinds(rest)
  BY <1>2, <1>3, <1>4
<1> QED BY <1>5 DEF s

\* What two equal sequences end with can be left out, and what they begin with.
LEMMA CancelRight ==
  ASSUME NEW S, NEW s \in Seq(S), NEW t \in Seq(S), NEW v \in Seq(S), s \o v = t \o v
  PROVE  s = t
BY ConcatSimplifications

\* What two equal sequences begin with can be left out.
LEMMA CancelLeft ==
  ASSUME NEW S, NEW s \in Seq(S), NEW t \in Seq(S), NEW v \in Seq(S), v \o s = v \o t
  PROVE  s = t
BY ConcatSimplifications

\* The kinds of two sequences after each other.
LEMMA KindsConcat ==
  ASSUME NEW p \in Seq(Pieces), NEW q \in Seq(Pieces)
  PROVE  Kinds(p \o q) = Kinds(p) \o Kinds(q)
<1>1. /\ p \o q \in Seq(Pieces) /\ Len(p \o q) = Len(p) + Len(q) /\ Len(p) \in Nat /\ Len(q) \in Nat
      /\ \A i \in 1..(Len(p) + Len(q)) : (p \o q)[i] = IF i <= Len(p) THEN p[i] ELSE q[i - Len(p)]
  BY ConcatProperties
<1> DEFINE a == Kinds(p)  b == Kinds(q)  c == Kinds(p \o q)
<1>2. /\ a \in Seq(PieceKinds) /\ Len(a) = Len(p) /\ \A i \in 1..Len(p) : a[i] = p[i].k
      /\ b \in Seq(PieceKinds) /\ Len(b) = Len(q) /\ \A i \in 1..Len(q) : b[i] = q[i].k
      /\ c \in Seq(PieceKinds) /\ Len(c) = Len(p) + Len(q)
      /\ \A i \in 1..(Len(p) + Len(q)) : c[i] = (p \o q)[i].k
  BY <1>1, KindsOf
<1> HIDE DEF a, b, c
<1>3. /\ a \o b \in Seq(PieceKinds) /\ Len(a \o b) = Len(a) + Len(b)
      /\ \A i \in 1..(Len(a) + Len(b)) : (a \o b)[i] = IF i <= Len(a) THEN a[i] ELSE b[i - Len(a)]
  <2>1. a \in Seq(PieceKinds) /\ b \in Seq(PieceKinds)
    BY <1>2
  <2> QED BY <2>1, ConcatProperties
<1>4. ASSUME NEW i \in 1..Len(c) PROVE c[i] = (a \o b)[i]
  <2>0. i \in 1..(Len(p) + Len(q)) /\ i \in Nat /\ i >= 1
    BY <1>1, <1>2
  <2>1. CASE i <= Len(p)
    <3>1. i \in 1..Len(p)
      BY <1>1, <2>0, <2>1
    <3> QED BY <1>1, <1>2, <1>3, <2>0, <2>1, <3>1
  <2>2. CASE ~(i <= Len(p))
    <3>1. i - Len(p) \in 1..Len(q)
      BY <1>1, <2>0, <2>2
    <3> QED BY <1>1, <1>2, <1>3, <2>0, <2>2, <3>1
  <2> QED BY <2>1, <2>2
<1>5. c = a \o b
  <2>1. Len(c) = Len(a \o b)
    BY <1>2, <1>3
  <2> QED BY <1>2, <1>3, <1>4, <2>1, SeqEqual
<1> QED BY <1>5 DEF a, b, c

\* The kinds of what comes after the opcode.
LEMMA PartKinds ==
  ASSUME NEW c, NEW o, NEW rest, Parts(c, o, rest)
  PROVE  SubSeq(Kinds(c), OpAt(c) + 1, Len(c)) = Kinds(rest)
BY RestKinds DEF Parts

\* The kind of one piece, and of none.
LEMMA KindsOfOne ==
  ASSUME NEW p \in Pieces PROVE Kinds(<<p>>) = <<p.k>> /\ <<p>> \in Seq(Pieces)
<1>1. <<p>> \in Seq(Pieces) /\ Len(<<p>>) = 1 /\ <<p>>[1] = p /\ DOMAIN <<p>> = {1}
  OBVIOUS
<1>2. Kinds(<<p>>) = [i \in {1} |-> p.k]
  BY <1>1 DEF Kinds
<1>3. <<p.k>> = [i \in {1} |-> p.k]
  OBVIOUS
<1> QED BY <1>1, <1>2, <1>3

\* The kinds of no pieces.
LEMMA KindsOfNone == Kinds(<<>>) = <<>> /\ <<>> \in Seq(Pieces)
BY DEF Kinds

\* Operands in registers, or a register that the opcode holds.
LEMMA Direct ==
  ASSUME NEW c, NEW o, NEW rest, Parts(c, o, rest), ShapeOf(c).dest \in {"reg", "rm"},
         NEW mo \in ModRMPiece, mo.mode = 3,
         NEW t \in Seq(Pieces), Kinds(t) = ShapeOf(c).imm, rest = <<mo>> \o t
  PROVE  InStep(c) /\ ModRMOf(c) = mo /\ HasModRM(c)
<1>1. mo \in Pieces /\ mo.k = "modrm"
  BY DEF Pieces, ModRMPiece
<1>2. rest[1] = mo /\ Len(rest) >= 1
  BY <1>1
<1>3. ModRMOf(c) = mo
  BY <1>2 DEF ModRMOf, Parts
<1>4. ~HasSib(c) /\ HasModRM(c)
  BY <1>3 DEF HasSib, HasModRM
<1>5. ~Baseless(c) /\ DispBytes(c) = <<>>
  BY <1>3, <1>4 DEF Baseless, DispBytes
<1>6. Kinds(rest) = <<"modrm">> \o Kinds(t)
  BY <1>1, KindsConcat, KindsOfOne
<1>7. <<"modrm">> \o <<>> = <<"modrm">>
  OBVIOUS
<1> QED BY <1>3, <1>4, <1>5, <1>6, <1>7, PartKinds DEF InStep

\* An opcode without ModRM is in step if its immediate has the bytes it takes.
LEMMA Implied ==
  ASSUME NEW c, NEW o, NEW rest, Parts(c, o, rest), ShapeOf(c).dest \notin {"reg", "rm"},
         Kinds(rest) = ShapeOf(c).imm
  PROVE  InStep(c)
BY PartKinds DEF InStep, HasModRM

\* Sequences of one, two and three elements.
LEMMA Short1 ==
  ASSUME NEW S, NEW p \in S
  PROVE  <<p>> \in Seq(S) /\ Len(<<p>>) = 1 /\ <<p>>[1] = p
OBVIOUS

\* A sequence of two elements.
LEMMA Short2 ==
  ASSUME NEW S, NEW p \in S, NEW q \in S
  PROVE  <<p, q>> \in Seq(S) /\ Len(<<p, q>>) = 2 /\ <<p, q>>[1] = p /\ <<p, q>>[2] = q
OBVIOUS

\* A sequence of three elements.
LEMMA Short3 ==
  ASSUME NEW S, NEW p \in S, NEW q \in S, NEW r \in S
  PROVE  /\ <<p, q, r>> \in Seq(S) /\ Len(<<p, q, r>>) = 3
         /\ <<p, q, r>>[1] = p /\ <<p, q, r>>[2] = q /\ <<p, q, r>>[3] = r
OBVIOUS

\* Short sequences after each other.
LEMMA ShortConcat ==
  ASSUME NEW S, NEW p \in S, NEW q \in S, NEW r \in S
  PROVE  /\ <<p>> \o <<>> = <<p>> /\ <<p>> \o <<q>> = <<p, q>>
         /\ <<p, q>> \o <<>> = <<p, q>> /\ <<p, q>> \o <<r>> = <<p, q, r>>
<1>1. <<>> \in Seq(S)
  OBVIOUS
<1>2. <<p>> \o <<>> = <<p>> /\ <<p, q>> \o <<>> = <<p, q>>
  BY <1>1, Short1, Short2, ConcatEmptySeq
<1>3. <<p>> \o <<q>> = <<p, q>>
  <2> DEFINE a == <<p>> \o <<q>>
  <2>1. a \in Seq(S) /\ Len(a) = 2 /\ a[1] = p /\ a[2] = q
    BY Short1, Short2, ConcatProperties
  <2> HIDE DEF a
  <2>2. a = [i \in 1..2 |-> a[i]]
    BY <2>1
  <2>3. <<p, q>> = [i \in 1..2 |-> <<p, q>>[i]]
    OBVIOUS
  <2>4. \A i \in 1..2 : a[i] = <<p, q>>[i]
    BY <2>1
  <2> QED BY <2>2, <2>3, <2>4 DEF a
<1>4. <<p, q>> \o <<r>> = <<p, q, r>>
  <2> DEFINE a == <<p, q>> \o <<r>>
  <2>1. a \in Seq(S) /\ Len(a) = 3 /\ a[1] = p /\ a[2] = q /\ a[3] = r
    BY Short1, Short2, ConcatProperties
  <2> HIDE DEF a
  <2>2. a = [i \in 1..3 |-> a[i]]
    BY <2>1
  <2>3. <<p, q, r>> = [i \in 1..3 |-> <<p, q, r>>[i]]
    OBVIOUS
  <2>4. \A i \in 1..3 : a[i] = <<p, q, r>>[i]
    BY <2>1
  <2> QED BY <2>2, <2>3, <2>4 DEF a
<1> QED BY <1>2, <1>3, <1>4

\* What is between equal sequences is equal.
LEMMA CancelInside ==
  ASSUME NEW S, NEW a \in Seq(S), NEW l \in Seq(S), NEW e \in Seq(S), NEW k \in Seq(S),
         (a \o l) \o k = (a \o e) \o k
  PROVE  l = e
<1>1. a \o l \in Seq(S) /\ a \o e \in Seq(S)
  BY ConcatProperties
<1>2. a \o l = a \o e
  BY <1>1, CancelRight
<1> QED BY <1>2, CancelLeft

\* A code with ModRM is in step exactly if its displacement has the bytes that ModRM and
\* SIB announce.
LEMMA InStepIff ==
  ASSUME NEW c, HasModRM(c), NEW l \in Seq(PieceKinds), DispBytes(c) \in Seq(PieceKinds),
         ShapeOf(c).imm \in Seq(PieceKinds),
         SubSeq(Kinds(c), OpAt(c) + 1, Len(c))
           = ((IF HasSib(c) THEN <<"modrm", "sib">> ELSE <<"modrm">>) \o l) \o ShapeOf(c).imm
  PROVE  InStep(c) <=> l = DispBytes(c)
<1> DEFINE e == DispBytes(c)
           k == ShapeOf(c).imm
           z == SubSeq(Kinds(c), OpAt(c) + 1, Len(c))
           a == IF HasSib(c) THEN <<"modrm", "sib">> ELSE <<"modrm">>
<1>1. z = (a \o l) \o k /\ e \in Seq(PieceKinds) /\ k \in Seq(PieceKinds)
  OBVIOUS
<1>2. a \in Seq(PieceKinds) /\ (HasSib(c) => Len(a) >= 2 /\ a[2] = "sib")
  <2>1. "modrm" \in PieceKinds /\ "sib" \in PieceKinds
    BY DEF PieceKinds
  <2>2. CASE HasSib(c)
    <3>1. a = <<"modrm", "sib">>
      BY <2>2
    <3> HIDE DEF a
    <3>2. a \in Seq(PieceKinds) /\ Len(a) = 2 /\ a[2] = "sib"
      BY <2>1, <3>1, Short2
    <3> QED BY <3>2
  <2>3. CASE ~HasSib(c)
    <3>1. a = <<"modrm">>
      BY <2>3
    <3> HIDE DEF a
    <3>2. a \in Seq(PieceKinds)
      BY <2>1, <3>1, Short1
    <3> QED BY <2>3, <3>2
  <2> QED BY <2>2, <2>3
<1>3. InStep(c) <=> (HasSib(c) => Len(z) >= 2 /\ z[2] = "sib") /\ z = (a \o e) \o k
  BY DEF InStep
<1> HIDE DEF e, k, z, a
<1>4. HasSib(c) => Len(z) >= 2 /\ z[2] = "sib"
  <2>1. /\ a \o l \in Seq(PieceKinds) /\ Len(a) \in Nat /\ Len(l) \in Nat /\ Len(k) \in Nat
        /\ Len(a \o l) = Len(a) + Len(l)
        /\ \A i \in 1..(Len(a) + Len(l)) : (a \o l)[i] = IF i <= Len(a) THEN a[i] ELSE l[i - Len(a)]
    BY <1>1, <1>2, ConcatProperties
  <2>2. /\ Len(z) = Len(a \o l) + Len(k)
        /\ \A i \in 1..(Len(a \o l) + Len(k)) :
             z[i] = IF i <= Len(a \o l) THEN (a \o l)[i] ELSE k[i - Len(a \o l)]
    BY <1>1, <2>1, ConcatProperties
  <2> QED BY <1>2, <2>1, <2>2
<1>5. ASSUME z = (a \o e) \o k PROVE l = e
  BY <1>1, <1>2, <1>5, CancelInside
<1>6. l = e => z = (a \o e) \o k
  BY <1>1
<1> QED BY <1>3, <1>4, <1>5, <1>6 DEF e

\* What the processor finds of an address.
Located(c, mo, sb, num, s, d) ==
  /\ InStep(c) <=> Kinds(d) = DispBytes(c)
  /\ HasModRM(c) /\ ModRMOf(c) = mo
  /\ HasSib(c) <=> s = <<sb>>
  /\ s = <<sb>> => SibOf(c) = sb
  /\ d = <<num>> => NumberAt(OpAt(c) + (IF HasSib(c) THEN 3 ELSE 2), c) = num.n

\* An address: ModRM, SIB or none, a displacement or none, and what comes after.
LEMMA Addressed ==
  ASSUME NEW c, NEW o, NEW rest, Parts(c, o, rest), ShapeOf(c).dest \in {"reg", "rm"},
         NEW mo \in ModRMPiece, mo.mode # 3, NEW sb \in SibPiece, NEW num \in BytePiece \cup LongPiece,
         NEW s \in {<<>>, <<sb>>}, NEW d \in {<<>>, <<num>>}, s = <<sb>> <=> mo.rm = 4,
         NEW t \in Seq(Pieces), Kinds(t) = ShapeOf(c).imm,
         rest = ((<<mo>> \o s) \o d) \o t
  PROVE  Located(c, mo, sb, num, s, d)
<1>1. /\ mo \in Pieces /\ mo.k = "modrm" /\ sb \in Pieces /\ sb.k = "sib"
      /\ num \in Pieces
  BY DEF Pieces, ModRMPiece, SibPiece
<1>2. /\ s \in Seq(Pieces) /\ d \in Seq(Pieces) /\ <<mo>> \in Seq(Pieces)
      /\ Kinds(s) = IF s = <<sb>> THEN <<"sib">> ELSE <<>>
      /\ Kinds(<<mo>>) = <<"modrm">>
  BY <1>1, KindsOfOne, KindsOfNone
<1> DEFINE front == (<<mo>> \o s) \o d
<1>3. /\ front \in Seq(Pieces)
      /\ front[1] = mo /\ Len(front) >= 1
      /\ s = <<sb>> => Len(front) >= 2 /\ front[2] = sb
      /\ d = <<num>> =>
           IF s = <<sb>> THEN Len(front) = 3 /\ front[3] = num ELSE Len(front) = 2 /\ front[2] = num
  <2>1. CASE s = <<>> /\ d = <<>>
    <3>1. front = <<mo>> /\ s # <<sb>> /\ d # <<num>>
      BY <1>1, <2>1, ShortConcat
    <3> HIDE DEF front
    <3> QED BY <1>1, <2>1, <3>1, Short1
  <2>2. CASE s = <<sb>> /\ d = <<>>
    <3>1. front = <<mo, sb>> /\ d # <<num>>
      BY <1>1, <2>2, ShortConcat
    <3> QED BY <1>1, <2>2, <3>1, Short2
  <2>3. CASE s = <<>> /\ d = <<num>>
    <3>1. front = <<mo, num>> /\ s # <<sb>>
      BY <1>1, <2>3, ShortConcat
    <3> QED BY <1>1, <2>3, <3>1, Short2
  <2>4. CASE s = <<sb>> /\ d = <<num>>
    <3>1. front = <<mo, sb, num>>
      BY <1>1, <2>4, ShortConcat
    <3> HIDE DEF front
    <3> QED BY <1>1, <2>4, <3>1, Short3
  <2> QED BY <2>1, <2>2, <2>3, <2>4
<1> HIDE DEF front
<1>4. /\ Len(rest) = Len(front) + Len(t) /\ Len(t) \in Nat /\ Len(front) \in Nat
      /\ \A i \in 1..Len(front) : rest[i] = front[i]
  BY <1>3 DEF front
<1>5. rest[1] = mo /\ Len(rest) >= 1
  BY <1>3, <1>4
<1>6. ModRMOf(c) = mo
  BY <1>5 DEF ModRMOf, Parts
<1>7. HasModRM(c) /\ (HasSib(c) <=> s = <<sb>>)
  BY <1>6 DEF HasSib, HasModRM
<1>8. s = <<sb>> => SibOf(c) = sb
  <2>1. s = <<sb>> => 2 \in 1..Len(rest) /\ rest[2] = sb
    BY <1>3, <1>4
  <2> QED BY <2>1 DEF SibOf, Parts
<1>9. d = <<num>> => NumberAt(OpAt(c) + (IF HasSib(c) THEN 3 ELSE 2), c) = num.n
  <2>1. c \in Seq(Pieces) /\ DOMAIN c = 1..Len(c) /\ OpAt(c) \in 1..3 /\ Len(c) = OpAt(c) + Len(rest)
        /\ \A i \in 1..Len(rest) : c[OpAt(c) + i] = rest[i]
    BY DEF Parts
  <2>2. CASE d = <<num>> /\ s = <<sb>>
    <3>1. rest[3] = num /\ 3 \in 1..Len(rest)
      BY <1>3, <1>4, <2>2
    <3> QED BY <1>7, <2>1, <2>2, <3>1 DEF NumberAt
  <2>3. CASE d = <<num>> /\ s # <<sb>>
    <3>1. rest[2] = num /\ 2 \in 1..Len(rest)
      BY <1>3, <1>4, <2>3
    <3> QED BY <1>7, <2>1, <2>3, <3>1 DEF NumberAt
  <2> QED BY <2>2, <2>3
<1>10. DispBytes(c) \in Seq(PieceKinds) /\ Kinds(t) \in Seq(PieceKinds) /\ Kinds(d) \in Seq(PieceKinds)
  <2>1. <<>> \in Seq(PieceKinds) /\ <<"n1">> \in Seq(PieceKinds) /\ <<"n4">> \in Seq(PieceKinds)
    BY DEF PieceKinds
  <2> QED BY <1>2, <2>1, KindsOf DEF DispBytes
<1>11. InStep(c) <=> Kinds(d) = DispBytes(c)
  <2> DEFINE z == Kinds(rest)
  <2>1. SubSeq(Kinds(c), OpAt(c) + 1, Len(c)) = z
    BY PartKinds
  <2>2. <<mo>> \o s \in Seq(Pieces)
    BY <1>2
  <2>3. /\ z = (Kinds(<<mo>> \o s) \o Kinds(d)) \o Kinds(t)
        /\ Kinds(<<mo>> \o s) = <<"modrm">> \o Kinds(s)
    <3>1. z = Kinds(front) \o Kinds(t)
      BY <1>3, KindsConcat DEF front
    <3>2. Kinds(front) = Kinds(<<mo>> \o s) \o Kinds(d)
      BY <1>2, <2>2, KindsConcat DEF front
    <3>3. Kinds(<<mo>> \o s) = <<"modrm">> \o Kinds(s)
      BY <1>2, KindsConcat
    <3> QED BY <3>1, <3>2, <3>3
  <2>4. Kinds(<<mo>> \o s) = IF HasSib(c) THEN <<"modrm", "sib">> ELSE <<"modrm">>
    <3>1. "modrm" \in PieceKinds /\ "sib" \in PieceKinds
      BY DEF PieceKinds
    <3> QED BY <1>2, <1>7, <2>3, <3>1, ShortConcat
  <2> HIDE DEF z
  <2> QED BY <1>7, <1>10, <2>1, <2>3, <2>4, InStepIff
<1> QED BY <1>6, <1>7, <1>8, <1>9, <1>11 DEF Located

(***************************************************************************)
(* Registers and addresses.                                                *)
(***************************************************************************)

\* The high bit and the low bits of a register number are the number.
LEMMA Halves ==
  /\ \A r \in 0..15 : Msb(r) \in Bits /\ And7(r) \in Low /\ And7(r) + 8 * Msb(r) = r
  /\ \A r \in 0..15 : And7(r) = 4 <=> r \in {RSP, R12}
  /\ \A r \in 0..15 : And7(r) = 5 <=> r \in {RBP, R13}
  /\ Msb(RIP) = 0
BY DEF Msb, And7, RIP, Bits, Low, RSP, R12, RBP, R13

\* The two bits of a factor.
LEMMA Factors ==
  ASSUME NEW s \in {1, 2, 4, 8} PROVE Log2(s) \in 0..3 /\ 2 ^ Log2(s) = s
<1>1. 2^0 = 1 /\ 2^1 = 2 /\ 2^2 = 4 /\ 2^3 = 8
  OBVIOUS
<1>2. \E e \in 0..3 : 2 ^ e = s
  BY <1>1
<1> QED BY <1>2 DEF Log2

Num(i) == IF FitsI8(i) THEN [k |-> "n1", n |-> i] ELSE [k |-> "n4", n |-> i]

\* A number takes one byte or four.
LEMMA NumberOf ==
  ASSUME NEW i \in Int
  PROVE  /\ Number(i) = <<Num(i)>> /\ Num(i) \in BytePiece \cup LongPiece
         /\ Num(i).n = i /\ Num(i).k = IF FitsI8(i) THEN "n1" ELSE "n4"
         /\ Disp(i) = IF i = 0 THEN <<>> ELSE <<Num(i)>>
         /\ Mode(i) = IF i = 0 THEN 0 ELSE IF FitsI8(i) THEN 1 ELSE 2
         /\ FitsI8(0)
BY DEF Number, Num, FitsI8, Emit8, Emit32, BytePiece, LongPiece, Disp, Mode

\* Addresses, and the bits of REX an encoder gives them.
Scaled == {Index(r, i, s, d) : r \in 0..15, i \in 0..15, s \in {1, 2, 4, 8}, d \in Int}
Where == Bases \cup Offsets \cup Scaled
XBit(m) == IF m.index = None THEN 0 ELSE Msb(m.index)
BBit(m) == IF m.base = None THEN 0 ELSE Msb(m.base)

\* What addresses are, and the bits of REX they give.
LEMMA Addresses ==
  ASSUME NEW m \in Where
  PROVE  /\ m = [base |-> m.base, index |-> m.index, scale |-> m.scale, disp |-> m.disp]
         /\ m.disp \in Int /\ XBit(m) \in Bits /\ BBit(m) \in Bits
         /\ \/ m.index = None /\ m.scale = 1 /\ m.base \in (0..15) \cup {RIP}
            \/ m.index \in 0..15 /\ m.scale \in {1, 2, 4, 8} /\ m.base \in (0..15) \cup {None}
<1>1. CASE m \in Bases
  BY <1>1, OperandAssumption, Halves DEF Bases, Base, XBit, BBit, None, RIP, Bits
<1>2. CASE m \in Scaled
  <2>1. PICK r \in 0..15, i \in 0..15, s \in {1, 2, 4, 8}, d \in Int : m = Index(r, i, s, d)
    BY <1>2 DEF Scaled
  <2> QED BY <2>1, Halves DEF Index, XBit, BBit, None, RIP, Bits
<1>3. CASE m \in Offsets
  BY <1>3, OperandAssumption, Halves DEF Offsets, Offset, XBit, BBit, None, RIP, Bits
<1> QED BY <1>1, <1>2, <1>3 DEF Where

LEMMA MemoryIsWhere == Bases \cup Indexed \cup Offsets \subseteq Where
BY OperandAssumption DEF Where, Indexed, Scaled

\* The pieces of an address, and what is read out of them again.
NoBase(mo, sb) == mo.mode = 0 /\ 5 = (IF mo.rm = 4 THEN sb.base ELSE mo.rm)

ReadsBack(m, mo, sb, num, d) ==
  LET low == IF mo.rm = 4 THEN sb.base ELSE mo.rm
      index == sb.index + 8 * XBit(m)
      noIndex == mo.rm # 4 \/ index = 4
  IN /\ d = <<>> <=> mo.mode = 0 /\ ~NoBase(mo, sb)
     /\ m.disp = IF d = <<>> THEN 0 ELSE num.n
     /\ num.k = IF mo.mode = 1 THEN "n1" ELSE "n4"
     /\ m.base = IF ~NoBase(mo, sb) THEN low + 8 * BBit(m) ELSE IF mo.rm = 4 THEN None ELSE RIP
     /\ IF noIndex THEN m.index = RSP \/ (m.index = None /\ m.scale = 1)
                   ELSE m.index # RSP /\ m.index = index /\ m.scale = 2 ^ sb.scale

Laying(reg, m, mo, sb, num, s, d) ==
  /\ mo \in ModRMPiece /\ sb \in SibPiece /\ num \in BytePiece \cup LongPiece
  /\ s \in {<<>>, <<sb>>} /\ d \in {<<>>, <<num>>}
  /\ MemPieces(reg, m) = (<<mo>> \o s) \o d
  /\ mo.mode # 3 /\ mo.reg = And7(reg) /\ (s = <<sb>> <=> mo.rm = 4)
  /\ LosesBase(m) => d = <<>> /\ NoBase(mo, sb)
  /\ ~LosesBase(m) => ReadsBack(m, mo, sb, num, d)

\* emit_membase and its like (assembler_x64.rs 991-1067): the processor reads the address
\* back, unless it loses its base.
LEMMA MemPiecesLaid ==
  ASSUME NEW m \in Where, NEW reg \in 0..15
  PROVE  \E mo, sb, num, s, d : Laying(reg, m, mo, sb, num, s, d)
<1> USE DEF RSP, RBP, R12, R13, RIP, None, Low
<1> DEFINE mo(k, l) == [k |-> "modrm", mode |-> k, reg |-> And7(reg), rm |-> l]
           sb(e, i, b) == [k |-> "sib", scale |-> e, index |-> i, base |-> b]
           long == [k |-> "n4", n |-> m.disp]
           num == IF m.disp = 0 THEN [k |-> "n4", n |-> 0] ELSE Num(m.disp)
<1>0. /\ m.disp \in Int /\ And7(reg) \in Low
      /\ \A p : <<p>> \o <<>> = <<p>> /\ <<p>> # <<>> /\ <<>> # <<p>>
  BY Halves, Addresses
<1>1. /\ \A k \in 0..3, l \in Low : mo(k, l) \in ModRMPiece
      /\ \A e \in 0..3, i \in Low, b \in Low : sb(e, i, b) \in SibPiece
      /\ long \in LongPiece /\ [k |-> "n1", n |-> 0] \in BytePiece
  BY <1>0 DEF ModRMPiece, SibPiece, LongPiece, BytePiece
<1>2. /\ num \in BytePiece \cup LongPiece
      /\ Mode(m.disp) \in 0..2 /\ (Mode(m.disp) = 0 <=> m.disp = 0)
      /\ Disp(m.disp) = IF m.disp = 0 THEN <<>> ELSE <<num>>
      /\ num.n = m.disp /\ num.k = IF Mode(m.disp) = 1 THEN "n1" ELSE "n4"
  <2>1. CASE m.disp = 0
    BY <2>1, NumberOf DEF LongPiece
  <2>2. CASE m.disp # 0
    BY <1>0, <2>2, NumberOf
  <2> QED BY <2>1, <2>2
<1>4. CASE m.index = None /\ m.base = RIP
  <2> DEFINE M == mo(0, 5)
             B == sb(0, 0, 0)
  <2>0. m.scale = 1
    BY <1>4, Addresses
  <2>1. M \in ModRMPiece /\ B \in SibPiece
    <3>1. 0 \in 0..3 /\ 5 \in Low /\ 0 \in 0..3 /\ 0 \in Low /\ 0 \in Low
      BY <1>0, <1>2, <2>0
    <3> HIDE DEF mo, sb
    <3> QED BY <1>1, <3>1
  <2>2. /\ M.mode = 0 /\ M.rm = 5 /\ M.reg = And7(reg)
        /\ B.scale = 0 /\ B.index = 0 /\ B.base = 0 /\ <<>> # <<B>>
    OBVIOUS
  <2>3. MemPieces(reg, m) = (<<M>> \o <<>>) \o <<long>>
    BY <1>0, <1>4, <2>0 DEF MemPieces, Membase, ModRM, Emit32, RBP
  <2> HIDE DEF M, B
  <2>4. /\ LosesBase(m) => <<long>> = <<>> /\ NoBase(M, B)
        /\ ~LosesBase(m) => ReadsBack(m, M, B, long, <<long>>)
    BY <1>0, <1>2, <1>4, <2>0, <2>2 DEF NoBase, ReadsBack, LosesBase, Mode
  <2>5. <<long>> \in {<<>>, <<long>>} /\ long \in BytePiece \cup LongPiece
    BY <1>1, <1>2, <2>0
  <2>6. Laying(reg, m, M, B, long, <<>>, <<long>>)
    <3> HIDE DEF long, num
    <3>1. M.mode # 3
      BY <1>2, <2>2
    <3> QED BY <2>1, <2>2, <2>3, <2>4, <2>5, <3>1 DEF Laying
  <2> QED BY <2>6
<1>5. CASE m.index = None /\ m.base \in {RSP, R12}
  <2> DEFINE M == mo(Mode(m.disp), 4)
             B == sb(0, 4, 4)
  <2>0. m.scale = 1 /\ m.base # RIP /\ m.base = 4 + 8 * BBit(m) /\ XBit(m) = 0
    BY <1>5, Addresses DEF BBit, XBit, Msb
  <2>1. M \in ModRMPiece /\ B \in SibPiece
    <3>1. Mode(m.disp) \in 0..3 /\ 4 \in Low /\ 0 \in 0..3 /\ 4 \in Low /\ 4 \in Low
      BY <1>0, <1>2, <2>0
    <3> HIDE DEF mo, sb
    <3> QED BY <1>1, <3>1
  <2>2. /\ M.mode = Mode(m.disp) /\ M.rm = 4 /\ M.reg = And7(reg)
        /\ B.scale = 0 /\ B.index = 4 /\ B.base = 4 /\ <<>> # <<B>>
    OBVIOUS
  <2>3. MemPieces(reg, m) = (<<M>> \o <<B>>) \o Disp(m.disp)
    BY <1>0, <1>5, <2>0 DEF MemPieces, Membase, ModRM, Sib, RSP
  <2> HIDE DEF M, B
  <2>4. /\ LosesBase(m) => Disp(m.disp) = <<>> /\ NoBase(M, B)
        /\ ~LosesBase(m) => ReadsBack(m, M, B, num, Disp(m.disp))
    BY <1>0, <1>2, <1>5, <2>0, <2>2 DEF NoBase, ReadsBack, LosesBase, Mode
  <2>5. Disp(m.disp) \in {<<>>, <<num>>} /\ num \in BytePiece \cup LongPiece
    BY <1>1, <1>2, <2>0
  <2>6. Laying(reg, m, M, B, num, <<B>>, Disp(m.disp))
    <3> HIDE DEF long, num
    <3>1. M.mode # 3
      BY <1>2, <2>2
    <3> QED BY <2>1, <2>2, <2>3, <2>4, <2>5, <3>1 DEF Laying
  <2> QED BY <2>6
<1>6. CASE m.index = None /\ m.base \in {RBP, R13} /\ m.disp = 0
  <2> DEFINE M == mo(1, 5)
             B == sb(0, 0, 0)
  <2>0. m.scale = 1 /\ m.base # RIP /\ m.base = 5 + 8 * BBit(m) /\ And7(m.base) = 5 /\ m.base \notin {RSP, R12}
    BY <1>6, Addresses DEF BBit, Msb, And7
  <2>1. M \in ModRMPiece /\ B \in SibPiece
    <3>1. 1 \in 0..3 /\ 5 \in Low /\ 0 \in 0..3 /\ 0 \in Low /\ 0 \in Low
      BY <1>0, <1>2, <2>0
    <3> HIDE DEF mo, sb
    <3> QED BY <1>1, <3>1
  <2>2. /\ M.mode = 1 /\ M.rm = 5 /\ M.reg = And7(reg)
        /\ B.scale = 0 /\ B.index = 0 /\ B.base = 0 /\ <<>> # <<B>>
    OBVIOUS
  <2>3. MemPieces(reg, m) = (<<M>> \o <<>>) \o <<[k |-> "n1", n |-> 0]>>
    BY <1>0, <1>6, <2>0 DEF MemPieces, Membase, ModRM, Emit8
  <2> HIDE DEF M, B
  <2>4. /\ LosesBase(m) => <<[k |-> "n1", n |-> 0]>> = <<>> /\ NoBase(M, B)
        /\ ~LosesBase(m) => ReadsBack(m, M, B, [k |-> "n1", n |-> 0], <<[k |-> "n1", n |-> 0]>>)
    BY <1>0, <1>2, <1>6, <2>0, <2>2 DEF NoBase, ReadsBack, LosesBase, Mode
  <2>5. <<[k |-> "n1", n |-> 0]>> \in {<<>>, <<[k |-> "n1", n |-> 0]>>} /\ [k |-> "n1", n |-> 0] \in BytePiece \cup LongPiece
    BY <1>1, <1>2, <2>0
  <2>6. Laying(reg, m, M, B, [k |-> "n1", n |-> 0], <<>>, <<[k |-> "n1", n |-> 0]>>)
    <3> HIDE DEF long, num
    <3>1. M.mode # 3
      BY <1>2, <2>2
    <3> QED BY <2>1, <2>2, <2>3, <2>4, <2>5, <3>1 DEF Laying
  <2> QED BY <2>6
<1>7. CASE m.index = None /\ m.base \notin {RSP, R12, RIP} /\ ~(m.base \in {RBP, R13} /\ m.disp = 0)
  <2> DEFINE M == mo(Mode(m.disp), And7(m.base))
             B == sb(0, 0, 0)
  <2>0. m.scale = 1 /\ m.base \in 0..15 /\ And7(m.base) \in Low /\ m.base = And7(m.base) + 8 * BBit(m)
        /\ And7(m.base) # 4 /\ (m.disp = 0 => And7(m.base) # 5)
    BY <1>7, Addresses, Halves DEF BBit
  <2>1. M \in ModRMPiece /\ B \in SibPiece
    <3>1. Mode(m.disp) \in 0..3 /\ And7(m.base) \in Low /\ 0 \in 0..3 /\ 0 \in Low /\ 0 \in Low
      BY <1>0, <1>2, <2>0
    <3> HIDE DEF mo, sb
    <3> QED BY <1>1, <3>1
  <2>2. /\ M.mode = Mode(m.disp) /\ M.rm = And7(m.base) /\ M.reg = And7(reg)
        /\ B.scale = 0 /\ B.index = 0 /\ B.base = 0 /\ <<>> # <<B>>
    OBVIOUS
  <2>3. MemPieces(reg, m) = (<<M>> \o <<>>) \o Disp(m.disp)
    <3>1. MemPieces(reg, m) = Membase(m.base, m.disp, reg)
      BY <1>7, <2>0 DEF MemPieces
    <3>2. Membase(m.base, m.disp, reg) = ModRM(Mode(m.disp), And7(reg), And7(m.base)) \o Disp(m.disp)
      BY <1>7, <2>0 DEF Membase
    <3>3. ModRM(Mode(m.disp), And7(reg), And7(m.base)) = <<M>>
      BY DEF ModRM
    <3> HIDE DEF M
    <3> QED BY <1>0, <3>1, <3>2, <3>3
  <2> HIDE DEF M, B
  <2>4. /\ LosesBase(m) => Disp(m.disp) = <<>> /\ NoBase(M, B)
        /\ ~LosesBase(m) => ReadsBack(m, M, B, num, Disp(m.disp))
    BY <1>0, <1>2, <1>7, <2>0, <2>2 DEF NoBase, ReadsBack, LosesBase, Mode
  <2>5. Disp(m.disp) \in {<<>>, <<num>>} /\ num \in BytePiece \cup LongPiece
    BY <1>1, <1>2, <2>0
  <2>6. Laying(reg, m, M, B, num, <<>>, Disp(m.disp))
    <3> HIDE DEF long, num
    <3>1. M.mode # 3 /\ M.rm # 4
      BY <1>2, <2>0, <2>2
    <3> QED BY <2>1, <2>2, <2>3, <2>4, <2>5, <3>1 DEF Laying
  <2> QED BY <2>6
<1>8. CASE m.index # None /\ m.base = None
  <2> DEFINE M == mo(0, 4)
             B == sb(Log2(m.scale), And7(m.index), 5)
  <2>0. /\ Log2(m.scale) \in 0..3 /\ 2 ^ Log2(m.scale) = m.scale
        /\ And7(m.index) \in Low /\ m.index = And7(m.index) + 8 * XBit(m)
    BY <1>8, Addresses, Halves, Factors DEF XBit
  <2>1. M \in ModRMPiece /\ B \in SibPiece
    <3>1. 0 \in 0..3 /\ 4 \in Low /\ Log2(m.scale) \in 0..3 /\ And7(m.index) \in Low /\ 5 \in Low
      BY <1>0, <1>2, <2>0
    <3> HIDE DEF mo, sb
    <3> QED BY <1>1, <3>1
  <2>2. /\ M.mode = 0 /\ M.rm = 4 /\ M.reg = And7(reg)
        /\ B.scale = Log2(m.scale) /\ B.index = And7(m.index) /\ B.base = 5 /\ <<>> # <<B>>
    OBVIOUS
  <2>3. MemPieces(reg, m) = (<<M>> \o <<B>>) \o <<long>>
    BY <1>0, <1>8, <2>0 DEF MemPieces, MembaseWithoutBase, ModRM, Sib, Emit32
  <2> HIDE DEF M, B
  <2>4. /\ LosesBase(m) => <<long>> = <<>> /\ NoBase(M, B)
        /\ ~LosesBase(m) => ReadsBack(m, M, B, long, <<long>>)
    BY <1>0, <1>2, <1>8, <2>0, <2>2 DEF NoBase, ReadsBack, LosesBase, Mode
  <2>5. <<long>> \in {<<>>, <<long>>} /\ long \in BytePiece \cup LongPiece
    BY <1>1, <1>2, <2>0
  <2>6. Laying(reg, m, M, B, long, <<B>>, <<long>>)
    <3> HIDE DEF long, num
    <3>1. M.mode # 3
      BY <1>2, <2>2
    <3> QED BY <2>1, <2>2, <2>3, <2>4, <2>5, <3>1 DEF Laying
  <2> QED BY <2>6
<1>9. CASE m.index # None /\ m.base # None
  <2> DEFINE M == mo(Mode(m.disp), 4)
             B == sb(Log2(m.scale), And7(m.index), And7(m.base))
  <2>0. /\ Log2(m.scale) \in 0..3 /\ 2 ^ Log2(m.scale) = m.scale /\ m.base \in 0..15
        /\ And7(m.index) \in Low /\ m.index = And7(m.index) + 8 * XBit(m)
        /\ And7(m.base) \in Low /\ m.base = And7(m.base) + 8 * BBit(m)
        /\ (And7(m.base) = 5 <=> m.base \in {RBP, R13})
    BY <1>9, Addresses, Halves, Factors DEF XBit, BBit
  <2>1. M \in ModRMPiece /\ B \in SibPiece
    <3>1. Mode(m.disp) \in 0..3 /\ 4 \in Low /\ Log2(m.scale) \in 0..3 /\ And7(m.index) \in Low /\ And7(m.base) \in Low
      BY <1>0, <1>2, <2>0
    <3> HIDE DEF mo, sb
    <3> QED BY <1>1, <3>1
  <2>2. /\ M.mode = Mode(m.disp) /\ M.rm = 4 /\ M.reg = And7(reg)
        /\ B.scale = Log2(m.scale) /\ B.index = And7(m.index) /\ B.base = And7(m.base) /\ <<>> # <<B>>
    OBVIOUS
  <2>3. MemPieces(reg, m) = (<<M>> \o <<B>>) \o Disp(m.disp)
    BY <1>0, <1>9, <2>0 DEF MemPieces, MembaseWithIndexAndScale, ModRM, Sib
  <2> HIDE DEF M, B
  <2>4. /\ LosesBase(m) => Disp(m.disp) = <<>> /\ NoBase(M, B)
        /\ ~LosesBase(m) => ReadsBack(m, M, B, num, Disp(m.disp))
    BY <1>0, <1>2, <1>9, <2>0, <2>2 DEF NoBase, ReadsBack, LosesBase, Mode
  <2>5. Disp(m.disp) \in {<<>>, <<num>>} /\ num \in BytePiece \cup LongPiece
    BY <1>1, <1>2, <2>0
  <2>6. Laying(reg, m, M, B, num, <<B>>, Disp(m.disp))
    <3> HIDE DEF long, num
    <3>1. M.mode # 3
      BY <1>2, <2>2
    <3> QED BY <2>1, <2>2, <2>3, <2>4, <2>5, <3>1 DEF Laying
  <2> QED BY <2>6
<1> QED BY <1>4, <1>5, <1>6, <1>7, <1>8, <1>9

(***************************************************************************)
(* What becomes of a code, by the operands it has.                         *)
(***************************************************************************)

\* The number an opcode takes, if it takes one.
Value(name, n) ==
  CASE Opcodes[name].imm = <<>> -> IF name = "shift_one" THEN 1 ELSE 0
    [] Opcodes[name].imm = <<"n1">> /\ Opcodes[name].does = "aluimm" -> Signed8(n)
    [] OTHER -> n

AnyRexOf(c) == \E i \in DOMAIN c : c[i].k = "rex"

\* What is read off the end of a code, and out of its beginning.
LEMMA Ends ==
  ASSUME NEW c, NEW o, NEW name, o.op = name, NEW front \in Seq(Pieces),
         NEW num \in BytePiece \cup LongPiece, NEW t \in {<<>>, <<num>>},
         NEW rest, rest = front \o t, Parts(c, o, rest), Kinds(t) = Opcodes[name].imm
  PROVE  ShapeOf(c) = Opcodes[name] /\ ImmOperand(c) = Value(name, num.n)
<1>1. ShapeOf(c) = Opcodes[name] /\ c[OpAt(c)].op = name
  BY DEF Parts, ShapeOf
<1>2. Opcodes[name].imm = <<>> \/ c[Len(c)] = num
  <2>1. CASE t = <<>>
    BY <2>1, KindsOfNone
  <2>2. CASE t = <<num>>
    <3>1. num \in Pieces
      BY DEF Pieces
    <3>2. rest \in Seq(Pieces) /\ Len(rest) = Len(front) + 1 /\ Len(front) \in Nat /\ rest[Len(rest)] = num
      BY <2>2, <3>1
    <3>3. Len(rest) \in 1..Len(rest)
      BY <3>2
    <3>4. c[OpAt(c) + Len(rest)] = rest[Len(rest)] /\ Len(c) = OpAt(c) + Len(rest)
      BY <3>3 DEF Parts
    <3> QED BY <3>2, <3>4
  <2> QED BY <2>1, <2>2
<1>3. Signed8(c[Len(c)].n) = Signed8(num.n) \/ Opcodes[name].imm = <<>>
  BY <1>2
<1>4. CASE Opcodes[name].imm = <<>>
  BY <1>1, <1>4 DEF ImmOperand, Value
<1>5. CASE Opcodes[name].imm # <<>>
  BY <1>1, <1>2, <1>5 DEF ImmOperand, Value
<1> QED BY <1>1, <1>4, <1>5

\* A code has a REX prefix anywhere only if it has one before its opcode.
LEMMA Rexes ==
  ASSUME NEW c, NEW o, NEW rest, Parts(c, o, rest), o.k = "op",
         \A i \in DOMAIN c : i < OpAt(c) => c[i].k = "prefix" \/ (c[i].k = "rex" /\ HasRex(c)),
         \A i \in 1..Len(rest) : rest[i].k # "rex"
  PROVE  AnyRexOf(c) <=> HasRex(c)
<1>1. c \in Seq(Pieces) /\ rest \in Seq(Pieces) /\ OpAt(c) \in 1..3 /\ c[OpAt(c)] = o
      /\ Len(c) = OpAt(c) + Len(rest) /\ \A i \in 1..Len(rest) : c[OpAt(c) + i] = rest[i]
  BY DEF Parts
<1>2. DOMAIN c = 1..(OpAt(c) + Len(rest)) /\ Len(rest) \in Nat
  BY <1>1
<1>3. ASSUME HasRex(c) PROVE AnyRexOf(c)
  <2>1. RexAt(c) \in {1, 2} /\ OpAt(c) = RexAt(c) + 1 /\ c[RexAt(c)].k = "rex"
    BY <1>3 DEF RexAt, OpAt, HasRex
  <2> QED BY <1>1, <1>2, <2>1 DEF AnyRexOf
<1>4. ASSUME NEW i \in DOMAIN c, c[i].k = "rex" PROVE HasRex(c)
  <2>1. CASE i < OpAt(c)
    BY <1>4, <2>1
  <2>2. CASE i = OpAt(c)
    BY <1>1, <1>4, <2>2
  <2>3. CASE i > OpAt(c)
    <3>1. i - OpAt(c) \in 1..Len(rest) /\ OpAt(c) + (i - OpAt(c)) = i
      BY <1>1, <1>2, <2>3
    <3> QED BY <1>1, <1>4, <3>1
  <2> QED BY <1>1, <1>2, <2>1, <2>2, <2>3
<1> QED BY <1>3, <1>4 DEF AnyRexOf

\* Pieces that come after an opcode.
AfterOp == ModRMPiece \cup SibPiece \cup BytePiece \cup LongPiece

\* Those are pieces, and no REX prefix is among them.
LEMMA AfterOpcode ==
  /\ AfterOp \subseteq Pieces
  /\ \A p \in AfterOp : p.k # "rex"
  /\ \A q \in Seq(AfterOp) : q \in Seq(Pieces) /\ \A i \in 1..Len(q) : q[i].k # "rex"
<1>1. AfterOp \subseteq Pieces
  BY DEF AfterOp, Pieces
<1>2. \A p \in AfterOp : p.k # "rex"
  BY DEF AfterOp, ModRMPiece, SibPiece, BytePiece, LongPiece
<1> QED BY <1>1, <1>2

\* A code that is taken for the instruction with operands R and M, the first of them
\* the one in the reg field.
Works(c, y, z, name, R, M, n) ==
  /\ c \in Seq(Pieces) /\ c # <<>>
  /\ HasRex(c) <=> y = <<z>>
  /\ AnyRexOf(c) <=> HasRex(c)
  /\ Executed(c) = Instr(Opcodes[name].does, z.w, IF Opcodes[name].dest = "reg" THEN R ELSE M,
                         IF Opcodes[name].dest = "reg" THEN M ELSE R, Value(name, n))

\* The outcome of a code whose operands are in registers.
LEMMA ThroughRegisters ==
  ASSUME NEW h \in {<<>>, Prefix}, NEW z, NEW y, MaybeRex(y, z), z.x = 0, NEW lr \in Low, NEW lm \in Low,
         NEW name \in Names, Opcodes[name].dest \in {"reg", "rm"},
         NEW num \in BytePiece \cup LongPiece, NEW t \in {<<>>, <<num>>}, Kinds(t) = Opcodes[name].imm,
         NEW c, c = Laid(h, y, [k |-> "op", op |-> name], ModRM(3, lr, lm) \o t)
  PROVE  Works(c, y, z, name, Register(Opcodes[name].reg, lr + 8 * z.r, c),
               Register(Opcodes[name].rm, lm + 8 * z.b, c), num.n)
<1> DEFINE mo == [k |-> "modrm", mode |-> 3, reg |-> lr, rm |-> lm]
           o == [k |-> "op", op |-> name]
           rest == <<mo>> \o t
<1>1. /\ mo \in ModRMPiece /\ mo.mode = 3 /\ mo.reg = lr /\ mo.rm = lm
      /\ o \in OpPiece /\ o.k = "op" /\ o.op = name
      /\ num \in AfterOp /\ mo \in AfterOp
  BY DEF ModRMPiece, OpPiece, AfterOp
<1>2. c = Laid(h, y, o, rest)
  BY DEF ModRM
<1> HIDE DEF mo, o
<1>3. <<mo>> \in Seq(AfterOp) /\ t \in Seq(AfterOp) /\ rest \in Seq(AfterOp)
  <2>1. <<mo>> \in Seq(AfterOp) /\ <<>> \in Seq(AfterOp) /\ <<num>> \in Seq(AfterOp)
    BY <1>1
  <2> QED BY <2>1, ConcatProperties
<1>4. rest \in Seq(Pieces) /\ t \in Seq(Pieces) /\ <<mo>> \in Seq(Pieces) /\ \A i \in 1..Len(rest) : rest[i].k # "rex"
  BY <1>3, AfterOpcode
<1> HIDE DEF rest
<1>5. /\ Parts(c, o, rest) /\ c \in Seq(Pieces)
      /\ RexOf(c).w = z.w /\ RexOf(c).r = z.r /\ RexOf(c).x = 0 /\ RexOf(c).b = z.b
      /\ \A i \in DOMAIN c : i < OpAt(c) => c[i].k = "prefix" \/ (c[i].k = "rex" /\ HasRex(c))
      /\ HasRex(c) <=> y = <<z>>
  <2>1. rest \in Seq(Pieces) /\ o \in OpPiece
    BY <1>1, <1>4
  <2>2. Opens(c, y, z, o, rest)
    BY <1>2, <2>1, Layout
  <2> QED BY <2>2 DEF Opens, Parts
<1>6. ShapeOf(c) = Opcodes[name] /\ ImmOperand(c) = Value(name, num.n)
  <2> DEFINE front == <<mo>>
  <2>1. rest = front \o t /\ front \in Seq(Pieces) /\ o.op = name /\ Parts(c, o, rest)
    BY <1>1, <1>4, <1>5 DEF rest
  <2> HIDE DEF front
  <2> QED BY <2>1, Ends, ZenonT(30)
<1>7. InStep(c) /\ ModRMOf(c) = mo
  <2>1. ShapeOf(c).dest \in {"reg", "rm"} /\ Kinds(t) = ShapeOf(c).imm
    BY <1>6
  <2>2. rest = <<mo>> \o t
    BY DEF rest
  <2>3. t \in Seq(Pieces) /\ mo \in ModRMPiece /\ mo.mode = 3 /\ Parts(c, o, rest)
    BY <1>1, <1>4, <1>5
  <2> QED BY <2>1, <2>2, <2>3, Direct
<1>8. c # <<>>
  <2>1. Len(c) # 0
    BY <1>4, <1>5 DEF Parts
  <2> QED BY <2>1
<1>9. AnyRexOf(c) <=> HasRex(c)
  BY <1>1, <1>4, <1>5, Rexes
<1>10. Executed(c) = Instr(ShapeOf(c).does, RexOf(c).w, DestOperand(c), SrcOperand(c), ImmOperand(c))
  BY <1>7 DEF Executed
<1>11. RegOperand(c) = Register(Opcodes[name].reg, lr + 8 * z.r, c) /\ RmOperand(c) = Register(Opcodes[name].rm, lm + 8 * z.b, c)
  BY <1>1, <1>5, <1>6, <1>7 DEF RegOperand, RmOperand
<1>12. /\ DestOperand(c) = IF Opcodes[name].dest = "reg" THEN RegOperand(c) ELSE RmOperand(c)
       /\ SrcOperand(c) = IF Opcodes[name].dest = "reg" THEN RmOperand(c) ELSE RegOperand(c)
  BY <1>6 DEF DestOperand, SrcOperand
<1> QED BY <1>5, <1>6, <1>8, <1>9, <1>10, <1>11, <1>12 DEF Works

\* The outcome of a code with an address.
Addressing(c, y, z, name, reg, m, n) ==
  /\ LosesBase(m) => c \in Seq(Pieces) /\ c # <<>> /\ Executed(c) = Garbled
  /\ ~LosesBase(m) =>
       /\ Works(c, y, z, name, Register(Opcodes[name].reg, reg, c), Address(c), n)
       /\ "base" \in DOMAIN Address(c)
       /\ Address(c) = m <=> m.index # RSP

\* An encoder with an address, REX prefix and all.
LEMMA ThroughMemory ==
  ASSUME NEW h \in {<<>>, Prefix}, NEW z, NEW y, MaybeRex(y, z), NEW m \in Where, NEW reg \in 0..15,
         z.r = Msb(reg), z.x = XBit(m), z.b = BBit(m),
         NEW name \in Names, Opcodes[name].dest \in {"reg", "rm"},
         NEW imm \in BytePiece \cup LongPiece, NEW t \in {<<>>, <<imm>>}, Kinds(t) = Opcodes[name].imm,
         NEW rest, rest = MemPieces(reg, m) \o t,
         NEW c, c = Laid(h, y, [k |-> "op", op |-> name], rest)
  PROVE  Addressing(c, y, z, name, reg, m, imm.n)
<1> DEFINE o == [k |-> "op", op |-> name]
<1>1. PICK mo, sb, num, s, d : Laying(reg, m, mo, sb, num, s, d)
  BY MemPiecesLaid
<1>2. /\ mo \in ModRMPiece /\ sb \in SibPiece /\ num \in BytePiece \cup LongPiece
      /\ s \in {<<>>, <<sb>>} /\ d \in {<<>>, <<num>>}
      /\ MemPieces(reg, m) = (<<mo>> \o s) \o d
      /\ mo.mode # 3 /\ mo.reg = And7(reg) /\ (s = <<sb>> <=> mo.rm = 4)
      /\ LosesBase(m) => d = <<>> /\ NoBase(mo, sb)
      /\ ~LosesBase(m) => ReadsBack(m, mo, sb, num, d)
  BY <1>1 DEF Laying
<1>3. /\ o \in OpPiece /\ o.k = "op" /\ o.op = name
      /\ mo \in AfterOp /\ sb \in AfterOp /\ num \in AfterOp /\ imm \in AfterOp
  BY <1>2 DEF OpPiece, AfterOp
<1> HIDE DEF o
<1> DEFINE front == (<<mo>> \o s) \o d
<1>4. front \in Seq(AfterOp) /\ t \in Seq(AfterOp)
  <2>1. <<mo>> \in Seq(AfterOp) /\ s \in Seq(AfterOp) /\ d \in Seq(AfterOp) /\ t \in Seq(AfterOp)
    <3>1. /\ <<>> \in Seq(AfterOp) /\ <<mo>> \in Seq(AfterOp) /\ <<sb>> \in Seq(AfterOp)
          /\ <<num>> \in Seq(AfterOp) /\ <<imm>> \in Seq(AfterOp)
      BY <1>3, Short1
    <3> QED BY <1>2, <3>1
  <2>2. <<mo>> \o s \in Seq(AfterOp)
    BY <2>1, ConcatProperties
  <2> QED BY <2>1, <2>2, ConcatProperties
<1>5. rest \in Seq(AfterOp) /\ rest = front \o t
  <2> HIDE DEF front
  <2>1. front \o t \in Seq(AfterOp)
    BY <1>4, ConcatProperties
  <2> QED BY <1>2, <2>1 DEF front
<1>6. front \in Seq(Pieces) /\ t \in Seq(Pieces) /\ rest \in Seq(Pieces) /\ \A i \in 1..Len(rest) : rest[i].k # "rex"
  <2> HIDE DEF front
  <2> QED BY <1>4, <1>5, AfterOpcode
<1>7. Opens(c, y, z, o, rest)
  <2>1. c = Laid(h, y, o, rest)
    BY DEF o
  <2> QED BY <1>3, <1>6, <2>1, Layout
<1>8. Parts(c, o, rest)
  BY <1>7 DEF Opens
<1>9. ShapeOf(c) = Opcodes[name] /\ ImmOperand(c) = Value(name, imm.n)
  <2> HIDE DEF front
  <2>1. front \in Seq(Pieces) /\ rest = front \o t /\ o.op = name
    BY <1>3, <1>5, <1>6
  <2> QED BY <1>8, <2>1, Ends, ZenonT(30)
<1>10. /\ InStep(c) <=> Kinds(d) = DispBytes(c)
       /\ HasModRM(c) /\ ModRMOf(c) = mo
       /\ HasSib(c) <=> s = <<sb>>
       /\ s = <<sb>> => SibOf(c) = sb
       /\ d = <<num>> => NumberAt(OpAt(c) + (IF HasSib(c) THEN 3 ELSE 2), c) = num.n
  <2>1. rest = ((<<mo>> \o s) \o d) \o t /\ ShapeOf(c).dest \in {"reg", "rm"} /\ Kinds(t) = ShapeOf(c).imm
    BY <1>5, <1>9
  <2> HIDE DEF front
  <2>2. t \in Seq(Pieces) /\ mo.mode # 3 /\ (s = <<sb>> <=> mo.rm = 4)
    BY <1>2, <1>6
  <2>3. mo \in ModRMPiece /\ sb \in SibPiece /\ num \in BytePiece \cup LongPiece
        /\ s \in {<<>>, <<sb>>} /\ d \in {<<>>, <<num>>}
    BY <1>2
  <2>4. Located(c, mo, sb, num, s, d)
    BY <1>8, <2>1, <2>2, <2>3, Addressed, ZenonT(30)
  <2> QED BY <2>4 DEF Located
<1>11. c \in Seq(Pieces) /\ c # <<>>
  <2>1. c \in Seq(Pieces) /\ Len(c) # 0
    BY <1>6, <1>8 DEF Parts
  <2> QED BY <2>1
<1>12. AnyRexOf(c) <=> HasRex(c)
  <2>1. /\ o.k = "op" /\ \A i \in 1..Len(rest) : rest[i].k # "rex"
        /\ \A i \in DOMAIN c : i < OpAt(c) => c[i].k = "prefix" \/ (c[i].k = "rex" /\ HasRex(c))
    BY <1>3, <1>6, <1>7 DEF Opens
  <2> HIDE DEF front
  <2> QED BY <1>8, <2>1, Rexes
<1>13. Baseless(c) <=> NoBase(mo, sb)
  BY <1>2, <1>10 DEF Baseless, NoBase
<1>14. Kinds(d) = IF d = <<>> THEN <<>> ELSE <<num.k>>
  <2>1. num \in Pieces /\ <<>> # <<num>>
    BY <1>2 DEF Pieces
  <2> QED BY <1>2, <2>1, KindsOfOne, KindsOfNone
<1>15. CASE LosesBase(m)
  <2>1. DispBytes(c) # <<>>
    BY <1>2, <1>10, <1>13, <1>15 DEF DispBytes
  <2>2. Executed(c) = Garbled
    BY <1>2, <1>10, <1>14, <1>15, <2>1 DEF Executed
  <2> QED BY <1>11, <1>15, <2>2 DEF Addressing
<1>16. CASE ~LosesBase(m)
  <2>1. ReadsBack(m, mo, sb, num, d)
    BY <1>2, <1>16
  <2>2. DispBytes(c) = Kinds(d)
    BY <1>2, <1>10, <1>13, <1>14, <2>1 DEF DispBytes, ReadsBack, ModRMPiece
  <2>3. Executed(c) = Instr(ShapeOf(c).does, RexOf(c).w, DestOperand(c), SrcOperand(c), ImmOperand(c))
    BY <1>10, <2>2 DEF Executed
  <2>4. RegOperand(c) = Register(Opcodes[name].reg, reg, c) /\ RmOperand(c) = Address(c)
    <3>1. ModRMOf(c).reg + 8 * RexOf(c).r = reg
      BY <1>2, <1>7, <1>10, Halves, SMTT(30) DEF Opens
    <3> QED BY <1>2, <1>9, <1>10, <3>1 DEF RegOperand, RmOperand
  <2>5. /\ DestOperand(c) = IF Opcodes[name].dest = "reg" THEN RegOperand(c) ELSE RmOperand(c)
        /\ SrcOperand(c) = IF Opcodes[name].dest = "reg" THEN RmOperand(c) ELSE RegOperand(c)
    BY <1>9 DEF DestOperand, SrcOperand
  <2>6. Works(c, y, z, name, Register(Opcodes[name].reg, reg, c), Address(c), imm.n)
    BY <1>7, <1>9, <1>11, <1>12, <2>3, <2>4, <2>5 DEF Works, Opens
  <2>7. /\ "base" \in DOMAIN Address(c)
        /\ Address(c) = m <=> m.index # RSP
    <3>1. RexOf(c).x = XBit(m) /\ RexOf(c).b = BBit(m)
      BY <1>7 DEF Opens
    <3>2. DispBytes(c) = <<>> <=> d = <<>>
      <4>1. <<num.k>> # <<>>
        OBVIOUS
      <4> QED BY <1>14, <2>2, <4>1
    <3>3. m = [base |-> m.base, index |-> m.index, scale |-> m.scale, disp |-> m.disp]
      BY Addresses
    <3>4. Address(c).base = m.base
      BY <1>2, <1>10, <1>13, <2>1, <3>1 DEF Address, ReadsBack
    <3>5. Address(c).disp = m.disp
      BY <1>2, <1>10, <2>1, <3>2 DEF Address, ReadsBack
    <3>6. m.index # RSP => Address(c).index = m.index /\ Address(c).scale = m.scale
      BY <1>2, <1>10, <2>1, <3>1 DEF Address, ReadsBack
    <3>7. m.index = RSP => Address(c).index = None
      BY <1>2, <1>10, <2>1, <3>1 DEF Address, ReadsBack, RSP, None
    <3>8. RSP # None
      BY DEF RSP, None
    <3>9. Address(c) = [base |-> Address(c).base, index |-> Address(c).index,
                        scale |-> Address(c).scale, disp |-> Address(c).disp]
          /\ "base" \in DOMAIN Address(c)
      BY DEF Address
    <3> QED BY <3>3, <3>4, <3>5, <3>6, <3>7, <3>8, <3>9
  <2> QED BY <1>16, <2>6, <2>7 DEF Addressing
<1> QED BY <1>15, <1>16

RexFields(w, r, x, b) == [k |-> "rex", w |-> w, r |-> r, x |-> x, b |-> b]

\* A REX prefix that is left out says nothing.
LEMMA OptionalRexIs ==
  ASSUME NEW f \in BOOLEAN, NEW w \in Bits, NEW r \in Bits, NEW x \in Bits, NEW b \in Bits
  PROVE  /\ MaybeRex(OptionalRex(f, w, r, x, b), RexFields(w, r, x, b))
         /\ OptionalRex(f, w, r, x, b) = <<RexFields(w, r, x, b)>> <=> f \/ 1 \in {w, r, x, b}
<1>1. RexFields(w, r, x, b) \in RexPiece /\ <<>> # <<RexFields(w, r, x, b)>>
  BY DEF RexPiece, RexFields
<1> QED BY <1>1 DEF OptionalRex, Rex, MaybeRex, Bits, RexFields

\* Codes of two registers, with or without a legacy prefix.
LEMMA RegRegWorks ==
  ASSUME NEW h \in {<<>>, Prefix}, NEW f \in BOOLEAN, NEW w \in Bits, NEW reg \in 0..15, NEW rm \in 0..15,
         NEW name \in Names, Opcodes[name].dest \in {"reg", "rm"}, Opcodes[name].imm = <<>>,
         NEW c, c = h \o RegReg(name, f, w, reg, rm)
  PROVE  \E y : LET z == RexFields(w, Msb(reg), 0, Msb(rm))
                IN /\ y = <<z>> <=> f \/ 1 \in {w, Msb(reg), Msb(rm)}
                   /\ Works(c, y, z, name, Register(Opcodes[name].reg, reg, c),
                            Register(Opcodes[name].rm, rm, c), 0)
<1> DEFINE z == RexFields(w, Msb(reg), 0, Msb(rm))
           y == OptionalRex(f, w, Msb(reg), 0, Msb(rm))
           o == [k |-> "op", op |-> name]
           mo == ModRM(3, And7(reg), And7(rm))
           num == [k |-> "n4", n |-> 0]
<1>1. /\ z.w = w /\ z.r = Msb(reg) /\ z.b = Msb(rm) /\ z.x = 0
      /\ And7(reg) \in Low /\ And7(rm) \in Low
      /\ And7(reg) + 8 * Msb(reg) = reg /\ And7(rm) + 8 * Msb(rm) = rm
  BY Halves DEF RexFields
<1>2. MaybeRex(y, z) /\ (y = <<z>> <=> f \/ 1 \in {w, Msb(reg), Msb(rm)})
  <2>1. Msb(reg) \in Bits /\ Msb(rm) \in Bits /\ 0 \in Bits
    BY Halves DEF Bits
  <2>2. MaybeRex(y, z) /\ (y = <<z>> <=> f \/ 1 \in {w, Msb(reg), 0, Msb(rm)})
    BY <2>1, OptionalRexIs
  <2> HIDE DEF y, z
  <2> QED BY <2>2
<1>3. num \in BytePiece \cup LongPiece /\ num.n = 0 /\ <<>> \in {<<>>, <<num>>} /\ Kinds(<<>>) = Opcodes[name].imm
  BY KindsOfNone DEF LongPiece
<1>4. c = Laid(h, y, o, mo \o <<>>)
  BY DEF Laid, RegReg, Op, ModRM
<1> HIDE DEF y, z, num
<1>5. c = Laid(h, y, [k |-> "op", op |-> name], ModRM(3, And7(reg), And7(rm)) \o <<>>)
  BY <1>4
<1>6. Works(c, y, z, name, Register(Opcodes[name].reg, And7(reg) + 8 * z.r, c),
            Register(Opcodes[name].rm, And7(rm) + 8 * z.b, c), num.n)
  BY <1>1, <1>2, <1>3, <1>5, ThroughRegisters
<1>7. Works(c, y, z, name, Register(Opcodes[name].reg, reg, c), Register(Opcodes[name].rm, rm, c), 0)
  BY <1>1, <1>3, <1>6
<1> QED BY <1>2, <1>7 DEF z

\* Pieces in the order they are emitted in.
Run(y, o, d, t) == ((y \o o) \o d) \o t

Ran(y, o, d, t) == <<>> \o ((y \o o) \o (d \o t))

\* Where the brackets are does not matter.
LEMMA PiecesReassociate ==
  ASSUME NEW p \in Seq(Pieces), NEW q \in Seq(Pieces), NEW r \in Seq(Pieces)
  PROVE  (p \o q) \o r = p \o (q \o r)
<1> DEFINE x == (p \o q) \o r
           y == p \o (q \o r)
<1>1. x \in Seq(Pieces) /\ y \in Seq(Pieces) /\ Len(x) = Len(y)
  BY ConcatProperties
<1>2. \A i \in 1..Len(x) : x[i] = y[i]
  BY SMTT(30)
<1> HIDE DEF x, y
<1> QED BY <1>1, <1>2, SeqEqual

\* The order in which sequences are joined does not matter.
LEMMA RunIsRan ==
  ASSUME NEW y \in Seq(Pieces), NEW b \in Seq(Pieces), NEW d \in Seq(Pieces), NEW t \in Seq(Pieces)
  PROVE  Run(y, b, d, t) = Ran(y, b, d, t)
<1> DEFINE a == y \o b
<1>1. a \in Seq(Pieces)
  BY ConcatProperties
<1>2. a \o (d \o t) \in Seq(Pieces)
  BY <1>1, ConcatProperties
<1> HIDE DEF a
<1>3. (a \o d) \o t = a \o (d \o t)
  BY <1>1, PiecesReassociate
<1>4. a \o (d \o t) = <<>> \o (a \o (d \o t))
  BY <1>2, ConcatEmptySeq
<1> QED BY <1>3, <1>4 DEF a, Run, Ran

\* Pieces emitted one after the other are laid out as an instruction.
LEMMA LaidOf ==
  ASSUME NEW y \in Seq(Pieces), NEW o, <<o>> \in Seq(Pieces), NEW d \in Seq(Pieces), NEW t \in Seq(Pieces)
  PROVE  Run(y, <<o>>, d, t) = Laid(<<>>, y, o, d \o t)
<1>1. Ran(y, <<o>>, d, t) = Laid(<<>>, y, o, d \o t)
  BY DEF Ran, Laid
<1> QED BY <1>1, RunIsRan

\* Codes of one register.
LEMMA UnaryWorks ==
  ASSUME NEW z, NEW y, MaybeRex(y, z), z.x = 0, z.r = 0, NEW rm \in 0..15, z.b = Msb(rm), NEW ext \in Low,
         NEW name \in Names, Opcodes[name].dest = "rm", Opcodes[name].reg = "none",
         NEW num \in BytePiece \cup LongPiece, NEW t \in {<<>>, <<num>>}, Kinds(t) = Opcodes[name].imm,
         NEW c, c = ((y \o Op(name)) \o ModRM(3, ext, And7(rm))) \o t
  PROVE  Works(c, y, z, name, NoOperand, Register(Opcodes[name].rm, rm, c), num.n)
<1> DEFINE mo == [k |-> "modrm", mode |-> 3, reg |-> ext, rm |-> And7(rm)]
           o == [k |-> "op", op |-> name]
<1>1. And7(rm) \in Low /\ And7(rm) + 8 * z.b = rm
  BY Halves
<1>2. c = Laid(<<>>, y, o, ModRM(3, ext, And7(rm)) \o t)
  <2>1. y \in Seq(Pieces) /\ <<o>> \in Seq(Pieces) /\ <<mo>> \in Seq(Pieces) /\ t \in Seq(Pieces)
    <3>1. z \in Pieces /\ o \in Pieces /\ mo \in Pieces /\ num \in Pieces
      BY <1>1 DEF MaybeRex, Pieces, OpPiece, ModRMPiece
    <3>2. <<>> \in Seq(Pieces) /\ <<z>> \in Seq(Pieces) /\ <<num>> \in Seq(Pieces) /\ <<o>> \in Seq(Pieces)
          /\ <<mo>> \in Seq(Pieces)
      BY <3>1, Short1
    <3> QED BY <3>2 DEF MaybeRex
  <2> DEFINE d == <<mo>>
  <2>2. c = Run(y, <<o>>, d, t) /\ ModRM(3, ext, And7(rm)) = d
    BY DEF Op, ModRM, Run
  <2>3. d \in Seq(Pieces) /\ <<o>> \in Seq(Pieces)
    BY <2>1
  <2> HIDE DEF o, mo, d
  <2>4. Run(y, <<o>>, d, t) = Laid(<<>>, y, o, d \o t)
    BY <2>1, <2>3, LaidOf
  <2> QED BY <2>2, <2>4
<1>3. Works(c, y, z, name, Register(Opcodes[name].reg, ext + 8 * z.r, c),
            Register(Opcodes[name].rm, And7(rm) + 8 * z.b, c), num.n)
  <2>1. c = Laid(<<>>, y, [k |-> "op", op |-> name], ModRM(3, ext, And7(rm)) \o t)
    BY <1>2
  <2> QED BY <1>1, <2>1, ThroughRegisters
<1>4. Register("none", ext + 8 * z.r, c) = NoOperand
  BY DEF Register
<1> QED BY <1>1, <1>3, <1>4

\* The pieces of an address are pieces.
LEMMA MemPiecesIn ==
  ASSUME NEW m \in Where, NEW reg \in 0..15 PROVE MemPieces(reg, m) \in Seq(Pieces)
<1>1. PICK mo, sb, num, s, d : Laying(reg, m, mo, sb, num, s, d)
  BY MemPiecesLaid
<1>2. /\ mo \in Pieces /\ sb \in Pieces /\ num \in Pieces
      /\ s \in {<<>>, <<sb>>} /\ d \in {<<>>, <<num>>}
      /\ MemPieces(reg, m) = (<<mo>> \o s) \o d
  BY <1>1 DEF Laying, Pieces
<1>3. <<mo>> \in Seq(Pieces) /\ s \in Seq(Pieces) /\ d \in Seq(Pieces)
  <2>1. <<>> \in Seq(Pieces) /\ <<mo>> \in Seq(Pieces) /\ <<sb>> \in Seq(Pieces) /\ <<num>> \in Seq(Pieces)
    BY <1>2, Short1
  <2> QED BY <1>2, <2>1
<1>4. <<mo>> \o s \in Seq(Pieces)
  BY <1>3, ConcatProperties
<1> QED BY <1>2, <1>3, <1>4, ConcatProperties

\* The outcome of an encoder with an address, whichever it is.
Reaches(c, f, w, name, reg, m, n) ==
  /\ c \in Seq(Pieces) /\ c # <<>>
  /\ LosesBase(m) => Executed(c) = Garbled
  /\ ~LosesBase(m) =>
       /\ HasRex(c) <=> f \/ 1 \in {w, Msb(reg), XBit(m), BBit(m)}
       /\ AnyRexOf(c) <=> HasRex(c)
       /\ \E a : /\ "base" \in DOMAIN a
                 /\ a = m <=> m.index # RSP
                 /\ LET R == Register(Opcodes[name].reg, reg, c)
                    IN Executed(c) = Instr(Opcodes[name].does, w, IF Opcodes[name].dest = "reg" THEN R ELSE a,
                                           IF Opcodes[name].dest = "reg" THEN a ELSE R, Value(name, n))

\* The outcome of emit_membase behind a REX prefix and an opcode.
LEMMA RegMemReaches ==
  ASSUME NEW h \in {<<>>, Prefix}, NEW f \in BOOLEAN, NEW w \in Bits, NEW reg \in 0..15, NEW m \in Where,
         NEW name \in Names, Opcodes[name].dest \in {"reg", "rm"},
         NEW num \in BytePiece \cup LongPiece, NEW t \in {<<>>, <<num>>}, Kinds(t) = Opcodes[name].imm,
         NEW y, y = RexMem(f, w, reg, m),
         NEW c, c = Laid(h, y, [k |-> "op", op |-> name], MemPieces(reg, m) \o t)
  PROVE  Reaches(c, f, w, name, reg, m, num.n)
<1> DEFINE z == RexFields(w, Msb(reg), XBit(m), BBit(m))
           rest == MemPieces(reg, m) \o t
<1>1. /\ z.w = w /\ z.r = Msb(reg) /\ z.b = BBit(m) /\ z.x = XBit(m)
      /\ Msb(reg) \in Bits /\ XBit(m) \in Bits /\ BBit(m) \in Bits
  BY Halves, Addresses DEF RexFields
<1>2. y = OptionalRex(f, w, Msb(reg), XBit(m), BBit(m))
  BY DEF RexMem, XBit, BBit
<1>3. MaybeRex(y, z) /\ (y = <<z>> <=> f \/ 1 \in {w, Msb(reg), XBit(m), BBit(m)})
  BY <1>1, <1>2, OptionalRexIs
<1> HIDE DEF z, rest
<1>4. rest = MemPieces(reg, m) \o t /\ c = Laid(h, y, [k |-> "op", op |-> name], rest)
  BY DEF rest
<1>5. /\ LosesBase(m) => c \in Seq(Pieces) /\ c # <<>> /\ Executed(c) = Garbled
      /\ ~LosesBase(m) =>
           /\ Works(c, y, z, name, Register(Opcodes[name].reg, reg, c), Address(c), num.n)
           /\ "base" \in DOMAIN Address(c)
           /\ Address(c) = m <=> m.index # RSP
  <2>1. Addressing(c, y, z, name, reg, m, num.n)
    BY <1>1, <1>3, <1>4, ThroughMemory
  <2> QED BY <2>1 DEF Addressing
<1> DEFINE R == Register(Opcodes[name].reg, reg, c)
<1>6. ASSUME ~LosesBase(m)
      PROVE  /\ c \in Seq(Pieces) /\ c # <<>>
             /\ HasRex(c) <=> f \/ 1 \in {w, Msb(reg), XBit(m), BBit(m)}
             /\ AnyRexOf(c) <=> HasRex(c)
             /\ \E a : /\ "base" \in DOMAIN a
                       /\ a = m <=> m.index # RSP
                       /\ Executed(c) = Instr(Opcodes[name].does, w, IF Opcodes[name].dest = "reg" THEN R ELSE a,
                                              IF Opcodes[name].dest = "reg" THEN a ELSE R, Value(name, num.n))
  BY <1>1, <1>3, <1>5, <1>6 DEF Works
<1> QED BY <1>5, <1>6 DEF Reaches

\* Without a legacy prefix and with or without an immediate; with a prefix and none.
LEMMA RegMemForms ==
  ASSUME NEW f \in BOOLEAN, NEW w \in Bits, NEW reg \in 0..15, NEW m \in Where,
         NEW name \in Names, Opcodes[name].dest \in {"reg", "rm"},
         NEW num \in BytePiece \cup LongPiece
  PROVE  /\ Opcodes[name].imm = <<>> => \A h \in {<<>>, Prefix} :
              Reaches(h \o RegMem(name, f, w, reg, m), f, w, name, reg, m, num.n)
         /\ Opcodes[name].imm = <<num.k>> =>
              Reaches(RegMem(name, f, w, reg, m) \o <<num>>, f, w, name, reg, m, num.n)
<1> DEFINE y == RexMem(f, w, reg, m)
           o == [k |-> "op", op |-> name]
           mem == MemPieces(reg, m)
<1>1. mem \in Seq(Pieces) /\ mem = mem \o <<>>
  <2>1. mem \in Seq(Pieces)
    BY MemPiecesIn
  <2> QED BY <2>1, ConcatEmptySeq
<1>2. o \in Pieces /\ num \in Pieces
  BY DEF Pieces, OpPiece
<1>3. <<o>> \in Seq(Pieces) /\ <<num>> \in Seq(Pieces) /\ Kinds(<<num>>) = <<num.k>> /\ Kinds(<<>>) = <<>>
  BY <1>2, KindsOfOne, KindsOfNone
<1>4. ASSUME Opcodes[name].imm = <<>>, NEW h \in {<<>>, Prefix}
      PROVE  Reaches(h \o RegMem(name, f, w, reg, m), f, w, name, reg, m, num.n)
  <2>1. h \o RegMem(name, f, w, reg, m) = Laid(h, y, o, mem \o <<>>)
    BY <1>1 DEF RegMem, Op, Laid
  <2>2. <<>> \in {<<>>, <<num>>} /\ Kinds(<<>>) = Opcodes[name].imm
    BY <1>3, <1>4
  <2> HIDE DEF y
  <2>3. y = RexMem(f, w, reg, m)
    BY DEF y
  <2> QED BY <2>1, <2>2, <2>3, RegMemReaches
<1>5. ASSUME Opcodes[name].imm = <<num.k>>
      PROVE  Reaches(RegMem(name, f, w, reg, m) \o <<num>>, f, w, name, reg, m, num.n)
  <2>1. RegMem(name, f, w, reg, m) \o <<num>> = Run(y, <<o>>, mem, <<num>>)
    BY DEF RegMem, Op, Run
  <2>2. y \in Seq(Pieces)
    <3> DEFINE z == RexFields(w, Msb(reg), XBit(m), BBit(m))
    <3>1. y \in {<<>>, <<z>>} /\ z \in Pieces
      <4>1. Msb(reg) \in Bits /\ XBit(m) \in Bits /\ BBit(m) \in Bits
        BY Halves, Addresses
      <4>2. y = OptionalRex(f, w, Msb(reg), XBit(m), BBit(m))
        BY DEF RexMem, XBit, BBit
      <4> HIDE DEF y, z
      <4>3. MaybeRex(y, z)
        BY <4>1, <4>2, OptionalRexIs DEF z
      <4> QED BY <4>3 DEF MaybeRex, Pieces
    <3> HIDE DEF y, z
    <3>2. <<z>> \in Seq(Pieces) /\ <<>> \in Seq(Pieces)
      BY <3>1, Short1
    <3> QED BY <3>1, <3>2
  <2>3. <<num>> \in {<<>>, <<num>>} /\ Kinds(<<num>>) = Opcodes[name].imm
    BY <1>3, <1>5
  <2> HIDE DEF y, mem, o
  <2>4. Run(y, <<o>>, mem, <<num>>) = Laid(<<>>, y, o, mem \o <<num>>)
    <3> DEFINE u == <<num>>
    <3>1. u \in Seq(Pieces)
      BY <1>3
    <3> HIDE DEF u
    <3>2. Run(y, <<o>>, mem, u) = Laid(<<>>, y, o, mem \o u)
      BY <1>1, <1>3, <2>2, <3>1, LaidOf
    <3> QED BY <3>2 DEF u
  <2>5. /\ y = RexMem(f, w, reg, m) /\ <<>> \in {<<>>, Prefix}
        /\ RegMem(name, f, w, reg, m) \o <<num>>
             = Laid(<<>>, y, [k |-> "op", op |-> name], MemPieces(reg, m) \o <<num>>)
    BY <2>1, <2>4 DEF y, o, mem
  <2> QED BY <2>3, <2>5, RegMemReaches
<1> QED BY <1>4, <1>5

\* An optional REX prefix is a sequence of pieces.
LEMMA OptionalRexIn ==
  ASSUME NEW f \in BOOLEAN, NEW w \in Bits, NEW r \in Bits, NEW x \in Bits, NEW b \in Bits
  PROVE  OptionalRex(f, w, r, x, b) \in Seq(Pieces)
<1> DEFINE y == OptionalRex(f, w, r, x, b)  z == RexFields(w, r, x, b)
<1>1. MaybeRex(y, z)
  BY OptionalRexIs
<1> HIDE DEF y, z
<1>2. y \in {<<>>, <<z>>} /\ z \in Pieces
  BY <1>1 DEF MaybeRex, Pieces
<1>3. <<>> \in Seq(Pieces) /\ <<z>> \in Seq(Pieces)
  BY <1>2, Short1
<1>4. y \in Seq(Pieces)
  BY <1>2, <1>3
<1> QED BY <1>4 DEF y

\* An encoder without a legacy prefix emits nothing before its REX prefix.
LEMMA NoPrefix ==
  ASSUME NEW f \in BOOLEAN, NEW w \in Bits, NEW reg \in 0..15, NEW name \in Names
  PROVE  /\ \A rm \in 0..15 : <<>> \o RegReg(name, f, w, reg, rm) = RegReg(name, f, w, reg, rm)
         /\ \A m \in Where : <<>> \o RegMem(name, f, w, reg, m) = RegMem(name, f, w, reg, m)
<1> DEFINE p == Op(name)
<1>1. p \in Seq(Pieces)
  BY DEF Op, Pieces, OpPiece
<1>2. ASSUME NEW rm \in 0..15 PROVE <<>> \o RegReg(name, f, w, reg, rm) = RegReg(name, f, w, reg, rm)
  <2> DEFINE y == OptionalRex(f, w, Msb(reg), 0, Msb(rm))
             d == ModRM(3, And7(reg), And7(rm))
  <2>1. y \in Seq(Pieces)
    <3>1. Msb(reg) \in Bits /\ Msb(rm) \in Bits /\ 0 \in Bits
      BY Halves DEF Bits
    <3> QED BY <3>1, OptionalRexIn
  <2>2. d \in Seq(Pieces)
    <3>1. And7(reg) \in Low /\ And7(rm) \in Low
      BY Halves
    <3> QED BY <3>1 DEF ModRM, Pieces, ModRMPiece
  <2>3. RegReg(name, f, w, reg, rm) = (y \o p) \o d
    BY DEF RegReg
  <2> HIDE DEF y, p, d
  <2>4. (y \o p) \o d \in Seq(Pieces)
    BY <1>1, <2>1, <2>2, ConcatProperties
  <2> QED BY <2>3, <2>4, ConcatEmptySeq
<1>3. ASSUME NEW m \in Where PROVE <<>> \o RegMem(name, f, w, reg, m) = RegMem(name, f, w, reg, m)
  <2> DEFINE y == RexMem(f, w, reg, m)
             d == MemPieces(reg, m)
  <2>1. y \in Seq(Pieces)
    <3>1. Msb(reg) \in Bits /\ XBit(m) \in Bits /\ BBit(m) \in Bits
      BY Halves, Addresses
    <3>2. y = OptionalRex(f, w, Msb(reg), XBit(m), BBit(m))
      BY DEF RexMem, XBit, BBit
    <3> QED BY <3>1, <3>2, OptionalRexIn
  <2>2. d \in Seq(Pieces)
    BY MemPiecesIn
  <2>3. RegMem(name, f, w, reg, m) = (y \o p) \o d
    BY DEF RegMem
  <2> HIDE DEF y, p, d
  <2>4. (y \o p) \o d \in Seq(Pieces)
    BY <1>1, <2>1, <2>2, ConcatProperties
  <2> QED BY <2>3, <2>4, ConcatEmptySeq
<1> QED BY <1>2, <1>3

(***************************************************************************)
(* What StaysInStep and DecodesAsAsked ask of one instruction.             *)
(***************************************************************************)

AddressesOf(i) == {x \in {i.dest, i.src} : "base" \in DOMAIN x}
BytesOf(i) == {x \in {i.dest, i.src} : "file" \in DOMAIN x /\ x.file = "byte"}

InStepVerdict(fn, i, d) ==
  d = Garbled <=>
    \/ \E m \in AddressesOf(i) : LosesBase(m)
    \/ fn = "sub_imm_mem" /\ i.dest.base \in {RSP, RBP, R12, R13}

AsAskedVerdict(fn, i, c, d) ==
  d # Garbled =>
    (d # i <=>
       \/ \E m \in AddressesOf(i) : m.index = RSP
       \/ /\ ForgetsRex(fn) /\ ~AnyRexOf(c)
          /\ \E x \in BytesOf(i) : x.n \in 4..7
       \/ /\ fn = "movb_reg_reg"
          /\ \/ Msb(i.dest.n) # Msb(i.src.n)
             \/ ~AnyRexOf(c) /\ i.dest.n \in 4..7
       \/ fn = "sse_reg_freg" /\ i.dest.n # i.src.n
       \/ fn = "sub_imm_mem" /\ i.op = "aluimm" /\ i.imm > 127)

Good(k, c) ==
  /\ c \in Seq(Pieces) /\ c # <<>>
  /\ InStepVerdict(k.fn, k.instr, Executed(c)) /\ AsAskedVerdict(k.fn, k.instr, c, Executed(c))

Call(fn, i) == [fn |-> fn, instr |-> i]

File(f, n) == IF f = "none" THEN NoOperand ELSE [file |-> f, n |-> n]

\* Encoders that the properties make no exception for.
Regular(fn) == ~ForgetsRex(fn) /\ fn \notin {"movb_reg_reg", "sse_reg_freg", "sub_imm_mem"}

\* A code that runs as the instruction asked for is what the properties ask.
LEMMA Exact ==
  ASSUME NEW fn, Regular(fn), NEW c \in Seq(Pieces), c # <<>>, NEW op, op # "garbled", NEW w, NEW v,
         NEW f1, NEW n1, NEW f2, NEW n2,
         Executed(c) = Instr(op, w, File(f1, n1), File(f2, n2), v)
  PROVE  Good(Call(fn, Instr(op, w, File(f1, n1), File(f2, n2), v)), c)
<1> DEFINE i == Instr(op, w, File(f1, n1), File(f2, n2), v)
<1>1. \A f, n : "base" \notin DOMAIN File(f, n)
  BY DEF File, NoOperand
<1>2. i.dest = File(f1, n1) /\ i.src = File(f2, n2) /\ i.op = op
  BY DEF Instr
<1>3. AddressesOf(i) = {}
  BY <1>1, <1>2 DEF AddressesOf
<1>4. i # Garbled
  BY <1>2 DEF Garbled, Instr
<1>5. Executed(c) = i
  OBVIOUS
<1> HIDE DEF i
<1>6. InStepVerdict(fn, i, i) /\ AsAskedVerdict(fn, i, c, i)
  BY <1>3, <1>4 DEF InStepVerdict, AsAskedVerdict, Regular
<1> QED BY <1>5, <1>6 DEF Good, Call, i

(***************************************************************************)
(* The encoders between registers.                                         *)
(***************************************************************************)

\* A register is taken for itself unless it is a byte register without its REX prefix.
LEMMA SameRegister ==
  ASSUME NEW f \in {"general", "xmm", "byte", "none"}, NEW n \in 0..15, NEW c,
         f = "byte" /\ n \in 4..7 => HasRex(c)
  PROVE  Register(f, n, c) = File(f, n)
BY DEF Register, File

\* The outcome of two registers, whatever becomes of them.
Moves(c, f, w, name, reg, rm) ==
  /\ c \in Seq(Pieces) /\ c # <<>>
  /\ HasRex(c) <=> f \/ 1 \in {w, Msb(reg), Msb(rm)}
  /\ AnyRexOf(c) <=> HasRex(c)
  /\ LET R == Register(Opcodes[name].reg, reg, c)
         M == Register(Opcodes[name].rm, rm, c)
     IN Executed(c) = Instr(Opcodes[name].does, w, IF Opcodes[name].dest = "reg" THEN R ELSE M,
                            IF Opcodes[name].dest = "reg" THEN M ELSE R, Value(name, 0))

\* The outcome of an encoder of two registers.
LEMMA RegRegMoves ==
  ASSUME NEW h \in {<<>>, Prefix}, NEW f \in BOOLEAN, NEW w \in Bits, NEW reg \in 0..15, NEW rm \in 0..15,
         NEW name \in Names, Opcodes[name].dest \in {"reg", "rm"}, Opcodes[name].imm = <<>>
  PROVE  Moves(h \o RegReg(name, f, w, reg, rm), f, w, name, reg, rm)
<1> DEFINE c == h \o RegReg(name, f, w, reg, rm)
           z == RexFields(w, Msb(reg), 0, Msb(rm))
<1>0. z.w = w
  BY DEF RexFields
<1> HIDE DEF c, z
<1>1. PICK y : /\ y = <<z>> <=> f \/ 1 \in {w, Msb(reg), Msb(rm)}
               /\ Works(c, y, z, name, Register(Opcodes[name].reg, reg, c), Register(Opcodes[name].rm, rm, c), 0)
  <2>1. c = h \o RegReg(name, f, w, reg, rm)
    BY DEF c
  <2> QED BY <2>1, RegRegWorks, ZenonT(30) DEF z
<1>2. Moves(c, f, w, name, reg, rm)
  BY <1>0, <1>1 DEF Works, Moves
<1> QED BY <1>2 DEF c

\* An encoder of two registers that the properties make no exception for.
LEMMA RegRegGood ==
  ASSUME NEW h \in {<<>>, Prefix}, NEW f \in BOOLEAN, NEW w \in Bits, NEW reg \in 0..15, NEW rm \in 0..15,
         NEW name \in Names, NEW does, NEW f1, NEW f2, NEW dest \in {"reg", "rm"},
         Opcodes[name] = Shape(does, f1, f2, dest, <<>>), name # "shift_one", does # "garbled",
         f1 \in {"general", "xmm", "none"}, f2 \in {"general", "xmm", "byte"}, f2 = "byte" /\ rm \in 4..7 => f,
         NEW fn, Regular(fn)
  PROVE  Good(Call(fn, Instr(does, w, IF dest = "reg" THEN File(f1, reg) ELSE File(f2, rm),
                             IF dest = "reg" THEN File(f2, rm) ELSE File(f1, reg), 0)),
              h \o RegReg(name, f, w, reg, rm))
<1> DEFINE c == h \o RegReg(name, f, w, reg, rm)
<1>1. /\ Opcodes[name].does = does /\ Opcodes[name].reg = f1 /\ Opcodes[name].rm = f2
      /\ Opcodes[name].dest = dest /\ Opcodes[name].imm = <<>> /\ Value(name, 0) = 0
  BY DEF Shape, Value
<1>2. Moves(c, f, w, name, reg, rm)
  BY <1>1, RegRegMoves
<1> HIDE DEF c
<1>3. Register(f1, reg, c) = File(f1, reg) /\ Register(f2, rm, c) = File(f2, rm)
  BY <1>2, SameRegister DEF Moves
<1>4. CASE dest = "reg"
  <2>1. Executed(c) = Instr(does, w, File(f1, reg), File(f2, rm), 0)
    BY <1>1, <1>2, <1>3, <1>4 DEF Moves
  <2>2. Good(Call(fn, Instr(does, w, File(f1, reg), File(f2, rm), 0)), c)
    BY <1>2, <2>1, Exact DEF Moves
  <2> QED BY <1>4, <2>2 DEF c
<1>5. CASE dest = "rm"
  <2>1. Executed(c) = Instr(does, w, File(f2, rm), File(f1, reg), 0)
    BY <1>1, <1>2, <1>3, <1>5 DEF Moves
  <2>2. Good(Call(fn, Instr(does, w, File(f2, rm), File(f1, reg), 0)), c)
    BY <1>2, <2>1, Exact DEF Moves
  <2> QED BY <1>5, <2>2 DEF c
<1> QED BY <1>4, <1>5

\* The same of one register, with or without an immediate.
LEMMA UnaryGood ==
  ASSUME NEW f \in BOOLEAN, NEW w \in Bits, NEW rm \in 0..15, NEW ext \in Low,
         NEW name \in Names, NEW does, NEW f2 \in {"general", "byte"},
         NEW num \in BytePiece \cup LongPiece, NEW t \in {<<>>, <<num>>},
         Opcodes[name] = Unary(does, f2, Kinds(t)), does # "garbled", f2 = "byte" /\ rm \in 4..7 => f,
         NEW y, y = OptionalRex(f, w, 0, 0, Msb(rm)),
         NEW fn, Regular(fn),
         NEW c, c = Run(y, Op(name), ModRM(3, ext, And7(rm)), t)
  PROVE  Good(Call(fn, Instr(does, w, File(f2, rm), NoOperand, Value(name, num.n))), c)
<1> DEFINE z == RexFields(w, 0, 0, Msb(rm))
<1>1. z.w = w /\ z.x = 0 /\ z.r = 0 /\ z.b = Msb(rm)
  BY DEF RexFields
<1>2. MaybeRex(y, z) /\ (y = <<z>> <=> f \/ 1 \in {w, 0, Msb(rm)})
  <2>1. Msb(rm) \in Bits /\ 0 \in Bits
    BY Halves DEF Bits
  <2> QED BY <2>1, OptionalRexIs
<1>3. /\ Opcodes[name].does = does /\ Opcodes[name].reg = "none" /\ Opcodes[name].rm = f2
      /\ Opcodes[name].dest = "rm" /\ Opcodes[name].imm = Kinds(t)
  BY DEF Shape, Unary
<1> HIDE DEF z
<1>4. Works(c, y, z, name, NoOperand, Register(Opcodes[name].rm, rm, c), num.n)
  <2>1. c = ((y \o Op(name)) \o ModRM(3, ext, And7(rm))) \o t
    BY DEF Run
  <2> QED BY <1>1, <1>2, <1>3, <2>1, UnaryWorks
<1>5. Register(f2, rm, c) = File(f2, rm)
  BY <1>2, <1>4, SameRegister DEF Works
<1>6. /\ c \in Seq(Pieces) /\ c # <<>>
      /\ Executed(c) = Instr(does, w, File(f2, rm), File("none", 0), Value(name, num.n))
  BY <1>1, <1>3, <1>4, <1>5 DEF Works, File
<1>7. Good(Call(fn, Instr(does, w, File(f2, rm), File("none", 0), Value(name, num.n))), c)
  BY <1>6, Exact
<1> QED BY <1>7 DEF File

\* The destination is the r/m operand.
LEMMA StoredGood ==
  ASSUME NEW f \in BOOLEAN, NEW w \in Bits, NEW reg \in 0..15, NEW rm \in 0..15, NEW name \in Names,
         NEW does, NEW f1, NEW f2, Opcodes[name] = Shape(does, f1, f2, "rm", <<>>),
         name # "shift_one", does # "garbled",
         f1 \in {"general", "xmm", "none"}, f2 \in {"general", "xmm", "byte"}, f2 = "byte" /\ rm \in 4..7 => f,
         NEW fn, Regular(fn)
  PROVE  Good(Call(fn, Instr(does, w, File(f2, rm), File(f1, reg), 0)), RegReg(name, f, w, reg, rm))
<1>1. Good(Call(fn, Instr(does, w, IF "rm" = "reg" THEN File(f1, reg) ELSE File(f2, rm),
                          IF "rm" = "reg" THEN File(f2, rm) ELSE File(f1, reg), 0)),
           <<>> \o RegReg(name, f, w, reg, rm))
  BY RegRegGood
<1>2. <<>> \o RegReg(name, f, w, reg, rm) = RegReg(name, f, w, reg, rm)
  BY NoPrefix
<1> QED BY <1>1, <1>2

\* The destination is the reg operand.
LEMMA LoadedGood ==
  ASSUME NEW f \in BOOLEAN, NEW w \in Bits, NEW reg \in 0..15, NEW rm \in 0..15, NEW name \in Names,
         NEW does, NEW f1, NEW f2, Opcodes[name] = Shape(does, f1, f2, "reg", <<>>),
         name # "shift_one", does # "garbled",
         f1 \in {"general", "xmm", "none"}, f2 \in {"general", "xmm", "byte"}, f2 = "byte" /\ rm \in 4..7 => f,
         NEW fn, Regular(fn)
  PROVE  /\ Good(Call(fn, Instr(does, w, File(f1, reg), File(f2, rm), 0)), RegReg(name, f, w, reg, rm))
         /\ Good(Call(fn, Instr(does, w, File(f1, reg), File(f2, rm), 0)), Prefix \o RegReg(name, f, w, reg, rm))
<1>1. ASSUME NEW h \in {<<>>, Prefix}
      PROVE  Good(Call(fn, Instr(does, w, IF "reg" = "reg" THEN File(f1, reg) ELSE File(f2, rm),
                          IF "reg" = "reg" THEN File(f2, rm) ELSE File(f1, reg), 0)),
                  h \o RegReg(name, f, w, reg, rm))
  BY RegRegGood
<1>2. <<>> \o RegReg(name, f, w, reg, rm) = RegReg(name, f, w, reg, rm)
  BY NoPrefix
<1> QED BY <1>1, <1>2

\* The encoders of two registers that the properties make no exception for.
LEMMA TwoRegistersGood ==
  ASSUME NEW r \in 0..15, NEW s \in 0..15, NEW w \in Bits
  PROVE  /\ Good(Call("alu_reg_reg", Instr("alu", w, Gp(r), Gp(s), 0)),
              RegReg("alu", FALSE, w, s, r))
         /\ Good(Call("mov_reg_reg", Instr("mov", w, Gp(r), Gp(s), 0)),
              RegReg("mov_store", FALSE, w, s, r))
         /\ Good(Call("imul_reg_reg", Instr("imul", w, Gp(r), Gp(s), 0)),
              RegReg("imul", FALSE, w, r, s))
         /\ Good(Call("movsx", Instr("movsx", 1, Gp(r), Gp(s), 0)),
              RegReg("movsx", TRUE, 1, r, s))
         /\ Good(Call("movzbl_reg_reg", Instr("movzx", 0, Gp(r), Byte(s), 0)),
              RegReg("movzx", s \notin BasicRegs, 0, r, s))
         /\ Good(Call("sse_freg_freg", Instr("sse", 0, Xmm(r), Xmm(s), 0)),
              Prefix \o RegReg("sse", FALSE, 0, r, s))
         /\ Good(Call("sse_freg_reg", Instr("cvt", w, Xmm(r), Gp(s), 0)),
              Prefix \o RegReg("xmm_from_general", FALSE, w, r, s))
         /\ Good(Call("sse_float_reg_freg", Instr("cvt", w, Gp(r), Xmm(s), 0)),
              Prefix \o RegReg("general_from_xmm", FALSE, w, r, s))
         /\ Good(Call("alul_reg", Instr("unary", w, Gp(r), NoOperand, 0)),
              RegReg("unary", FALSE, w, 2, r))
         /\ Good(Call("jmp_reg", Instr("jmp", 0, Gp(r), NoOperand, 0)),
              RegReg("jmp", FALSE, 0, 4, r))
<1>0. 0 \in Bits /\ 1 \in Bits /\ 2 \in 0..15 /\ 4 \in 0..15
  BY DEF Bits
<1>1. Good(Call("alu_reg_reg", Instr("alu", w, Gp(r), Gp(s), 0)),
              RegReg("alu", FALSE, w, s, r))
  <2>1. Opcodes["alu"] = Shape("alu", "general", "general", "rm", <<>>) /\ "alu" \in Names
    BY DEF Opcodes, Names
  <2>2. Regular("alu_reg_reg")
    BY DEF Regular, ForgetsRex
  <2>3. Good(Call("alu_reg_reg", Instr("alu", w, File("general", r), File("general", s), 0)), RegReg("alu", FALSE, w, s, r))
    BY <1>0, <2>1, <2>2, StoredGood
  <2> QED BY <2>3 DEF File, Gp, Byte, Xmm
<1>2. Good(Call("mov_reg_reg", Instr("mov", w, Gp(r), Gp(s), 0)),
              RegReg("mov_store", FALSE, w, s, r))
  <2>1. Opcodes["mov_store"] = Shape("mov", "general", "general", "rm", <<>>) /\ "mov_store" \in Names
    BY DEF Opcodes, Names
  <2>2. Regular("mov_reg_reg")
    BY DEF Regular, ForgetsRex
  <2>3. Good(Call("mov_reg_reg", Instr("mov", w, File("general", r), File("general", s), 0)), RegReg("mov_store", FALSE, w, s, r))
    BY <1>0, <2>1, <2>2, StoredGood
  <2> QED BY <2>3 DEF File, Gp, Byte, Xmm
<1>3. Good(Call("imul_reg_reg", Instr("imul", w, Gp(r), Gp(s), 0)),
              RegReg("imul", FALSE, w, r, s))
  <2>1. Opcodes["imul"] = Shape("imul", "general", "general", "reg", <<>>) /\ "imul" \in Names
    BY DEF Opcodes, Names
  <2>2. Regular("imul_reg_reg")
    BY DEF Regular, ForgetsRex
  <2>3. Good(Call("imul_reg_reg", Instr("imul", w, File("general", r), File("general", s), 0)), RegReg("imul", FALSE, w, r, s))
    BY <1>0, <2>1, <2>2, LoadedGood
  <2> QED BY <2>3 DEF File, Gp, Byte, Xmm
<1>4. Good(Call("movsx", Instr("movsx", 1, Gp(r), Gp(s), 0)),
              RegReg("movsx", TRUE, 1, r, s))
  <2>1. Opcodes["movsx"] = Shape("movsx", "general", "general", "reg", <<>>) /\ "movsx" \in Names
    BY DEF Opcodes, Names
  <2>2. Regular("movsx")
    BY DEF Regular, ForgetsRex
  <2>3. Good(Call("movsx", Instr("movsx", 1, File("general", r), File("general", s), 0)), RegReg("movsx", TRUE, 1, r, s))
    BY <1>0, <2>1, <2>2, LoadedGood
  <2> QED BY <2>3 DEF File, Gp, Byte, Xmm
<1>5. Good(Call("movzbl_reg_reg", Instr("movzx", 0, Gp(r), Byte(s), 0)),
              RegReg("movzx", s \notin BasicRegs, 0, r, s))
  <2>1. Opcodes["movzx"] = Shape("movzx", "general", "byte", "reg", <<>>) /\ "movzx" \in Names
    BY DEF Opcodes, Names
  <2>2. Regular("movzbl_reg_reg")
    BY DEF Regular, ForgetsRex
  <2> DEFINE f == s \notin BasicRegs
  <2>3. f \in BOOLEAN /\ (s \in 4..7 => f)
    BY DEF BasicRegs
  <2> HIDE DEF f
  <2>4. Good(Call("movzbl_reg_reg", Instr("movzx", 0, File("general", r), File("byte", s), 0)), RegReg("movzx", f, 0, r, s))
    BY <1>0, <2>1, <2>2, <2>3, LoadedGood
  <2> QED BY <2>4 DEF File, Gp, Byte, Xmm, f
<1>6. Good(Call("sse_freg_freg", Instr("sse", 0, Xmm(r), Xmm(s), 0)),
              Prefix \o RegReg("sse", FALSE, 0, r, s))
  <2>1. Opcodes["sse"] = Shape("sse", "xmm", "xmm", "reg", <<>>) /\ "sse" \in Names
    BY DEF Opcodes, Names
  <2>2. Regular("sse_freg_freg")
    BY DEF Regular, ForgetsRex
  <2>3. Good(Call("sse_freg_freg", Instr("sse", 0, File("xmm", r), File("xmm", s), 0)), Prefix \o RegReg("sse", FALSE, 0, r, s))
    BY <1>0, <2>1, <2>2, LoadedGood
  <2> QED BY <2>3 DEF File, Gp, Byte, Xmm
<1>7. Good(Call("sse_freg_reg", Instr("cvt", w, Xmm(r), Gp(s), 0)),
              Prefix \o RegReg("xmm_from_general", FALSE, w, r, s))
  <2>1. Opcodes["xmm_from_general"] = Shape("cvt", "xmm", "general", "reg", <<>>) /\ "xmm_from_general" \in Names
    BY DEF Opcodes, Names
  <2>2. Regular("sse_freg_reg")
    BY DEF Regular, ForgetsRex
  <2>3. Good(Call("sse_freg_reg", Instr("cvt", w, File("xmm", r), File("general", s), 0)), Prefix \o RegReg("xmm_from_general", FALSE, w, r, s))
    BY <1>0, <2>1, <2>2, LoadedGood
  <2> QED BY <2>3 DEF File, Gp, Byte, Xmm
<1>8. Good(Call("sse_float_reg_freg", Instr("cvt", w, Gp(r), Xmm(s), 0)),
              Prefix \o RegReg("general_from_xmm", FALSE, w, r, s))
  <2>1. Opcodes["general_from_xmm"] = Shape("cvt", "general", "xmm", "reg", <<>>) /\ "general_from_xmm" \in Names
    BY DEF Opcodes, Names
  <2>2. Regular("sse_float_reg_freg")
    BY DEF Regular, ForgetsRex
  <2>3. Good(Call("sse_float_reg_freg", Instr("cvt", w, File("general", r), File("xmm", s), 0)), Prefix \o RegReg("general_from_xmm", FALSE, w, r, s))
    BY <1>0, <2>1, <2>2, LoadedGood
  <2> QED BY <2>3 DEF File, Gp, Byte, Xmm
<1>9. Good(Call("alul_reg", Instr("unary", w, Gp(r), NoOperand, 0)),
              RegReg("unary", FALSE, w, 2, r))
  <2>1. Opcodes["unary"] = Shape("unary", "none", "general", "rm", <<>>) /\ "unary" \in Names
    BY DEF Opcodes, Unary, Names
  <2>2. Regular("alul_reg")
    BY DEF Regular, ForgetsRex
  <2>3. Good(Call("alul_reg", Instr("unary", w, File("general", r), File("none", 2), 0)), RegReg("unary", FALSE, w, 2, r))
    BY <1>0, <2>1, <2>2, StoredGood
  <2> QED BY <2>3 DEF File, Gp, Byte, Xmm
<1>10. Good(Call("jmp_reg", Instr("jmp", 0, Gp(r), NoOperand, 0)),
              RegReg("jmp", FALSE, 0, 4, r))
  <2>1. Opcodes["jmp"] = Shape("jmp", "none", "general", "rm", <<>>) /\ "jmp" \in Names
    BY DEF Opcodes, Unary, Names
  <2>2. Regular("jmp_reg")
    BY DEF Regular, ForgetsRex
  <2>3. Good(Call("jmp_reg", Instr("jmp", 0, File("general", r), File("none", 4), 0)), RegReg("jmp", FALSE, 0, 4, r))
    BY <1>0, <2>1, <2>2, StoredGood
  <2> QED BY <2>3 DEF File, Gp, Byte, Xmm
<1> QED BY <1>1, <1>2, <1>3, <1>4, <1>5, <1>6, <1>7, <1>8, <1>9, <1>10

(***************************************************************************)
(* The encoders of one register and an immediate.                          *)
(***************************************************************************)

\* The encoders whose opcode holds the register or stands for RAX.
LEMMA ImpliedGood ==
  ASSUME NEW z, NEW y, MaybeRex(y, z), NEW o \in OpPiece, NEW name, o.op = name,
         NEW does, NEW f2 \in {"general", "byte"}, NEW dest \in {"low", "rax"}, does # "garbled",
         NEW num \in BytePiece \cup LongPiece, NEW t \in {<<>>, <<num>>},
         Opcodes[name] = Shape(does, "none", f2, dest, Kinds(t)),
         NEW n, IF dest = "low" THEN f2 = "general" /\ o.low + 8 * z.b = n ELSE n = RAX,
         NEW fn, Regular(fn), NEW c, c = Laid(<<>>, y, o, t)
  PROVE  Good(Call(fn, Instr(does, z.w, File(f2, n), NoOperand, Value(name, num.n))), c)
<1>1. /\ Opcodes[name].does = does /\ Opcodes[name].rm = f2 /\ Opcodes[name].dest = dest
      /\ Opcodes[name].imm = Kinds(t)
  BY DEF Shape
<1>2. t \in Seq(Pieces)
  <2>1. num \in Pieces
    BY DEF Pieces
  <2>2. <<num>> \in Seq(Pieces) /\ <<>> \in Seq(Pieces)
    BY <2>1, Short1
  <2> QED BY <2>2
<1>3. Opens(c, y, z, o, t)
  <2>1. <<>> \in {<<>>, Prefix}
    OBVIOUS
  <2> QED BY <1>2, <2>1, Layout
<1>4. Parts(c, o, t)
  BY <1>3 DEF Opens
<1>5. c \in Seq(Pieces) /\ c # <<>>
  <2>1. c \in Seq(Pieces) /\ Len(c) # 0
    BY <1>2, <1>4 DEF Parts
  <2> QED BY <2>1
<1>6. ShapeOf(c) = Opcodes[name] /\ ImmOperand(c) = Value(name, num.n)
  <2>1. t = <<>> \o t /\ <<>> \in Seq(Pieces)
    BY <1>2, ConcatEmptySeq
  <2> DEFINE front == <<>>
  <2>2. t = front \o t /\ front \in Seq(Pieces) /\ Kinds(t) = Opcodes[name].imm
    BY <1>1, <2>1
  <2> HIDE DEF front
  <2> QED BY <1>4, <2>2, Ends
<1>7. InStep(c)
  BY <1>1, <1>4, <1>6, Implied
<1>8. SrcOperand(c) = NoOperand
  BY <1>1, <1>6 DEF SrcOperand
<1>9. DestOperand(c) = File(f2, n)
  <2>1. CASE dest = "low"
    BY <1>1, <1>3, <1>4, <1>6, <2>1 DEF DestOperand, Gp, File, Opens, Parts
  <2>2. CASE dest = "rax"
    BY <1>1, <1>6, <2>2 DEF DestOperand, Register, File, RAX
  <2> QED BY <2>1, <2>2
<1>10. Executed(c) = Instr(does, z.w, File(f2, n), File("none", 0), Value(name, num.n))
  BY <1>1, <1>3, <1>6, <1>7, <1>8, <1>9 DEF Executed, Opens, File
<1>11. Good(Call(fn, Instr(does, z.w, File(f2, n), File("none", 0), Value(name, num.n))), c)
  BY <1>5, <1>10, Exact
<1> QED BY <1>11 DEF File

\* Emitted one after the other, or behind a REX prefix.
Nested(y, b, d, t) == y \o ((b \o d) \o t)

\* Appending pieces is associative.
LEMMA Grouped ==
  ASSUME NEW u \in Seq(Pieces), NEW v \in Seq(Pieces), NEW w \in Seq(Pieces)
  PROVE  (u \o v) \o w = u \o (v \o w)
  BY ConcatAssociative, SMTT(30)

\* A run emitted piece by piece is its first sequence and what comes after it.
LEMMA RunIsNested ==
  ASSUME NEW y \in Seq(Pieces), NEW b \in Seq(Pieces), NEW d \in Seq(Pieces), NEW t \in Seq(Pieces)
  PROVE  Run(y, b, d, t) = Nested(y, b, d, t)
<1>1. b \o d \in Seq(Pieces)
  BY ConcatProperties
<1>2. (y \o b) \o d = y \o (b \o d)
  BY Grouped, ZenonT(30)
<1> DEFINE e == b \o d
<1>3. Run(y, b, d, t) = (y \o e) \o t
  BY <1>2 DEF Run
<1> HIDE DEF e
<1>4. e \in Seq(Pieces)
  BY <1>1 DEF e
<1>5. (y \o e) \o t = y \o (e \o t)
  BY <1>4, Grouped, ZenonT(30)
<1> QED BY <1>3, <1>5 DEF e, Nested

Op1(name) == [k |-> "op", op |-> name]
OpLow(name, l) == [k |-> "op", op |-> name, low |-> l]
Byte1(i) == [k |-> "n1", n |-> i]
Long4(i) == [k |-> "n4", n |-> i]
Long8(i) == [k |-> "n8", n |-> i]

\* Single pieces, as sequences of pieces.
LEMMA SinglePieces ==
  /\ \A name \in Names : Op1(name) \in OpPiece /\ Op(name) = <<Op1(name)>> /\ Op(name) \in Seq(Pieces)
  /\ \A name \in Names, l \in Low : OpLow(name, l) \in OpPiece /\ OpReg(name, l) = <<OpLow(name, l)>>
                                     /\ OpReg(name, l) \in Seq(Pieces)
  /\ \A i \in -128..255 : Byte1(i) \in BytePiece /\ Emit8(i) = <<Byte1(i)>> /\ Emit8(i) \in Seq(Pieces)
                           /\ Kinds(Emit8(i)) = <<"n1">>
  /\ \A i \in Int : /\ Long4(i) \in LongPiece /\ Emit32(i) = <<Long4(i)>> /\ Emit32(i) \in Seq(Pieces)
                    /\ Kinds(Emit32(i)) = <<"n4">>
                    /\ Long8(i) \in LongPiece /\ Emit64(i) = <<Long8(i)>> /\ Emit64(i) \in Seq(Pieces)
                    /\ Kinds(Emit64(i)) = <<"n8">>
  /\ \A e \in Low, r \in 0..15 : ModRM(3, e, And7(r)) \in Seq(Pieces)
<1>1. ASSUME NEW name \in Names
      PROVE  Op1(name) \in OpPiece /\ Op(name) = <<Op1(name)>> /\ Op(name) \in Seq(Pieces)
  <2>1. Op1(name) \in OpPiece /\ Op(name) = <<Op1(name)>>
    BY DEF Op1, OpPiece, Op
  <2> QED BY <2>1, KindsOfOne DEF Pieces
<1>2. ASSUME NEW name \in Names, NEW l \in Low
      PROVE  /\ OpLow(name, l) \in OpPiece /\ OpReg(name, l) = <<OpLow(name, l)>>
             /\ OpReg(name, l) \in Seq(Pieces)
  <2>1. OpLow(name, l) \in OpPiece /\ OpReg(name, l) = <<OpLow(name, l)>>
    BY DEF OpLow, OpPiece, OpReg
  <2> QED BY <2>1, KindsOfOne DEF Pieces
<1>3. ASSUME NEW i \in -128..255
      PROVE  /\ Byte1(i) \in BytePiece /\ Emit8(i) = <<Byte1(i)>> /\ Emit8(i) \in Seq(Pieces)
             /\ Kinds(Emit8(i)) = <<"n1">>
  <2>1. Byte1(i) \in BytePiece /\ Emit8(i) = <<Byte1(i)>> /\ Byte1(i).k = "n1"
    BY DEF Byte1, BytePiece, Emit8
  <2> QED BY <2>1, KindsOfOne DEF Pieces
<1>4. ASSUME NEW i \in Int
      PROVE  /\ Long4(i) \in LongPiece /\ Emit32(i) = <<Long4(i)>> /\ Emit32(i) \in Seq(Pieces)
             /\ Kinds(Emit32(i)) = <<"n4">>
             /\ Long8(i) \in LongPiece /\ Emit64(i) = <<Long8(i)>> /\ Emit64(i) \in Seq(Pieces)
             /\ Kinds(Emit64(i)) = <<"n8">>
  <2>1. /\ Long4(i) \in LongPiece /\ Emit32(i) = <<Long4(i)>> /\ Long4(i).k = "n4"
        /\ Long8(i) \in LongPiece /\ Emit64(i) = <<Long8(i)>> /\ Long8(i).k = "n8"
    BY DEF Long4, Long8, LongPiece, Emit32, Emit64
  <2> QED BY <2>1, KindsOfOne DEF Pieces
<1>5. ASSUME NEW e \in Low, NEW r \in 0..15 PROVE ModRM(3, e, And7(r)) \in Seq(Pieces)
  <2> DEFINE p == [k |-> "modrm", mode |-> 3, reg |-> e, rm |-> And7(r)]
  <2>1. p \in Pieces
    BY Halves DEF Pieces, ModRMPiece
  <2>2. ModRM(3, e, And7(r)) = <<p>>
    BY DEF ModRM
  <2> HIDE DEF p
  <2> QED BY <2>1, <2>2, KindsOfOne
<1> QED BY <1>1, <1>2, <1>3, <1>4, <1>5

\* The opcodes of the encoders of one register.
LEMMA Shapes ==
  /\ Opcodes["set"] = Unary("set", "byte", <<>>)
  /\ Opcodes["unaryb"] = Unary("unaryb", "byte", <<>>)
  /\ Opcodes["mov_imm4"] = Unary("movimm", "general", <<"n4">>)
  /\ Opcodes["alu_imm1"] = Unary("aluimm", "general", <<"n1">>)
  /\ Opcodes["alu_imm4"] = Unary("aluimm", "general", <<"n4">>)
  /\ Opcodes["alub_imm1"] = Unary("alubimm", "byte", <<"n1">>)
  /\ Opcodes["shift_imm1"] = Unary("shift", "general", <<"n1">>)
  /\ Opcodes["shift_one"] = Unary("shift", "general", <<>>)
  /\ Opcodes["push"] = Shape("push", "none", "general", "low", <<>>)
  /\ Opcodes["movl_imm"] = Shape("movimm", "none", "general", "low", <<"n4">>)
  /\ Opcodes["movq_imm64"] = Shape("movimm", "none", "general", "low", <<"n8">>)
  /\ Opcodes["alu_rax_imm4"] = Shape("aluimm", "none", "general", "rax", <<"n4">>)
  /\ Opcodes["alub_rax_imm1"] = Shape("alubimm", "none", "byte", "rax", <<"n1">>)
  /\ {"set", "unaryb", "mov_imm4", "alu_imm1", "alu_imm4", "alub_imm1", "shift_imm1", "shift_one",
      "push", "movl_imm", "movq_imm64", "alu_rax_imm4", "alub_rax_imm1"} \subseteq Names
<1>1. /\ Opcodes["set"] = Unary("set", "byte", <<>>)
      /\ Opcodes["unaryb"] = Unary("unaryb", "byte", <<>>)
      /\ Opcodes["mov_imm4"] = Unary("movimm", "general", <<"n4">>)
      /\ Opcodes["alu_imm1"] = Unary("aluimm", "general", <<"n1">>)
      /\ Opcodes["alu_imm4"] = Unary("aluimm", "general", <<"n4">>)
      /\ Opcodes["alub_imm1"] = Unary("alubimm", "byte", <<"n1">>)
      /\ Opcodes["shift_imm1"] = Unary("shift", "general", <<"n1">>)
      /\ Opcodes["shift_one"] = Unary("shift", "general", <<>>)
  BY DEF Opcodes
<1>2. /\ Opcodes["push"] = Shape("push", "none", "general", "low", <<>>)
      /\ Opcodes["movl_imm"] = Shape("movimm", "none", "general", "low", <<"n4">>)
      /\ Opcodes["movq_imm64"] = Shape("movimm", "none", "general", "low", <<"n8">>)
      /\ Opcodes["alu_rax_imm4"] = Shape("aluimm", "none", "general", "rax", <<"n4">>)
      /\ Opcodes["alub_rax_imm1"] = Shape("alubimm", "none", "byte", "rax", <<"n1">>)
  BY DEF Opcodes
<1>3. {"set", "unaryb", "mov_imm4", "alu_imm1", "alu_imm4", "alub_imm1", "shift_imm1", "shift_one",
       "push", "movl_imm", "movq_imm64", "alu_rax_imm4", "alub_rax_imm1"} \subseteq DOMAIN Opcodes
  BY DEF Opcodes
<1> QED BY <1>1, <1>2, <1>3 DEF Names

\* The numbers they are taken to have.
LEMMA Values ==
  ASSUME NEW i \in Int
  PROVE  /\ Value("set", i) = 0 /\ Value("unaryb", i) = 0 /\ Value("push", i) = 0
         /\ Value("mov_imm4", i) = i /\ Value("alu_imm4", i) = i /\ Value("alub_imm1", i) = i
         /\ Value("shift_imm1", i) = i /\ Value("shift_one", i) = 1
         /\ Value("movl_imm", i) = i /\ Value("movq_imm64", i) = i
         /\ Value("alu_rax_imm4", i) = i /\ Value("alub_rax_imm1", i) = i
         /\ Value("alu_imm1", i) = IF i > 127 THEN i - 256 ELSE i
<1>1. <<"n1">> # <<"n4">> /\ <<"n1">> # <<"n8">> /\ <<>> # <<"n1">> /\ <<>> # <<"n4">> /\ <<>> # <<"n8">>
  OBVIOUS
<1> QED BY <1>1, Shapes DEF Value, Unary, Shape, Signed8

\* One register and no immediate.
LEMMA UnaryBareGood ==
  ASSUME NEW f \in BOOLEAN, NEW w \in Bits, NEW rm \in 0..15, NEW ext \in Low,
         NEW name \in Names, NEW does, NEW f2 \in {"general", "byte"},
         Opcodes[name] = Unary(does, f2, <<>>), does # "garbled", f2 = "byte" /\ rm \in 4..7 => f,
         NEW fn, Regular(fn), NEW v, v = Value(name, 0)
  PROVE  Good(Call(fn, Instr(does, w, File(f2, rm), NoOperand, v)),
              (OptionalRex(f, w, 0, 0, Msb(rm)) \o Op(name)) \o ModRM(3, ext, And7(rm)))
<1> DEFINE y == OptionalRex(f, w, 0, 0, Msb(rm))
           c == (y \o Op(name)) \o ModRM(3, ext, And7(rm))
           num == [k |-> "n4", n |-> 0]
           t == <<>>
<1>1. y \in Seq(Pieces) /\ Op(name) \in Seq(Pieces) /\ ModRM(3, ext, And7(rm)) \in Seq(Pieces)
  <2>1. Msb(rm) \in Bits /\ 0 \in Bits
    BY Halves DEF Bits
  <2> QED BY <2>1, OptionalRexIn, SinglePieces
<1>2. c = Run(y, Op(name), ModRM(3, ext, And7(rm)), t)
  <2> HIDE DEF y
  <2>1. c \in Seq(Pieces)
    BY <1>1, ConcatProperties
  <2>2. c = c \o <<>>
    BY <2>1, ConcatEmptySeq
  <2> QED BY <2>2 DEF Run
<1>3. num \in BytePiece \cup LongPiece /\ num.n = 0 /\ t \in {<<>>, <<num>>}
      /\ Opcodes[name] = Unary(does, f2, Kinds(t))
  BY KindsOfNone DEF LongPiece
<1>4. y = OptionalRex(f, w, 0, 0, Msb(rm))
  OBVIOUS
<1> HIDE DEF y, c, num, t
<1>5. Good(Call(fn, Instr(does, w, File(f2, rm), NoOperand, Value(name, num.n))), c)
  <2>1. ASSUME NEW u \in BytePiece \cup LongPiece, NEW s \in {<<>>, <<u>>},
               Opcodes[name] = Unary(does, f2, Kinds(s)), NEW k, k = Run(y, Op(name), ModRM(3, ext, And7(rm)), s)
        PROVE  Good(Call(fn, Instr(does, w, File(f2, rm), NoOperand, Value(name, u.n))), k)
    BY <1>4, <2>1, UnaryGood, ZenonT(30)
  <2> QED BY <1>2, <1>3, <2>1
<1> QED BY <1>3, <1>5 DEF c, y

\* The encoders of one register and no more.
LEMMA OneRegisterGood ==
  ASSUME NEW r \in 0..15, NEW w \in Bits
  PROVE  /\ Good(Call("setb_reg", Instr("set", 0, Byte(r), NoOperand, 0)),
                 OptionalRex(r \notin BasicRegs, 0, 0, 0, Msb(r)) \o Op("set") \o ModRM(3, 0, And7(r)))
         /\ Good(Call("pushq_reg", Instr("push", 0, Gp(r), NoOperand, 0)),
                 OptionalRex(FALSE, 0, 0, 0, Msb(r)) \o OpReg("push", And7(r)))
<1>0. 0 \in Bits /\ 0 \in Low
  BY DEF Bits, Low
<1>1. Good(Call("setb_reg", Instr("set", 0, Byte(r), NoOperand, 0)),
           OptionalRex(r \notin BasicRegs, 0, 0, 0, Msb(r)) \o Op("set") \o ModRM(3, 0, And7(r)))
  <2> DEFINE f == r \notin BasicRegs
  <2>1. f \in BOOLEAN /\ (r \in 4..7 => f)
    BY DEF BasicRegs
  <2>2. Regular("setb_reg")
    BY DEF Regular, ForgetsRex
  <2> HIDE DEF f
  <2>3. Good(Call("setb_reg", Instr("set", 0, File("byte", r), NoOperand, 0)),
             (OptionalRex(f, 0, 0, 0, Msb(r)) \o Op("set")) \o ModRM(3, 0, And7(r)))
    BY <1>0, <2>1, <2>2, Shapes, Values, UnaryBareGood, SMTT(30)
  <2> QED BY <2>3 DEF f, File, Byte
<1>2. Good(Call("pushq_reg", Instr("push", 0, Gp(r), NoOperand, 0)),
           OptionalRex(FALSE, 0, 0, 0, Msb(r)) \o OpReg("push", And7(r)))
  <2> DEFINE y == OptionalRex(FALSE, 0, 0, 0, Msb(r))
             z == RexFields(0, 0, 0, Msb(r))
             o == OpLow("push", And7(r))
             num == Long4(0)
             c == y \o OpReg("push", And7(r))
  <2>1. z.w = 0 /\ z.b = Msb(r) /\ o.op = "push" /\ o.low + 8 * z.b = r /\ num.n = 0
    BY Halves DEF RexFields, OpLow, Long4
  <2>2. MaybeRex(y, z) /\ y \in Seq(Pieces)
    <3>1. Msb(r) \in Bits /\ FALSE \in BOOLEAN
      BY Halves
    <3> QED BY <1>0, <3>1, OptionalRexIs, OptionalRexIn
  <2>3. o \in OpPiece /\ OpReg("push", And7(r)) = <<o>> /\ <<o>> \in Seq(Pieces)
    BY Halves, Shapes, SinglePieces
  <2>4. Regular("pushq_reg")
    BY DEF Regular, ForgetsRex
  <2>5. num \in BytePiece \cup LongPiece
    BY DEF Long4, LongPiece
  <2> HIDE DEF y, z, o, num
  <2>6. c = Laid(<<>>, y, o, <<>>)
    <3>1. y \o <<o>> \in Seq(Pieces)
      BY <2>2, <2>3, ConcatProperties
    <3> QED BY <2>3, <3>1, ConcatEmptySeq DEF Laid
  <2> HIDE DEF c
  <2>7. Opcodes["push"] = Shape("push", "none", "general", "low", Kinds(<<>>))
    BY Shapes, KindsOfNone
  <2>8. Good(Call("pushq_reg", Instr("push", z.w, File("general", r), NoOperand, Value("push", num.n))), c)
    <3>1. <<>> \in {<<>>, <<num>>}
      OBVIOUS
    <3>2. IF "low" = "low" THEN "general" = "general" /\ o.low + 8 * z.b = r ELSE r = RAX
      BY <2>1
    <3> QED BY <2>1, <2>2, <2>3, <2>4, <2>5, <2>6, <2>7, <3>1, <3>2, ImpliedGood
  <2>9. Value("push", num.n) = 0
    BY <2>1, Values
  <2> QED BY <2>1, <2>8, <2>9 DEF c, y, File, Gp
<1> QED BY <1>1, <1>2

\* A register in the opcode, or RAX, and an immediate.
LEMMA ImpliedImmGood ==
  ASSUME NEW f \in BOOLEAN, NEW w \in Bits, NEW b \in Bits, NEW o \in OpPiece, NEW name, o.op = name,
         NEW does, NEW f2 \in {"general", "byte"}, NEW dest \in {"low", "rax"}, does # "garbled",
         NEW num \in BytePiece \cup LongPiece, Opcodes[name] = Shape(does, "none", f2, dest, <<num.k>>),
         NEW n, IF dest = "low" THEN f2 = "general" /\ o.low + 8 * b = n ELSE n = RAX,
         NEW fn, Regular(fn)
  PROVE  Good(Call(fn, Instr(does, w, File(f2, n), NoOperand, Value(name, num.n))),
              (OptionalRex(f, w, 0, 0, b) \o <<o>>) \o <<num>>)
<1> DEFINE y == OptionalRex(f, w, 0, 0, b)
           z == RexFields(w, 0, 0, b)
           t == <<num>>
           c == (y \o <<o>>) \o t
<1>0. 0 \in Bits
  BY DEF Bits
<1>1. z.w = w /\ z.b = b
  BY DEF RexFields
<1>2. MaybeRex(y, z) /\ y \in Seq(Pieces)
  BY <1>0, OptionalRexIs, OptionalRexIn
<1>3. <<o>> \in Seq(Pieces) /\ t \in Seq(Pieces) /\ Kinds(t) = <<num.k>> /\ t \in {<<>>, <<num>>}
  <2>1. o \in Pieces /\ num \in Pieces
    BY DEF Pieces
  <2> QED BY <2>1, KindsOfOne
<1> HIDE DEF y, z, t
<1>4. c = Laid(<<>>, y, o, t)
  <2>1. c \in Seq(Pieces)
    <3>1. y \o <<o>> \in Seq(Pieces)
      BY <1>2, <1>3, ConcatProperties
    <3> QED BY <1>3, <3>1, ConcatProperties
  <2>2. c = <<>> \o c
    BY <2>1, ConcatEmptySeq
  <2> QED BY <2>2 DEF Laid
<1> HIDE DEF c
<1>5. Opcodes[name] = Shape(does, "none", f2, dest, Kinds(t))
  BY <1>3
<1>6. IF dest = "low" THEN f2 = "general" /\ o.low + 8 * z.b = n ELSE n = RAX
  BY <1>1
<1>7. Good(Call(fn, Instr(does, z.w, File(f2, n), NoOperand, Value(name, num.n))), c)
  BY <1>2, <1>3, <1>4, <1>5, <1>6, ImpliedGood
<1> QED BY <1>1, <1>7 DEF c, y, t

\* A register in ModRM and an immediate.
LEMMA UnaryImmGood ==
  ASSUME NEW f \in BOOLEAN, NEW w \in Bits, NEW rm \in 0..15, NEW ext \in Low,
         NEW name \in Names, NEW does, NEW f2 \in {"general", "byte"},
         NEW num \in BytePiece \cup LongPiece,
         Opcodes[name] = Unary(does, f2, <<num.k>>), does # "garbled", f2 = "byte" /\ rm \in 4..7 => f,
         NEW fn, Regular(fn)
  PROVE  Good(Call(fn, Instr(does, w, File(f2, rm), NoOperand, Value(name, num.n))),
              Run(OptionalRex(f, w, 0, 0, Msb(rm)), Op(name), ModRM(3, ext, And7(rm)), <<num>>))
<1> DEFINE t == <<num>>
           y == OptionalRex(f, w, 0, 0, Msb(rm))
           c == Run(y, Op(name), ModRM(3, ext, And7(rm)), t)
<1>1. t \in {<<>>, <<num>>} /\ Kinds(t) = <<num.k>>
  <2>1. num \in Pieces
    BY DEF Pieces
  <2> QED BY <2>1, KindsOfOne
<1>2. y = OptionalRex(f, w, 0, 0, Msb(rm)) /\ c = Run(y, Op(name), ModRM(3, ext, And7(rm)), t)
  OBVIOUS
<1> HIDE DEF t, y, c
<1>3. Opcodes[name] = Unary(does, f2, Kinds(t))
  BY <1>1
<1>4. Good(Call(fn, Instr(does, w, File(f2, rm), NoOperand, Value(name, num.n))), c)
  <2>1. ASSUME NEW u \in BytePiece \cup LongPiece, NEW s \in {<<>>, <<u>>},
               Opcodes[name] = Unary(does, f2, Kinds(s)), NEW k, k = Run(y, Op(name), ModRM(3, ext, And7(rm)), s)
        PROVE  Good(Call(fn, Instr(does, w, File(f2, rm), NoOperand, Value(name, u.n))), k)
    BY <1>2, <2>1, UnaryGood, ZenonT(30)
  <2> QED BY <1>1, <1>2, <1>3, <2>1
<1> QED BY <1>4 DEF c, y, t

\* The encoders of one register and an immediate.
MovlImm(r, i) == OptionalRex(FALSE, 0, 0, 0, Msb(r)) \o OpReg("movl_imm", And7(r)) \o Emit32(i)
MovqImm64(r, i) == Rex(1, 0, 0, Msb(r)) \o OpReg("movq_imm64", And7(r)) \o Emit64(i)
MovqImm(r, i) == Rex(1, 0, 0, Msb(r)) \o Op("mov_imm4") \o ModRM(3, 0, And7(r)) \o Emit32(i)
AluqImm(w, r, i) ==
  OptionalRex(FALSE, w, 0, 0, Msb(r))
    \o (IF FitsI8(i) THEN Op("alu_imm1") \o ModRM(3, 7, And7(r)) \o Emit8(i)
        ELSE IF r = RAX THEN Op("alu_rax_imm4") \o Emit32(i)
        ELSE Op("alu_imm4") \o ModRM(3, 7, And7(r)) \o Emit32(i))
AlubImm(r, i) ==
  IF r = RAX THEN Op("alub_rax_imm1") \o Emit8(i)
  ELSE OptionalRex(r \notin BasicRegs, 0, 0, 0, Msb(r))
         \o Op("alub_imm1") \o ModRM(3, 6, And7(r)) \o Emit8(i)
ShrImm(w, r, i) ==
  OptionalRex(FALSE, w, 0, 0, Msb(r))
    \o Op(IF i = 1 THEN "shift_one" ELSE "shift_imm1") \o ModRM(3, 5, And7(r))
    \o (IF i = 1 THEN <<>> ELSE Emit8(i))

\* A REX prefix that is emitted without being asked for.
LEMMA AlwaysRex ==
  ASSUME NEW r \in 0..15 PROVE Rex(1, 0, 0, Msb(r)) = OptionalRex(TRUE, 1, 0, 0, Msb(r))
BY DEF OptionalRex

\* emit_movl_imm_reg, emit_movq_imm64_reg and emit_movq_imm_reg.
LEMMA MoveImmGood ==
  ASSUME NEW r \in 0..15, NEW i \in Int
  PROVE  /\ Good(Call("movl_imm_reg", Instr("movimm", 0, Gp(r), NoOperand, i)), MovlImm(r, i))
         /\ Good(Call("movq_imm64_reg", Instr("movimm", 1, Gp(r), NoOperand, i)), MovqImm64(r, i))
         /\ Good(Call("movq_imm_reg", Instr("movimm", 1, Gp(r), NoOperand, i)), MovqImm(r, i))
<1>0. 0 \in Bits /\ 1 \in Bits /\ 0 \in Low /\ Msb(r) \in Bits /\ And7(r) \in Low /\ And7(r) + 8 * Msb(r) = r
  BY Halves DEF Bits, Low
<1>1. Good(Call("movl_imm_reg", Instr("movimm", 0, Gp(r), NoOperand, i)), MovlImm(r, i))
  <2> DEFINE o == OpLow("movl_imm", And7(r))
             num == Long4(i)
  <2>1. o \in OpPiece /\ OpReg("movl_imm", And7(r)) = <<o>> /\ num \in LongPiece /\ Emit32(i) = <<num>>
    BY <1>0, Shapes, SinglePieces
  <2>2. o.op = "movl_imm" /\ o.low = And7(r) /\ num.k = "n4" /\ num.n = i
    BY DEF OpLow, Long4
  <2>3. Regular("movl_imm_reg")
    BY DEF Regular, ForgetsRex
  <2>4. Opcodes["movl_imm"] = Shape("movimm", "none", "general", "low", <<"n4">>)
    BY Shapes
  <2>5. Value("movl_imm", i) = i
    BY Values
  <2>6. MovlImm(r, i) = (OptionalRex(FALSE, 0, 0, 0, Msb(r)) \o <<o>>) \o <<num>>
    BY <2>1 DEF MovlImm
  <2> HIDE DEF o, num
  <2>7. Good(Call("movl_imm_reg", Instr("movimm", 0, File("general", r), NoOperand, Value("movl_imm", num.n))),
             (OptionalRex(FALSE, 0, 0, 0, Msb(r)) \o <<o>>) \o <<num>>)
    <3>1. IF "low" = "low" THEN "general" = "general" /\ o.low + 8 * Msb(r) = r ELSE r = RAX
      BY <1>0, <2>2
    <3>2. num \in BytePiece \cup LongPiece /\ Opcodes["movl_imm"] = Shape("movimm", "none", "general", "low", <<num.k>>)
      BY <2>1, <2>2, <2>4
    <3> QED BY <1>0, <2>1, <2>2, <2>3, <3>1, <3>2, ImpliedImmGood
  <2> QED BY <2>2, <2>5, <2>6, <2>7 DEF File, Gp
<1>2. Good(Call("movq_imm64_reg", Instr("movimm", 1, Gp(r), NoOperand, i)), MovqImm64(r, i))
  <2> DEFINE o == OpLow("movq_imm64", And7(r))
             num == Long8(i)
  <2>1. o \in OpPiece /\ OpReg("movq_imm64", And7(r)) = <<o>> /\ num \in LongPiece /\ Emit64(i) = <<num>>
    BY <1>0, Shapes, SinglePieces
  <2>2. o.op = "movq_imm64" /\ o.low = And7(r) /\ num.k = "n8" /\ num.n = i
    BY DEF OpLow, Long8
  <2>3. Regular("movq_imm64_reg")
    BY DEF Regular, ForgetsRex
  <2>4. Opcodes["movq_imm64"] = Shape("movimm", "none", "general", "low", <<"n8">>)
    BY Shapes
  <2>5. Value("movq_imm64", i) = i
    BY Values
  <2>6. MovqImm64(r, i) = (OptionalRex(TRUE, 1, 0, 0, Msb(r)) \o <<o>>) \o <<num>>
    BY <2>1, AlwaysRex DEF MovqImm64
  <2> HIDE DEF o, num
  <2>7. Good(Call("movq_imm64_reg", Instr("movimm", 1, File("general", r), NoOperand, Value("movq_imm64", num.n))),
             (OptionalRex(TRUE, 1, 0, 0, Msb(r)) \o <<o>>) \o <<num>>)
    <3>1. IF "low" = "low" THEN "general" = "general" /\ o.low + 8 * Msb(r) = r ELSE r = RAX
      BY <1>0, <2>2
    <3>2. num \in BytePiece \cup LongPiece /\ Opcodes["movq_imm64"] = Shape("movimm", "none", "general", "low", <<num.k>>)
      BY <2>1, <2>2, <2>4
    <3> QED BY <1>0, <2>1, <2>2, <2>3, <3>1, <3>2, ImpliedImmGood
  <2> QED BY <2>2, <2>5, <2>6, <2>7 DEF File, Gp
<1>3. Good(Call("movq_imm_reg", Instr("movimm", 1, Gp(r), NoOperand, i)), MovqImm(r, i))
  <2> DEFINE num == Long4(i)
  <2>1. num \in BytePiece \cup LongPiece /\ Emit32(i) = <<num>>
    BY SinglePieces
  <2>2. num.k = "n4" /\ num.n = i
    BY DEF Long4
  <2>3. Regular("movq_imm_reg")
    BY DEF Regular, ForgetsRex
  <2>4. MovqImm(r, i) = Run(OptionalRex(TRUE, 1, 0, 0, Msb(r)), Op("mov_imm4"), ModRM(3, 0, And7(r)), <<num>>)
    BY <2>1, AlwaysRex DEF MovqImm, Run
  <2>5. Value("mov_imm4", i) = i
    BY Values
  <2> HIDE DEF num
  <2>6. "mov_imm4" \in Names /\ Opcodes["mov_imm4"] = Unary("movimm", "general", <<num.k>>)
    BY <2>2, Shapes
  <2>7. Good(Call("movq_imm_reg", Instr("movimm", 1, File("general", r), NoOperand, Value("mov_imm4", num.n))),
             Run(OptionalRex(TRUE, 1, 0, 0, Msb(r)), Op("mov_imm4"), ModRM(3, 0, And7(r)), <<num>>))
    BY <1>0, <2>1, <2>3, <2>6, UnaryImmGood
  <2> QED BY <2>2, <2>4, <2>5, <2>7 DEF File, Gp
<1> QED BY <1>1, <1>2, <1>3

\* emit_aluq_imm_reg: one of three opcodes, by the immediate and the register.
LEMMA AluqImmGood ==
  ASSUME NEW w \in Bits, NEW r \in 0..15, NEW i \in Int
  PROVE  Good(Call("aluq_imm_reg", Instr("aluimm", w, Gp(r), NoOperand, i)), AluqImm(w, r, i))
<1> DEFINE y == OptionalRex(FALSE, w, 0, 0, Msb(r))
<1>0. 0 \in Bits /\ 7 \in Low /\ Msb(r) \in Bits /\ (FitsI8(i) => i \in -128..255 /\ ~(i > 127))
  BY Halves DEF Bits, Low, FitsI8
<1>1. Regular("aluq_imm_reg")
  BY DEF Regular, ForgetsRex
<1>2. y \in Seq(Pieces) /\ ModRM(3, 7, And7(r)) \in Seq(Pieces)
  BY <1>0, OptionalRexIn, SinglePieces
<1>3. CASE FitsI8(i)
  <2> DEFINE num == Byte1(i)
  <2>1. num \in BytePiece \cup LongPiece /\ Emit8(i) = <<num>> /\ Emit8(i) \in Seq(Pieces)
    BY <1>0, <1>3, SinglePieces
  <2>2. num.k = "n1" /\ num.n = i
    BY DEF Byte1
  <2> HIDE DEF num
  <2>3. "alu_imm1" \in Names /\ Opcodes["alu_imm1"] = Unary("aluimm", "general", <<num.k>>)
    BY <2>2, Shapes
  <2>4. Op("alu_imm1") \in Seq(Pieces)
    BY <2>3, SinglePieces
  <2>5. Run(y, Op("alu_imm1"), ModRM(3, 7, And7(r)), Emit8(i)) = AluqImm(w, r, i)
    <3>1. Nested(y, Op("alu_imm1"), ModRM(3, 7, And7(r)), Emit8(i)) = AluqImm(w, r, i)
      BY <1>3 DEF AluqImm, Nested
    <3> HIDE DEF y
    <3>2. Run(y, Op("alu_imm1"), ModRM(3, 7, And7(r)), Emit8(i)) = Nested(y, Op("alu_imm1"), ModRM(3, 7, And7(r)), Emit8(i))
      BY <1>2, <2>1, <2>4, RunIsNested
    <3> QED BY <3>1, <3>2
  <2>6. Good(Call("aluq_imm_reg", Instr("aluimm", w, File("general", r), NoOperand, Value("alu_imm1", num.n))),
             Run(y, Op("alu_imm1"), ModRM(3, 7, And7(r)), <<num>>))
    BY <1>0, <1>1, <2>1, <2>3, UnaryImmGood
  <2>7. Value("alu_imm1", i) = i
    BY <1>0, <1>3, Values
  <2> QED BY <2>1, <2>2, <2>5, <2>6, <2>7 DEF File, Gp
<1>4. CASE ~FitsI8(i) /\ r = RAX
  <2> DEFINE o == Op1("alu_rax_imm4")
             num == Long4(i)
  <2>1. num \in BytePiece \cup LongPiece /\ Emit32(i) = <<num>>
    BY SinglePieces
  <2>2. num.k = "n4" /\ num.n = i /\ o.op = "alu_rax_imm4"
    BY DEF Long4, Op1
  <2>3. o \in OpPiece /\ Op("alu_rax_imm4") = <<o>>
    BY Shapes, SinglePieces
  <2> HIDE DEF num, o
  <2>4. Opcodes["alu_rax_imm4"] = Shape("aluimm", "none", "general", "rax", <<num.k>>)
    BY <2>2, Shapes
  <2>5. AluqImm(w, r, i) = (y \o <<o>>) \o <<num>>
    <3>1. AluqImm(w, r, i) = y \o (<<o>> \o <<num>>)
      BY <1>4, <2>1, <2>3 DEF AluqImm
    <3>2. o \in Pieces /\ num \in Pieces
      BY <2>1, <2>3 DEF Pieces
    <3>3. <<o>> \in Seq(Pieces) /\ <<num>> \in Seq(Pieces)
      BY <3>2, Short1
    <3> HIDE DEF y
    <3>4. (y \o <<o>>) \o <<num>> = y \o (<<o>> \o <<num>>)
      BY <1>2, <3>3, ConcatAssociative
    <3> QED BY <3>1, <3>4
  <2>6. Good(Call("aluq_imm_reg", Instr("aluimm", w, File("general", 0), NoOperand, Value("alu_rax_imm4", num.n))),
             (y \o <<o>>) \o <<num>>)
    <3>1. IF "rax" = "low" THEN "general" = "general" /\ o.low + 8 * Msb(r) = 0 ELSE 0 = RAX
      BY DEF RAX
    <3> QED BY <1>0, <1>1, <2>1, <2>2, <2>3, <2>4, <3>1, ImpliedImmGood
  <2>7. Value("alu_rax_imm4", i) = i
    BY Values
  <2> QED BY <1>4, <2>2, <2>5, <2>6, <2>7 DEF File, Gp, RAX
<1>5. CASE ~FitsI8(i) /\ r # RAX
  <2> DEFINE num == Long4(i)
  <2>1. num \in BytePiece \cup LongPiece /\ Emit32(i) = <<num>> /\ Emit32(i) \in Seq(Pieces)
    BY SinglePieces
  <2>2. num.k = "n4" /\ num.n = i
    BY DEF Long4
  <2> HIDE DEF num
  <2>3. "alu_imm4" \in Names /\ Opcodes["alu_imm4"] = Unary("aluimm", "general", <<num.k>>)
    BY <2>2, Shapes
  <2>4. Op("alu_imm4") \in Seq(Pieces)
    BY <2>3, SinglePieces
  <2>5. Run(y, Op("alu_imm4"), ModRM(3, 7, And7(r)), Emit32(i)) = AluqImm(w, r, i)
    <3>1. Nested(y, Op("alu_imm4"), ModRM(3, 7, And7(r)), Emit32(i)) = AluqImm(w, r, i)
      BY <1>5 DEF AluqImm, Nested
    <3> HIDE DEF y
    <3>2. Run(y, Op("alu_imm4"), ModRM(3, 7, And7(r)), Emit32(i)) = Nested(y, Op("alu_imm4"), ModRM(3, 7, And7(r)), Emit32(i))
      BY <1>2, <2>1, <2>4, RunIsNested
    <3> QED BY <3>1, <3>2
  <2>6. Good(Call("aluq_imm_reg", Instr("aluimm", w, File("general", r), NoOperand, Value("alu_imm4", num.n))),
             Run(y, Op("alu_imm4"), ModRM(3, 7, And7(r)), <<num>>))
    BY <1>0, <1>1, <2>1, <2>3, UnaryImmGood
  <2>7. Value("alu_imm4", i) = i
    BY Values
  <2> QED BY <2>1, <2>2, <2>5, <2>6, <2>7 DEF File, Gp
<1> QED BY <1>3, <1>4, <1>5

\* emit_alub_imm_reg: one of two opcodes.
LEMMA AlubImmGood ==
  ASSUME NEW r \in 0..15, NEW i \in 0..255
  PROVE  Good(Call("alub_imm_reg", Instr("alubimm", 0, Byte(r), NoOperand, i)), AlubImm(r, i))
<1> DEFINE num == Byte1(i)
<1>0. 0 \in Bits /\ 6 \in Low /\ Msb(r) \in Bits /\ i \in -128..255 /\ i \in Int
  BY Halves DEF Bits, Low
<1>1. Regular("alub_imm_reg")
  BY DEF Regular, ForgetsRex
<1>2. num \in BytePiece \cup LongPiece /\ Emit8(i) = <<num>>
  BY <1>0, SinglePieces
<1>3. num.k = "n1" /\ num.n = i
  BY DEF Byte1
<1> HIDE DEF num
<1>4. CASE r = RAX
  <2> DEFINE o == Op1("alub_rax_imm1")
             y == OptionalRex(FALSE, 0, 0, 0, 0)
  <2>1. o.op = "alub_rax_imm1" /\ o \in OpPiece /\ Op("alub_rax_imm1") = <<o>>
    BY Shapes, SinglePieces DEF Op1
  <2>2. y = <<>>
    BY DEF OptionalRex
  <2> HIDE DEF o, y
  <2>3. Opcodes["alub_rax_imm1"] = Shape("alubimm", "none", "byte", "rax", <<num.k>>)
    BY <1>3, Shapes
  <2>4. AlubImm(r, i) = (y \o <<o>>) \o <<num>>
    <3>1. AlubImm(r, i) = <<o>> \o <<num>>
      BY <1>2, <1>4, <2>1 DEF AlubImm
    <3>2. o \in Pieces
      BY <2>1 DEF Pieces
    <3>3. <<o>> \in Seq(Pieces)
      BY <3>2, Short1
    <3>4. y \o <<o>> = <<o>>
      BY <2>2, <3>3, ConcatEmptySeq
    <3> QED BY <3>1, <3>4
  <2>5. Good(Call("alub_imm_reg", Instr("alubimm", 0, File("byte", 0), NoOperand, Value("alub_rax_imm1", num.n))),
             (OptionalRex(FALSE, 0, 0, 0, 0) \o <<o>>) \o <<num>>)
    <3>1. IF "rax" = "low" THEN "byte" = "general" /\ o.low + 8 * 0 = 0 ELSE 0 = RAX
      BY DEF RAX
    <3> QED BY <1>0, <1>1, <1>2, <2>1, <2>3, <3>1, ImpliedImmGood
  <2>6. Value("alub_rax_imm1", i) = i
    BY <1>0, Values
  <2> QED BY <1>3, <1>4, <2>4, <2>5, <2>6 DEF File, Byte, RAX, y
<1>5. CASE r # RAX
  <2> DEFINE f == r \notin BasicRegs
  <2>1. f \in BOOLEAN /\ (r \in 4..7 => f)
    BY DEF BasicRegs
  <2>2. AlubImm(r, i) = Run(OptionalRex(f, 0, 0, 0, Msb(r)), Op("alub_imm1"), ModRM(3, 6, And7(r)), <<num>>)
    BY <1>2, <1>5 DEF AlubImm, Run
  <2> HIDE DEF f
  <2>3. "alub_imm1" \in Names /\ Opcodes["alub_imm1"] = Unary("alubimm", "byte", <<num.k>>)
    BY <1>3, Shapes
  <2>4. Good(Call("alub_imm_reg", Instr("alubimm", 0, File("byte", r), NoOperand, Value("alub_imm1", num.n))),
             Run(OptionalRex(f, 0, 0, 0, Msb(r)), Op("alub_imm1"), ModRM(3, 6, And7(r)), <<num>>))
    BY <1>0, <1>1, <1>2, <2>1, <2>3, UnaryImmGood
  <2>5. Value("alub_imm1", i) = i
    BY <1>0, Values
  <2> QED BY <1>3, <2>2, <2>4, <2>5 DEF File, Byte
<1> QED BY <1>4, <1>5

\* emit_shr_reg_imm: by one, there is no immediate.
LEMMA ShrImmGood ==
  ASSUME NEW w \in Bits, NEW r \in 0..15, NEW i \in 0..255
  PROVE  Good(Call("shr_reg_imm", Instr("shift", w, Gp(r), NoOperand, i)), ShrImm(w, r, i))
<1> DEFINE num == Byte1(i)
<1>0. 5 \in Low /\ i \in -128..255 /\ i \in Int /\ 0 \in Int
  BY DEF Low
<1>1. Regular("shr_reg_imm")
  BY DEF Regular, ForgetsRex
<1>2. num \in BytePiece \cup LongPiece /\ Emit8(i) = <<num>>
  BY <1>0, SinglePieces
<1>3. num.k = "n1" /\ num.n = i
  BY DEF Byte1
<1> HIDE DEF num
<1>4. CASE i = 1
  <2> DEFINE c == (OptionalRex(FALSE, w, 0, 0, Msb(r)) \o Op("shift_one")) \o ModRM(3, 5, And7(r))
  <2>1. Value("shift_one", 0) = 1
    BY <1>0, Values
  <2>2. Good(Call("shr_reg_imm", Instr("shift", w, File("general", r), NoOperand, 1)), c)
    <3>1. "shift_one" \in Names /\ Opcodes["shift_one"] = Unary("shift", "general", <<>>)
      BY Shapes
    <3> QED BY <1>0, <1>1, <2>1, <3>1, UnaryBareGood
  <2>3. c \in Seq(Pieces)
    BY <2>2 DEF Good
  <2>4. ShrImm(w, r, i) = c \o <<>>
    BY <1>4 DEF ShrImm
  <2> HIDE DEF c
  <2>5. ShrImm(w, r, i) = c
    BY <2>3, <2>4, ConcatEmptySeq
  <2> QED BY <1>4, <2>2, <2>5 DEF File, Gp
<1>5. CASE i # 1
  <2>1. ShrImm(w, r, i) = Run(OptionalRex(FALSE, w, 0, 0, Msb(r)), Op("shift_imm1"), ModRM(3, 5, And7(r)), <<num>>)
    BY <1>2, <1>5 DEF ShrImm, Run
  <2>2. "shift_imm1" \in Names /\ Opcodes["shift_imm1"] = Unary("shift", "general", <<num.k>>)
    BY <1>3, Shapes
  <2>3. Good(Call("shr_reg_imm", Instr("shift", w, File("general", r), NoOperand, Value("shift_imm1", num.n))),
             Run(OptionalRex(FALSE, w, 0, 0, Msb(r)), Op("shift_imm1"), ModRM(3, 5, And7(r)), <<num>>))
    BY <1>0, <1>1, <1>2, <2>2, UnaryImmGood
  <2>4. Value("shift_imm1", i) = i
    BY <1>0, Values
  <2> QED BY <1>3, <2>1, <2>3, <2>4 DEF File, Gp
<1> QED BY <1>4, <1>5

(***************************************************************************)
(* The encoders that the properties make an exception for.                 *)
(***************************************************************************)

\* What the properties except of an instruction whose operands are registers.
Excepted(fn, i, c) ==
  \/ /\ ForgetsRex(fn) /\ ~AnyRexOf(c)
     /\ \E x \in BytesOf(i) : x.n \in 4..7
  \/ /\ fn = "movb_reg_reg"
     /\ \/ Msb(i.dest.n) # Msb(i.src.n)
        \/ ~AnyRexOf(c) /\ i.dest.n \in 4..7
  \/ fn = "sse_reg_freg" /\ i.dest.n # i.src.n

\* A code in step is what the properties ask if it differs exactly where they say.
LEMMA Judged ==
  ASSUME NEW fn, fn # "sub_imm_mem", NEW c \in Seq(Pieces), c # <<>>, NEW op, op # "garbled", NEW w, NEW v,
         NEW f1, NEW n1, NEW f2, NEW n2, NEW d, NEW s,
         Executed(c) = Instr(op, w, d, s, v),
         NEW i, i = Instr(op, w, File(f1, n1), File(f2, n2), v),
         ~(d = File(f1, n1) /\ s = File(f2, n2)) <=> Excepted(fn, i, c)
  PROVE  Good(Call(fn, i), c)
<1>1. \A f, n : "base" \notin DOMAIN File(f, n)
  BY DEF File, NoOperand
<1>2. i.dest = File(f1, n1) /\ i.src = File(f2, n2) /\ i.op = op
  BY DEF Instr
<1>3. AddressesOf(i) = {}
  BY <1>1, <1>2 DEF AddressesOf
<1>4. Executed(c) # Garbled
  BY DEF Garbled, Instr
<1>5. Executed(c) # i <=> Excepted(fn, i, c)
  BY DEF Instr
<1>6. InStepVerdict(fn, i, Executed(c))
  BY <1>3, <1>4 DEF InStepVerdict
<1>7. AsAskedVerdict(fn, i, c, Executed(c))
  BY <1>3, <1>5 DEF AsAskedVerdict, Excepted
<1> QED BY <1>6, <1>7 DEF Good, Call

\* A byte register is taken for another exactly without a REX prefix.
LEMMA ByteRegister ==
  ASSUME NEW n \in 0..15, NEW c
  PROVE  Register("byte", n, c) = File("byte", n) <=> ~(~HasRex(c) /\ n \in 4..7)
<1>1. CASE ~HasRex(c) /\ n \in 4..7
  <2>1. Register("byte", n, c) = High(n - 4)
    BY <1>1 DEF Register
  <2>2. High(n - 4).file # File("byte", n).file
    BY DEF High, File
  <2> QED BY <1>1, <2>1, <2>2
<1>2. CASE ~(~HasRex(c) /\ n \in 4..7)
  BY <1>2 DEF Register, File
<1> QED BY <1>1, <1>2

\* The byte register of an instruction with one.
LEMMA BytesIn ==
  ASSUME NEW i, NEW n, NEW f, f # "byte", NEW k,
         \/ i.dest = File(f, k) /\ i.src = File("byte", n)
         \/ i.dest = File("byte", n) /\ i.src = File(f, k)
  PROVE  BytesOf(i) = {File("byte", n)}
<1>1. "file" \in DOMAIN File("byte", n) /\ File("byte", n).file = "byte"
  BY DEF File
<1>2. File(f, k).file # "byte"
  BY DEF File, NoOperand
<1> QED BY <1>1, <1>2 DEF BytesOf

\* emit_movzx_byte forgets the REX prefix of registers 4 to 7.
LEMMA MovzxByteGood ==
  ASSUME NEW w \in Bits, NEW dest \in 0..15, NEW src \in 0..15
  PROVE  Good(Call("movzx_byte", Instr("movzx", w, Gp(dest), Byte(src), 0)),
              RegReg("movzx", FALSE, w, dest, src))
<1> DEFINE c == RegReg("movzx", FALSE, w, dest, src)
           i == Instr("movzx", w, Gp(dest), Byte(src), 0)
<1>1. Opcodes["movzx"] = Shape("movzx", "general", "byte", "reg", <<>>) /\ "movzx" \in Names
  BY DEF Opcodes, Names
<1>2. Moves(c, FALSE, w, "movzx", dest, src)
  <2>1. Moves(<<>> \o c, FALSE, w, "movzx", dest, src)
    <3>1. Opcodes["movzx"].dest \in {"reg", "rm"} /\ Opcodes["movzx"].imm = <<>> /\ <<>> \in {<<>>, Prefix}
      BY <1>1 DEF Shape
    <3> QED BY <1>1, <3>1, RegRegMoves
  <2> QED BY <1>1, <2>1, NoPrefix
<1> HIDE DEF c
<1>3. Register("general", dest, c) = File("general", dest)
  BY DEF Register, File
<1>4. Value("movzx", 0) = 0
  BY <1>1 DEF Value, Shape
<1>5. Executed(c) = Instr("movzx", w, File("general", dest), Register("byte", src, c), 0)
  BY <1>1, <1>2, <1>3, <1>4 DEF Moves, Shape
<1>6. i = Instr("movzx", w, File("general", dest), File("byte", src), 0)
  BY DEF File, Gp, Byte
<1>7. BytesOf(i) = {File("byte", src)} /\ File("byte", src).n = src
  <2>1. "general" # "byte" /\ i.dest = File("general", dest) /\ i.src = File("byte", src)
    BY <1>6 DEF Instr
  <2>2. BytesOf(i) = {File("byte", src)}
    BY <2>1, BytesIn
  <2> QED BY <2>2 DEF File
<1> HIDE DEF i
<1>8. Excepted("movzx_byte", i, c) <=> ~HasRex(c) /\ src \in 4..7
  BY <1>2, <1>7 DEF Excepted, ForgetsRex, Moves
<1>9. Good(Call("movzx_byte", i), c)
  BY <1>2, <1>5, <1>6, <1>8, ByteRegister, Judged DEF Moves
<1> QED BY <1>9 DEF c, i

\* emit_not_reg_byte forgets it, too.
LEMMA NotByteGood ==
  ASSUME NEW dest \in 0..15
  PROVE  Good(Call("not_reg_byte", Instr("unaryb", 0, Byte(dest), NoOperand, 0)),
              RegReg("unaryb", FALSE, 0, 2, dest))
<1> DEFINE c == RegReg("unaryb", FALSE, 0, 2, dest)
           i == Instr("unaryb", 0, Byte(dest), NoOperand, 0)
<1>0. 0 \in Bits /\ 2 \in 0..15
  BY DEF Bits
<1>1. Opcodes["unaryb"] = Unary("unaryb", "byte", <<>>) /\ "unaryb" \in Names
  BY Shapes
<1>2. Moves(c, FALSE, 0, "unaryb", 2, dest)
  <2>1. Moves(<<>> \o c, FALSE, 0, "unaryb", 2, dest)
    <3>1. Opcodes["unaryb"].dest \in {"reg", "rm"} /\ Opcodes["unaryb"].imm = <<>> /\ <<>> \in {<<>>, Prefix}
      BY <1>1 DEF Shape, Unary
    <3> QED BY <1>0, <1>1, <3>1, RegRegMoves
  <2> QED BY <1>0, <1>1, <2>1, NoPrefix
<1> HIDE DEF c
<1>3. Register("none", 2, c) = File("none", 0)
  BY DEF Register, File
<1>4. Value("unaryb", 0) = 0
  BY Values
<1>5. Executed(c) = Instr("unaryb", 0, Register("byte", dest, c), File("none", 0), 0)
  BY <1>1, <1>2, <1>3, <1>4 DEF Moves, Shape, Unary
<1>6. i = Instr("unaryb", 0, File("byte", dest), File("none", 0), 0)
  BY DEF File, Byte
<1>7. BytesOf(i) = {File("byte", dest)} /\ File("byte", dest).n = dest
  <2>1. "none" # "byte" /\ i.dest = File("byte", dest) /\ i.src = File("none", 0)
    BY <1>6 DEF Instr
  <2>2. BytesOf(i) = {File("byte", dest)}
    BY <2>1, BytesIn
  <2> QED BY <2>2 DEF File
<1> HIDE DEF i
<1>8. Excepted("not_reg_byte", i, c) <=> ~HasRex(c) /\ dest \in 4..7
  BY <1>2, <1>7 DEF Excepted, ForgetsRex, Moves
<1>9. Good(Call("not_reg_byte", i), c)
  BY <1>2, <1>5, <1>6, <1>8, ByteRegister, Judged DEF Moves
<1> QED BY <1>9 DEF c, i

\* sse_reg_freg exchanges its operands.
LEMMA SseRegFregGood ==
  ASSUME NEW w \in Bits, NEW dest \in 0..15, NEW src \in 0..15
  PROVE  Good(Call("sse_reg_freg", Instr("cvt", w, Gp(dest), Xmm(src), 0)),
              Prefix \o RegReg("general_from_xmm_store", FALSE, w, dest, src))
<1> DEFINE c == Prefix \o RegReg("general_from_xmm_store", FALSE, w, dest, src)
           i == Instr("cvt", w, Gp(dest), Xmm(src), 0)
<1>1. /\ Opcodes["general_from_xmm_store"] = Shape("cvt", "xmm", "general", "rm", <<>>)
      /\ "general_from_xmm_store" \in Names
  BY DEF Opcodes, Names
<1>2. Moves(c, FALSE, w, "general_from_xmm_store", dest, src)
  <2>1. /\ Opcodes["general_from_xmm_store"].dest \in {"reg", "rm"}
        /\ Opcodes["general_from_xmm_store"].imm = <<>> /\ Prefix \in {<<>>, Prefix}
    BY <1>1 DEF Shape
  <2> QED BY <1>1, <2>1, RegRegMoves
<1> HIDE DEF c
<1>3. Register("general", src, c) = File("general", src) /\ Register("xmm", dest, c) = File("xmm", dest)
  BY DEF Register, File
<1>4. Value("general_from_xmm_store", 0) = 0
  BY <1>1 DEF Value, Shape
<1>5. Executed(c) = Instr("cvt", w, File("general", src), File("xmm", dest), 0)
  BY <1>1, <1>2, <1>3, <1>4 DEF Moves, Shape
<1>6. i = Instr("cvt", w, File("general", dest), File("xmm", src), 0) /\ i.dest.n = dest /\ i.src.n = src
  BY DEF File, Gp, Xmm, Instr
<1> HIDE DEF i
<1>8. Excepted("sse_reg_freg", i, c) <=> dest # src
  BY <1>6 DEF Excepted, ForgetsRex
<1>9. ~(File("general", src) = File("general", dest) /\ File("xmm", dest) = File("xmm", src)) <=> dest # src
  <2>1. File("general", src).n = src /\ File("general", dest).n = dest
    BY DEF File
  <2> QED BY <2>1
<1>10. Good(Call("sse_reg_freg", i), c)
  BY <1>2, <1>5, <1>6, <1>8, <1>9, Judged DEF Moves
<1> QED BY <1>10 DEF c, i

\* A register put together from the halves of two is the one they come from only if
\* their high bits are the same.
LEMMA Mixed ==
  ASSUME NEW a \in 0..15, NEW b \in 0..15
  PROVE  /\ And7(a) + 8 * Msb(b) \in 0..15
         /\ And7(a) + 8 * Msb(b) = a <=> Msb(a) = Msb(b)
         /\ Msb(a) = 0 /\ Msb(b) = 0 => (a \in 4..7 <=> And7(a) + 8 * Msb(b) \in 4..7)
         /\ Msb(a) \in Bits /\ Msb(b) \in Bits
         /\ And7(a) \in Low /\ And7(b) \in Low
         /\ a \in BasicRegs => a \notin 4..7 /\ Msb(a) = 0
BY DEF And7, Msb, RIP, Bits, Low, BasicRegs

\* emit_movb_reg_reg exchanges the high bits of its operands.
LEMMA MovbGood ==
  ASSUME NEW dest \in 0..15, NEW src \in 0..15
  PROVE  Good(Call("movb_reg_reg", Instr("movb", 0, Byte(dest), Byte(src), 0)),
              OptionalRex(src \notin BasicRegs, 0, Msb(dest), 0, Msb(src))
                \o Op("movb_store") \o ModRM(3, And7(src), And7(dest)))
<1> DEFINE y == OptionalRex(src \notin BasicRegs, 0, Msb(dest), 0, Msb(src))
           z == RexFields(0, Msb(dest), 0, Msb(src))
           mo == ModRM(3, And7(src), And7(dest))
           c == (y \o Op("movb_store")) \o mo
           i == Instr("movb", 0, Byte(dest), Byte(src), 0)
           R == And7(src) + 8 * Msb(dest)
           M == And7(dest) + 8 * Msb(src)
           num == [k |-> "n4", n |-> 0]
<1>1. /\ Opcodes["movb_store"] = Shape("movb", "byte", "byte", "rm", <<>>)
      /\ "movb_store" \in Names
  BY DEF Opcodes, Names
<1>2. Msb(dest) \in Bits /\ Msb(src) \in Bits /\ And7(dest) \in Low /\ And7(src) \in Low /\ 0 \in Bits
  BY Mixed DEF Bits
<1>3. /\ MaybeRex(y, z) /\ y \in Seq(Pieces)
      /\ y = <<z>> <=> src \notin BasicRegs \/ 1 \in {0, Msb(dest), 0, Msb(src)}
  <2> DEFINE f == src \notin BasicRegs
  <2>1. f \in BOOLEAN
    OBVIOUS
  <2> HIDE DEF f, z
  <2>2. y = OptionalRex(f, 0, Msb(dest), 0, Msb(src)) /\ z = RexFields(0, Msb(dest), 0, Msb(src))
    BY DEF f, z
  <2> HIDE DEF y
  <2>3. /\ MaybeRex(y, z) /\ y \in Seq(Pieces)
        /\ y = <<z>> <=> f \/ 1 \in {0, Msb(dest), 0, Msb(src)}
    <3>1. ASSUME NEW g \in BOOLEAN, NEW a \in Bits, NEW b \in Bits
          PROVE  /\ MaybeRex(OptionalRex(g, 0, a, 0, b), RexFields(0, a, 0, b))
                 /\ OptionalRex(g, 0, a, 0, b) \in Seq(Pieces)
                 /\ OptionalRex(g, 0, a, 0, b) = <<RexFields(0, a, 0, b)>> <=> g \/ 1 \in {0, a, 0, b}
      BY <1>2, OptionalRexIs, OptionalRexIn
    <3> QED BY <1>2, <2>1, <2>2, <3>1
  <2> QED BY <2>3 DEF f
<1>4. z.w = 0 /\ z.r = Msb(dest) /\ z.x = 0 /\ z.b = Msb(src)
  BY DEF RexFields
<1>5. num \in BytePiece \cup LongPiece /\ num.n = 0 /\ <<>> \in {<<>>, <<num>>} /\ Kinds(<<>>) = <<>>
  BY KindsOfNone DEF LongPiece
<1>6. /\ Opcodes["movb_store"].dest = "rm" /\ Opcodes["movb_store"].imm = <<>>
      /\ Opcodes["movb_store"].does = "movb"
      /\ Opcodes["movb_store"].reg = "byte" /\ Opcodes["movb_store"].rm = "byte"
      /\ Value("movb_store", 0) = 0
  BY <1>1 DEF Shape, Value
<1>7. Works(c, y, z, "movb_store", Register("byte", R, c), Register("byte", M, c), 0)
  <2>1. c = Laid(<<>>, y, [k |-> "op", op |-> "movb_store"], mo \o <<>>)
    <3> DEFINE b == Op("movb_store")
    <3>1. b \in Seq(Pieces) /\ mo \in Seq(Pieces)
      <4>1. [k |-> "modrm", mode |-> 3, reg |-> And7(src), rm |-> And7(dest)] \in Pieces
        BY <1>2 DEF Pieces, ModRMPiece
      <4>2. mo \in Seq(Pieces)
        BY <4>1, KindsOfOne DEF ModRM
      <4> QED BY <1>1, <4>2, SinglePieces
    <3>2. Op("movb_store") = <<[k |-> "op", op |-> "movb_store"]>>
      BY DEF Op
    <3> HIDE DEF y, mo, b
    <3>3. (y \o b) \o mo \in Seq(Pieces)
      BY <1>3, <3>1, ConcatProperties
    <3>4. (y \o b) \o mo = <<>> \o ((y \o b) \o mo) /\ mo = mo \o <<>>
      BY <3>1, <3>3, ConcatEmptySeq
    <3> QED BY <3>2, <3>4 DEF Laid, b
  <2> HIDE DEF c, y, z, num
  <2>2. Works(c, y, z, "movb_store", Register(Opcodes["movb_store"].reg, And7(src) + 8 * z.r, c),
              Register(Opcodes["movb_store"].rm, And7(dest) + 8 * z.b, c), num.n)
    <3>1. c = Laid(<<>>, y, [k |-> "op", op |-> "movb_store"], ModRM(3, And7(src), And7(dest)) \o <<>>)
      BY <2>1
    <3>2. <<>> \in {<<>>, Prefix} /\ Kinds(<<>>) = Opcodes["movb_store"].imm
      BY <1>5, <1>6
    <3> QED BY <1>1, <1>2, <1>3, <1>4, <1>5, <1>6, <3>1, <3>2, ThroughRegisters
  <2> QED BY <1>4, <1>5, <1>6, <2>2
<1> HIDE DEF c, y, z, num, mo
<1>8. Executed(c) = Instr("movb", 0, Register("byte", M, c), Register("byte", R, c), 0)
  BY <1>4, <1>6, <1>7 DEF Works
<1>9. c \in Seq(Pieces) /\ c # <<>> /\ (AnyRexOf(c) <=> HasRex(c))
      /\ (HasRex(c) <=> src \notin BasicRegs \/ 1 \in {0, Msb(dest), 0, Msb(src)})
  BY <1>3, <1>7 DEF Works
<1>10. i = Instr("movb", 0, File("byte", dest), File("byte", src), 0) /\ i.dest.n = dest /\ i.src.n = src
  BY DEF File, Byte, Instr
<1> HIDE DEF i
<1>11. Excepted("movb_reg_reg", i, c) <=> Msb(dest) # Msb(src) \/ (~HasRex(c) /\ dest \in 4..7)
  BY <1>9, <1>10 DEF Excepted, ForgetsRex
<1>12. M \in 0..15 /\ R \in 0..15 /\ (M = dest <=> Msb(dest) = Msb(src)) /\ (R = src <=> Msb(dest) = Msb(src))
  BY Mixed
<1>13. \A n, k : File("byte", n) = File("byte", k) => n = k
  <2>1. \A n : File("byte", n).n = n
    BY DEF File
  <2> QED BY <2>1
<1>14. (Register("byte", M, c) = File("byte", dest) /\ Register("byte", R, c) = File("byte", src))
         <=> ~Excepted("movb_reg_reg", i, c)
  <2>1. CASE HasRex(c)
    <3>1. Register("byte", M, c) = File("byte", M) /\ Register("byte", R, c) = File("byte", R)
      BY <1>12, <2>1, ByteRegister
    <3>2. Register("byte", M, c) = File("byte", dest) <=> M = dest
      BY <1>13, <3>1
    <3> HIDE DEF M, R
    <3> QED BY <1>11, <1>12, <1>13, <2>1, <3>1, <3>2
  <2>2. CASE ~HasRex(c)
    <3>1. src \in BasicRegs /\ Msb(dest) = 0 /\ Msb(src) = 0
      BY <1>2, <1>9, <2>2 DEF Bits
    <3>2. M = dest /\ R = src /\ src \notin 4..7
      BY <1>12, <3>1, Mixed
    <3> HIDE DEF M, R
    <3>3. (Register("byte", dest, c) = File("byte", dest)) <=> dest \notin 4..7
      BY <2>2, ByteRegister
    <3>4. Register("byte", src, c) = File("byte", src)
      BY <3>2, ByteRegister
    <3> QED BY <1>11, <2>2, <3>1, <3>2, <3>3, <3>4
  <2> QED BY <2>1, <2>2
<1> HIDE DEF M, R
<1>15. Good(Call("movb_reg_reg", i), c)
  BY <1>8, <1>9, <1>10, <1>14, Judged
<1> QED BY <1>15 DEF c, i, y, mo

(***************************************************************************)
(* The encoders with an address.                                           *)
(***************************************************************************)

\* A register is taken for itself but for a byte register without its REX prefix.
LEMMA AnyRegister ==
  ASSUME NEW f \in {"general", "xmm", "byte", "none"}, NEW n \in 0..15, NEW c
  PROVE  Register(f, n, c) = File(f, n) <=> ~(f = "byte" /\ ~HasRex(c) /\ n \in 4..7)
<1>1. CASE f = "byte"
  BY <1>1, ByteRegister
<1>2. CASE f # "byte"
  BY <1>2 DEF Register, File
<1> QED BY <1>1, <1>2

\* The instruction with an address that is asked for.
LEMMA MemoryAsked ==
  ASSUME NEW m \in Where, NEW f, NEW n, NEW i,
         \/ i.dest = File(f, n) /\ i.src = m
         \/ i.dest = m /\ i.src = File(f, n)
  PROVE  /\ AddressesOf(i) = {m}
         /\ BytesOf(i) = IF f = "byte" THEN {File("byte", n)} ELSE {}
         /\ f = "byte" => File(f, n).n = n
<1>1. "base" \in DOMAIN m /\ "file" \notin DOMAIN m
  BY Addresses
<1>2. "base" \notin DOMAIN File(f, n) /\ "file" \in DOMAIN File(f, n) /\ File(f, n).file = f
  BY DEF File, NoOperand
<1>3. f = "byte" => File(f, n).n = n
  BY DEF File
<1>4. AddressesOf(i) = {m}
  BY <1>1, <1>2 DEF AddressesOf
<1>5. BytesOf(i) = IF f = "byte" THEN {File("byte", n)} ELSE {}
  BY <1>1, <1>2 DEF BytesOf
<1> QED BY <1>3, <1>4, <1>5

\* Encoders with an address.
Addresser(fn) == fn \notin {"movb_reg_reg", "sse_reg_freg", "sub_imm_mem"}

\* An instruction with a register and an address, and what becomes of it.
Pair(op, w, v, r, m, R, a, i, d) ==
  \/ i = Instr(op, w, r, m, v) /\ d = Instr(op, w, R, a, v)
  \/ i = Instr(op, w, m, r, v) /\ d = Instr(op, w, a, R, v)

\* An encoder whose address keeps its base.
LEMMA MemoryVerdict ==
  ASSUME NEW fn, Addresser(fn), NEW m \in Where, ~LosesBase(m), NEW f, NEW n, NEW c \in Seq(Pieces), c # <<>>,
         f = "byte" /\ ~AnyRexOf(c) /\ n \in 4..7 => ForgetsRex(fn),
         NEW a, a = m <=> m.index # RSP,
         NEW R, R = File(f, n) <=> ~(f = "byte" /\ ~AnyRexOf(c) /\ n \in 4..7),
         NEW op, op # "garbled", NEW w, NEW v,
         NEW i, NEW d, Executed(c) = d, Pair(op, w, v, File(f, n), m, R, a, i, d)
  PROVE  Good(Call(fn, i), c)
<1>1. \/ i.dest = File(f, n) /\ i.src = m
      \/ i.dest = m /\ i.src = File(f, n)
  BY DEF Instr, Pair
<1>2. /\ AddressesOf(i) = {m}
      /\ BytesOf(i) = IF f = "byte" THEN {File("byte", n)} ELSE {}
      /\ f = "byte" => File(f, n).n = n
  BY <1>1, MemoryAsked
<1>3. d # Garbled
  BY DEF Garbled, Instr, Pair
<1>4. d # i <=> ~(a = m /\ R = File(f, n))
  BY DEF Instr, Pair
<1>5. InStepVerdict(fn, i, d)
  BY <1>2, <1>3 DEF InStepVerdict, Addresser
<1>6. (\E x \in BytesOf(i) : x.n \in 4..7) <=> f = "byte" /\ n \in 4..7
  BY <1>2
<1>7. (\E x \in AddressesOf(i) : x.index = RSP) <=> m.index = RSP
  BY <1>2
<1>8. d # i <=> \/ m.index = RSP
                \/ f = "byte" /\ ~AnyRexOf(c) /\ n \in 4..7
  BY <1>4
<1>9. d # i <=> \/ \E x \in AddressesOf(i) : x.index = RSP
                \/ /\ ForgetsRex(fn) /\ ~AnyRexOf(c)
                   /\ \E x \in BytesOf(i) : x.n \in 4..7
  BY <1>6, <1>7, <1>8
<1>10. AsAskedVerdict(fn, i, c, d)
  BY <1>9 DEF AsAskedVerdict, Addresser
<1> QED BY <1>5, <1>10 DEF Good, Call

\* An encoder whose address loses its base.
LEMMA LostGood ==
  ASSUME NEW fn, Addresser(fn), NEW m \in Where, LosesBase(m), NEW f, NEW n, NEW c \in Seq(Pieces), c # <<>>,
         Executed(c) = Garbled, NEW i,
         \/ i.dest = File(f, n) /\ i.src = m
         \/ i.dest = m /\ i.src = File(f, n)
  PROVE  Good(Call(fn, i), c)
<1>1. AddressesOf(i) = {m}
  BY MemoryAsked
<1>2. InStepVerdict(fn, i, Garbled) /\ AsAskedVerdict(fn, i, c, Garbled)
  BY <1>1 DEF InStepVerdict, AsAskedVerdict
<1> QED BY <1>2 DEF Good, Call

\* An encoder with an address, whichever it is.
LEMMA MemoryGood ==
  ASSUME NEW fn, Addresser(fn), NEW m \in Where, NEW f \in BOOLEAN, NEW w \in Bits, NEW reg \in 0..15,
         NEW name, NEW n, NEW c, Reaches(c, f, w, name, reg, m, n),
         NEW does, does # "garbled", NEW f1 \in {"general", "xmm", "byte", "none"}, NEW f2, NEW imm,
         NEW dest \in {"reg", "rm"}, Opcodes[name] = Shape(does, f1, f2, dest, imm),
         f1 = "byte" => ForgetsRex(fn) \/ (reg \in 4..7 => f)
  PROVE  Good(Call(fn, Instr(does, w, IF dest = "reg" THEN File(f1, reg) ELSE m,
                             IF dest = "reg" THEN m ELSE File(f1, reg), Value(name, n))), c)
<1> DEFINE i == Instr(does, w, IF dest = "reg" THEN File(f1, reg) ELSE m,
                      IF dest = "reg" THEN m ELSE File(f1, reg), Value(name, n))
           R == Register(f1, reg, c)
<1>1. Opcodes[name].does = does /\ Opcodes[name].reg = f1 /\ Opcodes[name].dest = dest
  BY DEF Shape
<1>2. c \in Seq(Pieces) /\ c # <<>>
  BY DEF Reaches
<1>3. CASE LosesBase(m)
  <2>1. \/ i.dest = File(f1, reg) /\ i.src = m
        \/ i.dest = m /\ i.src = File(f1, reg)
    BY DEF Instr
  <2>2. Executed(c) = Garbled
    BY <1>3 DEF Reaches
  <2> HIDE DEF i
  <2>3. Good(Call(fn, i), c)
    BY <1>2, <1>3, <2>1, <2>2, LostGood
  <2> QED BY <2>3 DEF i
<1>4. CASE ~LosesBase(m)
  <2>1. PICK a : /\ a = m <=> m.index # RSP
                 /\ Executed(c) = Instr(does, w, IF dest = "reg" THEN R ELSE a,
                                        IF dest = "reg" THEN a ELSE R, Value(name, n))
    BY <1>1, <1>4 DEF Reaches
  <2>2. (HasRex(c) <=> f \/ 1 \in {w, Msb(reg), XBit(m), BBit(m)}) /\ (AnyRexOf(c) <=> HasRex(c))
    BY <1>4 DEF Reaches
  <2>3. R = File(f1, reg) <=> ~(f1 = "byte" /\ ~AnyRexOf(c) /\ reg \in 4..7)
    BY <2>2, AnyRegister
  <2>4. f1 = "byte" /\ ~AnyRexOf(c) /\ reg \in 4..7 => ForgetsRex(fn)
    BY <2>2
  <2> DEFINE d == Instr(does, w, IF dest = "reg" THEN R ELSE a, IF dest = "reg" THEN a ELSE R, Value(name, n))
  <2>5. Pair(does, w, Value(name, n), File(f1, reg), m, R, a, i, d)
    BY DEF Pair
  <2>6. Executed(c) = d
    BY <2>1
  <2> HIDE DEF i, d, R
  <2>7. Good(Call(fn, i), c)
    BY <1>2, <1>4, <2>1, <2>3, <2>4, <2>5, <2>6, MemoryVerdict
  <2> QED BY <2>7 DEF i
<1> QED BY <1>3, <1>4

\* An encoder of a register and an address.
LEMMA AddressGood ==
  ASSUME NEW h \in {<<>>, Prefix}, NEW f \in BOOLEAN, NEW w \in Bits, NEW reg \in 0..15, NEW m \in Where,
         NEW name \in Names, name # "shift_one", NEW does, does # "garbled",
         NEW f1 \in {"general", "xmm", "byte"}, NEW f2, NEW dest \in {"reg", "rm"},
         Opcodes[name] = Shape(does, f1, f2, dest, <<>>), NEW fn, Addresser(fn),
         f1 = "byte" => ForgetsRex(fn) \/ (reg \in 4..7 => f)
  PROVE  Good(Call(fn, Instr(does, w, IF dest = "reg" THEN File(f1, reg) ELSE m,
                             IF dest = "reg" THEN m ELSE File(f1, reg), 0)), h \o RegMem(name, f, w, reg, m))
<1> DEFINE num == [k |-> "n4", n |-> 0]
           c == h \o RegMem(name, f, w, reg, m)
<1>1. num \in BytePiece \cup LongPiece /\ num.n = 0
  BY DEF LongPiece
<1>2. Opcodes[name].dest \in {"reg", "rm"} /\ Opcodes[name].imm = <<>> /\ Value(name, 0) = 0
  BY DEF Shape, Value
<1> HIDE DEF num
<1>3. Reaches(c, f, w, name, reg, m, 0)
  BY <1>1, <1>2, RegMemForms
<1> HIDE DEF c
<1>4. Good(Call(fn, Instr(does, w, IF dest = "reg" THEN File(f1, reg) ELSE m,
                          IF dest = "reg" THEN m ELSE File(f1, reg), Value(name, 0))), c)
  BY <1>3, MemoryGood
<1> QED BY <1>2, <1>4 DEF c

\* Encoders that read memory, and those that write or compare it.
LEMMA LoadGood ==
  ASSUME NEW f \in BOOLEAN, NEW w \in Bits, NEW reg \in 0..15, NEW m \in Where,
         NEW name \in Names, name # "shift_one", NEW does, does # "garbled",
         NEW f1 \in {"general", "xmm", "byte"}, NEW f2,
         Opcodes[name] = Shape(does, f1, f2, "reg", <<>>), NEW fn, Addresser(fn),
         f1 = "byte" => ForgetsRex(fn) \/ (reg \in 4..7 => f)
  PROVE  /\ Good(Call(fn, Instr(does, w, File(f1, reg), m, 0)), RegMem(name, f, w, reg, m))
         /\ Good(Call(fn, Instr(does, w, File(f1, reg), m, 0)), Prefix \o RegMem(name, f, w, reg, m))
<1>1. ASSUME NEW h \in {<<>>, Prefix}
      PROVE  Good(Call(fn, Instr(does, w, IF "reg" = "reg" THEN File(f1, reg) ELSE m,
                                 IF "reg" = "reg" THEN m ELSE File(f1, reg), 0)), h \o RegMem(name, f, w, reg, m))
  BY AddressGood, ZenonT(30)
<1>2. <<>> \o RegMem(name, f, w, reg, m) = RegMem(name, f, w, reg, m)
  BY NoPrefix
<1> QED BY <1>1, <1>2

\* ... and those that write or compare it.
LEMMA StoreGood ==
  ASSUME NEW f \in BOOLEAN, NEW w \in Bits, NEW reg \in 0..15, NEW m \in Where,
         NEW name \in Names, name # "shift_one", NEW does, does # "garbled",
         NEW f1 \in {"general", "xmm", "byte"}, NEW f2,
         Opcodes[name] = Shape(does, f1, f2, "rm", <<>>), NEW fn, Addresser(fn),
         f1 = "byte" => ForgetsRex(fn) \/ (reg \in 4..7 => f)
  PROVE  /\ Good(Call(fn, Instr(does, w, m, File(f1, reg), 0)), RegMem(name, f, w, reg, m))
         /\ Good(Call(fn, Instr(does, w, m, File(f1, reg), 0)), Prefix \o RegMem(name, f, w, reg, m))
<1>1. ASSUME NEW h \in {<<>>, Prefix}
      PROVE  Good(Call(fn, Instr(does, w, IF "rm" = "reg" THEN File(f1, reg) ELSE m,
                                 IF "rm" = "reg" THEN m ELSE File(f1, reg), 0)), h \o RegMem(name, f, w, reg, m))
  BY AddressGood, ZenonT(30)
<1>2. <<>> \o RegMem(name, f, w, reg, m) = RegMem(name, f, w, reg, m)
  BY NoPrefix
<1> QED BY <1>1, <1>2

\* An encoder of an address and an immediate.
LEMMA AddressImmGood ==
  ASSUME NEW f \in BOOLEAN, NEW w \in Bits, NEW reg \in 0..15, NEW m \in Where,
         NEW name \in Names, NEW does, does # "garbled", NEW f2, NEW num \in BytePiece \cup LongPiece,
         Opcodes[name] = Unary(does, f2, <<num.k>>), NEW fn, Addresser(fn)
  PROVE  Good(Call(fn, Instr(does, w, m, NoOperand, Value(name, num.n))), RegMem(name, f, w, reg, m) \o <<num>>)
<1> DEFINE c == RegMem(name, f, w, reg, m) \o <<num>>
<1>1. /\ Opcodes[name].dest \in {"reg", "rm"} /\ Opcodes[name].imm = <<num.k>>
      /\ Opcodes[name] = Shape(does, "none", f2, "rm", <<num.k>>)
  BY DEF Shape, Unary
<1>2. Reaches(c, f, w, name, reg, m, num.n)
  BY <1>1, RegMemForms
<1> HIDE DEF c
<1>3. Good(Call(fn, Instr(does, w, IF "rm" = "reg" THEN File("none", reg) ELSE m,
                          IF "rm" = "reg" THEN m ELSE File("none", reg), Value(name, num.n))), c)
  BY <1>1, <1>2, MemoryGood
<1> QED BY <1>3 DEF c, File

\* The opcodes of the encoders with an address.
LEMMA MemoryShapes ==
  /\ Opcodes["mov_store"] = Shape("mov", "general", "general", "rm", <<>>)
  /\ Opcodes["mov_load"] = Shape("mov", "general", "general", "reg", <<>>)
  /\ Opcodes["lea"] = Shape("lea", "general", "general", "reg", <<>>)
  /\ Opcodes["movzx"] = Shape("movzx", "general", "byte", "reg", <<>>)
  /\ Opcodes["movb_store"] = Shape("movb", "byte", "byte", "rm", <<>>)
  /\ Opcodes["movb_load"] = Shape("movb", "byte", "byte", "reg", <<>>)
  /\ Opcodes["alu"] = Shape("alu", "general", "general", "rm", <<>>)
  /\ Opcodes["cmpb"] = Shape("cmpb", "byte", "byte", "rm", <<>>)
  /\ Opcodes["sse"] = Shape("sse", "xmm", "xmm", "reg", <<>>)
  /\ Opcodes["sse_store"] = Shape("sse", "xmm", "xmm", "rm", <<>>)
  /\ Opcodes["movb_imm1"] = Unary("movbimm", "byte", <<"n1">>)
  /\ {"mov_store", "mov_load", "lea", "movzx", "movb_store", "movb_load", "alu", "cmpb", "sse", "sse_store",
      "movb_imm1"} \subseteq Names
<1>1. /\ Opcodes["mov_store"] = Shape("mov", "general", "general", "rm", <<>>)
      /\ Opcodes["mov_load"] = Shape("mov", "general", "general", "reg", <<>>)
      /\ Opcodes["lea"] = Shape("lea", "general", "general", "reg", <<>>)
      /\ Opcodes["movzx"] = Shape("movzx", "general", "byte", "reg", <<>>)
      /\ Opcodes["movb_store"] = Shape("movb", "byte", "byte", "rm", <<>>)
      /\ Opcodes["movb_load"] = Shape("movb", "byte", "byte", "reg", <<>>)
  BY DEF Opcodes
<1>2. /\ Opcodes["alu"] = Shape("alu", "general", "general", "rm", <<>>)
      /\ Opcodes["cmpb"] = Shape("cmpb", "byte", "byte", "rm", <<>>)
      /\ Opcodes["sse"] = Shape("sse", "xmm", "xmm", "reg", <<>>)
      /\ Opcodes["sse_store"] = Shape("sse", "xmm", "xmm", "rm", <<>>)
      /\ Opcodes["movb_imm1"] = Unary("movbimm", "byte", <<"n1">>)
  BY DEF Opcodes
<1>3. {"mov_store", "mov_load", "lea", "movzx", "movb_store", "movb_load", "alu", "cmpb", "sse", "sse_store",
       "movb_imm1"} \subseteq DOMAIN Opcodes
  BY DEF Opcodes
<1> QED BY <1>1, <1>2, <1>3 DEF Names

\* The encoders of a register and an address, each of them.
LEMMA AddressersGood ==
  ASSUME NEW r \in 0..15, NEW m \in Where, NEW w \in Bits
  PROVE  /\ Good(Call("load_mem", Instr("movzx", 0, Gp(r), m, 0)), RegMem("movzx", FALSE, 0, r, m))
         /\ Good(Call("load_mem", Instr("mov", w, Gp(r), m, 0)), RegMem("mov_load", FALSE, w, r, m))
         /\ \A fn \in {"mov_reg_memq", "mov_reg_memindex"} :
              Good(Call(fn, Instr("mov", w, m, Gp(r), 0)), RegMem("mov_store", FALSE, w, r, m))
         /\ Good(Call("mov_reg_memq", Instr("movb", 0, m, Byte(r), 0)),
                 RegMem("movb_store", r \notin BasicRegs, 0, r, m))
         /\ Good(Call("mov_reg_memindex", Instr("movb", 0, m, Byte(r), 0)), RegMem("movb_store", FALSE, 0, r, m))
         /\ Good(Call("movb_memq_reg", Instr("movb", 0, Byte(r), m, 0)),
                 RegMem("movb_load", r \notin BasicRegs, 0, r, m))
         /\ Good(Call("mov_memindex_reg", Instr("movb", 0, Byte(r), m, 0)), RegMem("movb_load", FALSE, 0, r, m))
         /\ Good(Call("mov_ar", Instr("mov", w, Gp(r), m, 0)), RegMem("mov_load", FALSE, w, r, m))
         /\ Good(Call("cmp_mem", Instr("cmpb", 0, m, Byte(r), 0)), RegMem("cmpb", FALSE, 0, r, m))
         /\ Good(Call("cmp_mem", Instr("alu", w, m, Gp(r), 0)), RegMem("alu", FALSE, w, r, m))
         /\ Good(Call("lea", Instr("lea", 1, Gp(r), m, 0)), RegMem("lea", FALSE, 1, r, m))
         /\ Good(Call("sse_freg_mem", Instr("sse", 0, Xmm(r), m, 0)), Prefix \o RegMem("sse", FALSE, 0, r, m))
         /\ Good(Call("sse_store", Instr("sse", 0, m, Xmm(r), 0)), Prefix \o RegMem("sse_store", FALSE, 0, r, m))
<1>0. 0 \in Bits /\ 1 \in Bits
  BY DEF Bits
<1> DEFINE f == r \notin BasicRegs
<1>00. f \in BOOLEAN /\ (r \in 4..7 => f)
  BY DEF BasicRegs
<1> HIDE DEF f
<1>1. Good(Call("load_mem", Instr("movzx", 0, Gp(r), m, 0)), RegMem("movzx", FALSE, 0, r, m))
  <2>1. Addresser("load_mem")
    BY DEF Addresser, ForgetsRex
  <2>2. Good(Call("load_mem", Instr("movzx", 0, File("general", r), m, 0)), RegMem("movzx", FALSE, 0, r, m))
    BY <1>0, <1>00, <2>1, MemoryShapes, LoadGood
  <2> QED BY <2>2 DEF File, Gp
<1>2. Good(Call("load_mem", Instr("mov", w, Gp(r), m, 0)), RegMem("mov_load", FALSE, w, r, m))
  <2>1. Addresser("load_mem")
    BY DEF Addresser, ForgetsRex
  <2>2. Good(Call("load_mem", Instr("mov", w, File("general", r), m, 0)), RegMem("mov_load", FALSE, w, r, m))
    BY <1>0, <1>00, <2>1, MemoryShapes, LoadGood
  <2> QED BY <2>2 DEF File, Gp
<1>3. ASSUME NEW fn \in {"mov_reg_memq", "mov_reg_memindex"}
      PROVE  Good(Call(fn, Instr("mov", w, m, Gp(r), 0)), RegMem("mov_store", FALSE, w, r, m))
  <2>1. Addresser(fn)
    BY DEF Addresser, ForgetsRex
  <2>2. Good(Call(fn, Instr("mov", w, m, File("general", r), 0)), RegMem("mov_store", FALSE, w, r, m))
    BY <1>0, <1>00, <2>1, MemoryShapes, StoreGood
  <2> QED BY <2>2 DEF File, Gp
<1>4. Good(Call("mov_reg_memq", Instr("movb", 0, m, Byte(r), 0)), RegMem("movb_store", f, 0, r, m))
  <2>1. Addresser("mov_reg_memq") /\ (ForgetsRex("mov_reg_memq") \/ (r \in 4..7 => f))
    BY <1>00 DEF Addresser, ForgetsRex
  <2>2. Good(Call("mov_reg_memq", Instr("movb", 0, m, File("byte", r), 0)), RegMem("movb_store", f, 0, r, m))
    BY <1>0, <1>00, <2>1, MemoryShapes, StoreGood
  <2> QED BY <2>2 DEF File, Byte
<1>5. Good(Call("mov_reg_memindex", Instr("movb", 0, m, Byte(r), 0)), RegMem("movb_store", FALSE, 0, r, m))
  <2>1. Addresser("mov_reg_memindex") /\ (ForgetsRex("mov_reg_memindex") \/ (r \in 4..7 => FALSE))
    BY DEF Addresser, ForgetsRex
  <2>2. Good(Call("mov_reg_memindex", Instr("movb", 0, m, File("byte", r), 0)), RegMem("movb_store", FALSE, 0, r, m))
    BY <1>0, <1>00, <2>1, MemoryShapes, StoreGood
  <2> QED BY <2>2 DEF File, Byte
<1>6. Good(Call("movb_memq_reg", Instr("movb", 0, Byte(r), m, 0)), RegMem("movb_load", f, 0, r, m))
  <2>1. Addresser("movb_memq_reg") /\ (ForgetsRex("movb_memq_reg") \/ (r \in 4..7 => f))
    BY <1>00 DEF Addresser, ForgetsRex
  <2>2. Good(Call("movb_memq_reg", Instr("movb", 0, File("byte", r), m, 0)), RegMem("movb_load", f, 0, r, m))
    BY <1>0, <1>00, <2>1, MemoryShapes, LoadGood
  <2> QED BY <2>2 DEF File, Byte
<1>7. Good(Call("mov_memindex_reg", Instr("movb", 0, Byte(r), m, 0)), RegMem("movb_load", FALSE, 0, r, m))
  <2>1. Addresser("mov_memindex_reg") /\ (ForgetsRex("mov_memindex_reg") \/ (r \in 4..7 => FALSE))
    BY DEF Addresser, ForgetsRex
  <2>2. Good(Call("mov_memindex_reg", Instr("movb", 0, File("byte", r), m, 0)), RegMem("movb_load", FALSE, 0, r, m))
    BY <1>0, <1>00, <2>1, MemoryShapes, LoadGood
  <2> QED BY <2>2 DEF File, Byte
<1>8. Good(Call("mov_ar", Instr("mov", w, Gp(r), m, 0)), RegMem("mov_load", FALSE, w, r, m))
  <2>1. Addresser("mov_ar")
    BY DEF Addresser, ForgetsRex
  <2>2. Good(Call("mov_ar", Instr("mov", w, File("general", r), m, 0)), RegMem("mov_load", FALSE, w, r, m))
    BY <1>0, <1>00, <2>1, MemoryShapes, LoadGood
  <2> QED BY <2>2 DEF File, Gp
<1>9. Good(Call("cmp_mem", Instr("cmpb", 0, m, Byte(r), 0)), RegMem("cmpb", FALSE, 0, r, m))
  <2>1. Addresser("cmp_mem") /\ (ForgetsRex("cmp_mem") \/ (r \in 4..7 => FALSE))
    BY DEF Addresser, ForgetsRex
  <2>2. Good(Call("cmp_mem", Instr("cmpb", 0, m, File("byte", r), 0)), RegMem("cmpb", FALSE, 0, r, m))
    BY <1>0, <1>00, <2>1, MemoryShapes, StoreGood
  <2> QED BY <2>2 DEF File, Byte
<1>10. Good(Call("cmp_mem", Instr("alu", w, m, Gp(r), 0)), RegMem("alu", FALSE, w, r, m))
  <2>1. Addresser("cmp_mem")
    BY DEF Addresser, ForgetsRex
  <2>2. Good(Call("cmp_mem", Instr("alu", w, m, File("general", r), 0)), RegMem("alu", FALSE, w, r, m))
    BY <1>0, <1>00, <2>1, MemoryShapes, StoreGood
  <2> QED BY <2>2 DEF File, Gp
<1>11. Good(Call("lea", Instr("lea", 1, Gp(r), m, 0)), RegMem("lea", FALSE, 1, r, m))
  <2>1. Addresser("lea")
    BY DEF Addresser, ForgetsRex
  <2>2. Good(Call("lea", Instr("lea", 1, File("general", r), m, 0)), RegMem("lea", FALSE, 1, r, m))
    BY <1>0, <1>00, <2>1, MemoryShapes, LoadGood
  <2> QED BY <2>2 DEF File, Gp
<1>12. Good(Call("sse_freg_mem", Instr("sse", 0, Xmm(r), m, 0)), Prefix \o RegMem("sse", FALSE, 0, r, m))
  <2>1. Addresser("sse_freg_mem")
    BY DEF Addresser, ForgetsRex
  <2>2. Good(Call("sse_freg_mem", Instr("sse", 0, File("xmm", r), m, 0)), Prefix \o RegMem("sse", FALSE, 0, r, m))
    BY <1>0, <1>00, <2>1, MemoryShapes, LoadGood
  <2> QED BY <2>2 DEF File, Xmm
<1>13. Good(Call("sse_store", Instr("sse", 0, m, Xmm(r), 0)), Prefix \o RegMem("sse_store", FALSE, 0, r, m))
  <2>1. Addresser("sse_store")
    BY DEF Addresser, ForgetsRex
  <2>2. Good(Call("sse_store", Instr("sse", 0, m, File("xmm", r), 0)), Prefix \o RegMem("sse_store", FALSE, 0, r, m))
    BY <1>0, <1>00, <2>1, MemoryShapes, StoreGood
  <2> QED BY <2>2 DEF File, Xmm
<1> QED BY <1>1, <1>2, <1>3, <1>4, <1>5, <1>6, <1>7, <1>8, <1>9, <1>10, <1>11, <1>12, <1>13 DEF f

\* What they emit are pieces.
LEMMA RegMemIn ==
  ASSUME NEW f \in BOOLEAN, NEW w \in Bits, NEW reg \in 0..15, NEW name \in Names, NEW m \in Where
  PROVE  RegMem(name, f, w, reg, m) \in Seq(Pieces)
<1> DEFINE y == RexMem(f, w, reg, m)
           p == Op(name)
           d == MemPieces(reg, m)
<1>1. y \in Seq(Pieces)
  <2>1. Msb(reg) \in Bits /\ XBit(m) \in Bits /\ BBit(m) \in Bits
    BY Halves, Addresses
  <2>2. y = OptionalRex(f, w, Msb(reg), XBit(m), BBit(m))
    BY DEF RexMem, XBit, BBit
  <2> QED BY <2>1, <2>2, OptionalRexIn
<1>2. p \in Seq(Pieces) /\ d \in Seq(Pieces)
  BY SinglePieces, MemPiecesIn
<1>3. RegMem(name, f, w, reg, m) = (y \o p) \o d
  BY DEF RegMem
<1> HIDE DEF y, p, d
<1> QED BY <1>1, <1>2, <1>3, ConcatProperties

\* emit_movb_imm_memq and emit_movb_imm_memscaleq.
LEMMA MovbImmMemGood ==
  ASSUME NEW m \in Where, NEW i \in 0..255, NEW fn, fn \in {"movb_imm_memq", "movb_imm_memscaleq"}
  PROVE  Good(Call(fn, Instr("movbimm", 0, m, NoOperand, i)),
              RegMem("movb_imm1", FALSE, 0, 0, m) \o Emit8(i))
<1> DEFINE num == Byte1(i)
<1>1. num \in BytePiece \cup LongPiece /\ Emit8(i) = <<num>>
  <2>1. i \in -128..255
    OBVIOUS
  <2> QED BY <2>1, SinglePieces
<1>2. num.k = "n1" /\ num.n = i
  BY DEF Byte1
<1> HIDE DEF num
<1>3. Opcodes["movb_imm1"] = Unary("movbimm", "byte", <<num.k>>) /\ "movb_imm1" \in Names
  BY <1>2, MemoryShapes
<1>4. 0 \in Bits /\ 0 \in 0..15 /\ Addresser(fn)
  BY DEF Bits, Addresser
<1>5. Good(Call(fn, Instr("movbimm", 0, m, NoOperand, Value("movb_imm1", num.n))),
           RegMem("movb_imm1", FALSE, 0, 0, m) \o <<num>>)
  BY <1>1, <1>3, <1>4, AddressImmGood
<1>6. Value("movb_imm1", i) = i
  <2>1. <<"n1">> # <<>>
    OBVIOUS
  <2> QED BY <2>1, MemoryShapes DEF Value, Unary, Shape
<1> QED BY <1>1, <1>2, <1>5, <1>6

CmpOp(byte, i) == IF byte THEN "alub_imm1" ELSE IF FitsI8(i) THEN "alu_imm1" ELSE "alu_imm4"

\* emit_cmp_mem_imm, where it does not panic.
LEMMA CmpMemImmGood ==
  ASSUME NEW m \in Where, NEW w \in Bits, NEW i \in Int, NEW byte \in BOOLEAN, byte => FitsI8(i)
  PROVE  Good(Call("cmp_mem_imm", Instr(IF byte THEN "alubimm" ELSE "aluimm", w, m, NoOperand, i)),
              RegMem(CmpOp(byte, i), FALSE, w, 7, m) \o Number(i))
<1> DEFINE num == Num(i)
<1>1. num \in BytePiece \cup LongPiece /\ Number(i) = <<num>> /\ num.n = i
      /\ num.k = IF FitsI8(i) THEN "n1" ELSE "n4"
  BY NumberOf
<1> HIDE DEF num
<1>2. 7 \in 0..15 /\ Addresser("cmp_mem_imm")
  BY DEF Addresser
<1>3. ASSUME NEW name \in Names, NEW does, does # "garbled", NEW f2,
             Opcodes[name] = Unary(does, f2, <<num.k>>), Value(name, i) = i
      PROVE  Good(Call("cmp_mem_imm", Instr(does, w, m, NoOperand, i)), RegMem(name, FALSE, w, 7, m) \o <<num>>)
  <2>1. Good(Call("cmp_mem_imm", Instr(does, w, m, NoOperand, Value(name, num.n))),
             RegMem(name, FALSE, w, 7, m) \o <<num>>)
    BY <1>1, <1>2, <1>3, AddressImmGood
  <2> QED BY <1>1, <1>3, <2>1
<1>4. Value("alub_imm1", i) = i /\ Value("alu_imm4", i) = i /\ (FitsI8(i) => Value("alu_imm1", i) = i)
  <2>1. FitsI8(i) => ~(i > 127)
    BY DEF FitsI8
  <2> QED BY <2>1, Values
<1>5. CASE byte
  <2>1. CmpOp(byte, i) = "alub_imm1" /\ "alub_imm1" \in Names
        /\ Opcodes["alub_imm1"] = Unary("alubimm", "byte", <<num.k>>)
    BY <1>1, <1>5, Shapes DEF CmpOp
  <2> QED BY <1>1, <1>3, <1>4, <1>5, <2>1
<1>6. CASE ~byte /\ FitsI8(i)
  <2>1. CmpOp(byte, i) = "alu_imm1" /\ "alu_imm1" \in Names
        /\ Opcodes["alu_imm1"] = Unary("aluimm", "general", <<num.k>>)
    BY <1>1, <1>6, Shapes DEF CmpOp
  <2> QED BY <1>1, <1>3, <1>4, <1>6, <2>1
<1>7. CASE ~byte /\ ~FitsI8(i)
  <2>1. CmpOp(byte, i) = "alu_imm4" /\ "alu_imm4" \in Names
        /\ Opcodes["alu_imm4"] = Unary("aluimm", "general", <<num.k>>)
    BY <1>1, <1>7, Shapes DEF CmpOp
  <2> QED BY <1>1, <1>3, <1>4, <1>7, <2>1
<1> QED BY <1>5, <1>6, <1>7

SubImm(w, name, base, i) ==
  OptionalRex(FALSE, w, 0, 0, Msb(base)) \o Op(name) \o ModRM(0, 5, And7(base)) \o Emit8(i)

\* ModRM and an immediate, with and without a displacement.
LEMMA SmallKinds ==
  /\ (<<"modrm">> \o <<"n4">>) \o <<"n1">> # <<"modrm", "n1">>
  /\ (<<"modrm">> \o <<>>) \o <<"n1">> = <<"modrm", "n1">>
<1>1. "modrm" \in PieceKinds /\ "n4" \in PieceKinds /\ "n1" \in PieceKinds
  BY DEF PieceKinds
<1>2. /\ <<"modrm">> \o <<"n4">> = <<"modrm", "n4">> /\ <<"modrm">> \o <<>> = <<"modrm">>
      /\ <<"modrm", "n4">> \o <<"n1">> = <<"modrm", "n4", "n1">> /\ <<"modrm">> \o <<"n1">> = <<"modrm", "n1">>
  BY <1>1, ShortConcat
<1>3. <<"modrm", "n4", "n1">>[2] = "n4" /\ <<"modrm", "n1">>[2] = "n1"
  OBVIOUS
<1> QED BY <1>2, <1>3

\* What the processor makes of a ModRM byte of mode 0 and a number of one byte.
LEMMA BareAddress ==
  ASSUME NEW c, NEW y, NEW z, NEW o, NEW mo, NEW num, Opens(c, y, z, o, <<mo>> \o <<num>>),
         mo \in ModRMPiece, mo.mode = 0, num \in BytePiece, z.x \in Bits, z.b \in Bits,
         ShapeOf(c).dest = "rm", ShapeOf(c).imm = <<"n1">>
  PROVE  /\ InStep(c) <=> mo.rm \notin {4, 5}
         /\ mo.rm \notin {4, 5} => RmOperand(c) = Base(mo.rm + 8 * z.b, 0)
<1> DEFINE rest == <<mo>> \o <<num>>
<1>1. mo \in Pieces /\ num \in Pieces /\ mo.k = "modrm" /\ num.k = "n1"
  BY DEF Pieces, ModRMPiece, BytePiece
<1>2. rest[1] = mo /\ rest[2] = num /\ Len(rest) = 2 /\ rest \in Seq(Pieces)
  BY <1>1
<1>3. Kinds(rest) = <<"modrm", "n1">>
  <2>1. Kinds(rest) = <<"modrm">> \o <<"n1">>
    BY <1>1, KindsConcat, KindsOfOne
  <2>2. "modrm" \in PieceKinds /\ "n1" \in PieceKinds
    BY DEF PieceKinds
  <2> QED BY <2>1, <2>2, ShortConcat
<1> HIDE DEF rest
<1>4. Parts(c, o, rest) /\ RexOf(c).b = z.b
  BY DEF Opens, rest
<1>5. ModRMOf(c) = mo /\ HasModRM(c)
  BY <1>2, <1>4 DEF ModRMOf, Parts, HasModRM
<1>6. SubSeq(Kinds(c), OpAt(c) + 1, Len(c)) = <<"modrm", "n1">>
  BY <1>3, <1>4, PartKinds
<1>7. mo.rm \in 0..7
  BY DEF ModRMPiece, Low
<1>8. CASE mo.rm = 4
  <2>1. HasSib(c)
    BY <1>5, <1>8 DEF HasSib
  <2>2. <<"modrm", "n1">>[2] # "sib"
    OBVIOUS
  <2>3. ~InStep(c)
    BY <1>5, <1>6, <2>1, <2>2 DEF InStep
  <2> QED BY <1>8, <2>3
<1>9. CASE mo.rm = 5
  <2>1. ~HasSib(c)
    BY <1>5, <1>9 DEF HasSib
  <2>2. DispBytes(c) = <<"n4">>
    BY <1>5, <1>9, <2>1 DEF DispBytes, Baseless
  <2>4. ~InStep(c)
    BY <1>5, <1>6, <2>1, <2>2, SmallKinds DEF InStep
  <2> QED BY <1>9, <2>4
<1>10. CASE mo.rm \notin {4, 5}
  <2>1. ~HasSib(c) /\ ~Baseless(c)
    BY <1>5, <1>10 DEF HasSib, Baseless
  <2>2. DispBytes(c) = <<>>
    BY <1>5, <2>1 DEF DispBytes
  <2>4. InStep(c)
    BY <1>5, <1>6, <2>1, <2>2, SmallKinds DEF InStep
  <2>5. RmOperand(c) = Address(c)
    BY <1>5 DEF RmOperand
  <2>6. Address(c) = Base(mo.rm + 8 * z.b, 0)
    BY <1>4, <1>5, <2>1, <2>2 DEF Address, Base
  <2> QED BY <1>10, <2>4, <2>5, <2>6
<1> QED BY <1>8, <1>9, <1>10

\* emit_sub_imm_mem: in step unless its base needs more than ModRM.
LEMMA SubImmMemGood ==
  ASSUME NEW w \in Bits, NEW base \in 0..15, NEW i \in 0..255, NEW byte \in BOOLEAN
  PROVE  Good(Call("sub_imm_mem", Instr(IF byte THEN "alubimm" ELSE "aluimm", w, Base(base, 0), NoOperand, i)),
              SubImm(w, IF byte THEN "alub_imm1" ELSE "alu_imm1", base, i))
<1> DEFINE name == IF byte THEN "alub_imm1" ELSE "alu_imm1"
           does == IF byte THEN "alubimm" ELSE "aluimm"
           f2 == IF byte THEN "byte" ELSE "general"
           y == OptionalRex(FALSE, w, 0, 0, Msb(base))
           z == RexFields(w, 0, 0, Msb(base))
           mo == [k |-> "modrm", mode |-> 0, reg |-> 5, rm |-> And7(base)]
           num == Byte1(i)
           o == Op1(name)
           c == SubImm(w, name, base, i)
           asked == Instr(does, w, Base(base, 0), NoOperand, i)
<1>0. i \in -128..255 /\ i \in Int
  OBVIOUS
<1>1. name \in Names /\ Opcodes[name] = Shape(does, "none", f2, "rm", <<"n1">>)
  BY Shapes DEF Unary
<1>2. /\ Opcodes[name].does = does /\ Opcodes[name].reg = "none" /\ Opcodes[name].dest = "rm"
      /\ Opcodes[name].imm = <<"n1">>
  BY <1>1 DEF Shape
<1>3. Value(name, i) = IF ~byte /\ i > 127 THEN i - 256 ELSE i
  BY <1>0, Values
<1>4. Msb(base) \in Bits /\ 0 \in Bits /\ And7(base) \in Low /\ And7(base) + 8 * Msb(base) = base
  BY Halves DEF Bits
<1>5. MaybeRex(y, z) /\ y \in Seq(Pieces)
  BY <1>4, OptionalRexIs, OptionalRexIn
<1>6. z.w = w /\ z.x = 0 /\ z.b = Msb(base)
  BY DEF RexFields
<1>7. mo \in ModRMPiece /\ mo.mode = 0 /\ mo.rm = And7(base) /\ ModRM(0, 5, And7(base)) = <<mo>>
  BY <1>4 DEF ModRMPiece, Low, ModRM
<1>8. num \in BytePiece /\ num.n = i /\ num.k = "n1" /\ Emit8(i) = <<num>>
  BY <1>0, SinglePieces DEF Byte1
<1>9. o \in OpPiece /\ o.op = name /\ Op(name) = <<o>>
  BY <1>1, SinglePieces DEF Op1
<1> HIDE DEF name, does, y, z, mo, num, o
<1>10. mo \in Pieces /\ num \in Pieces /\ o \in Pieces
  BY <1>7, <1>8, <1>9 DEF Pieces
<1>11. /\ <<mo>> \in Seq(Pieces) /\ <<num>> \in Seq(Pieces) /\ <<o>> \in Seq(Pieces)
       /\ <<mo>> \o <<num>> \in Seq(Pieces) /\ Kinds(<<num>>) = <<"n1">>
  BY <1>8, <1>10, KindsOfOne
<1>12. c = Laid(<<>>, y, o, <<mo>> \o <<num>>)
  <2> DEFINE u == <<mo>>
             v == <<num>>
  <2>1. c = Run(y, <<o>>, u, v)
    BY <1>7, <1>8, <1>9 DEF SubImm, Run, y
  <2>2. u \in Seq(Pieces) /\ v \in Seq(Pieces)
    BY <1>11
  <2> HIDE DEF u, v
  <2>3. Run(y, <<o>>, u, v) = Laid(<<>>, y, o, u \o v)
    BY <1>5, <1>11, <2>2, LaidOf
  <2> QED BY <2>1, <2>3 DEF u, v
<1> HIDE DEF c
<1>13. Opens(c, y, z, o, <<mo>> \o <<num>>)
  <2>1. <<>> \in {<<>>, Prefix}
    OBVIOUS
  <2> DEFINE rest == <<mo>> \o <<num>>
  <2>2. rest \in Seq(Pieces) /\ c = Laid(<<>>, y, o, rest)
    BY <1>11, <1>12
  <2> HIDE DEF rest
  <2>3. Opens(c, y, z, o, rest)
    BY <1>5, <1>9, <2>1, <2>2, Layout
  <2> QED BY <2>3 DEF rest
<1>14. Parts(c, o, <<mo>> \o <<num>>)
  BY <1>13 DEF Opens
<1>15. ShapeOf(c) = Opcodes[name] /\ ImmOperand(c) = Value(name, i)
  <2> DEFINE u == <<mo>>
             v == <<num>>
             rest == u \o v
  <2>1. /\ u \in Seq(Pieces) /\ v \in {<<>>, <<num>>} /\ Parts(c, o, rest) /\ rest = u \o v
        /\ Kinds(v) = Opcodes[name].imm /\ num \in BytePiece \cup LongPiece
    BY <1>2, <1>8, <1>11, <1>14
  <2> HIDE DEF u, v, rest
  <2>2. ShapeOf(c) = Opcodes[name] /\ ImmOperand(c) = Value(name, num.n)
    BY <1>9, <2>1, Ends
  <2> QED BY <1>8, <2>2
<1>16. /\ InStep(c) <=> mo.rm \notin {4, 5}
       /\ mo.rm \notin {4, 5} => RmOperand(c) = Base(base, 0)
  BY <1>2, <1>4, <1>6, <1>7, <1>8, <1>13, <1>15, BareAddress
<1>17. mo.rm \in {4, 5} <=> base \in {RSP, RBP, R12, R13}
  BY <1>7, Halves
<1>18. c \in Seq(Pieces) /\ c # <<>>
  <2>1. c \in Seq(Pieces) /\ Len(c) # 0
    BY <1>11, <1>14 DEF Parts
  <2> QED BY <2>1
<1>19. SrcOperand(c) = NoOperand /\ DestOperand(c) = RmOperand(c) /\ RexOf(c).w = w
  BY <1>2, <1>6, <1>13, <1>15 DEF SrcOperand, DestOperand, RegOperand, Register, Opens
<1>20. /\ asked.dest = Base(base, 0) /\ asked.src = NoOperand /\ asked.op = does /\ asked.imm = i
       /\ Base(base, 0).index = None /\ Base(base, 0).base = base
  BY DEF Instr, Base
<1>21. AddressesOf(asked) = {Base(base, 0)}
  BY <1>20 DEF AddressesOf, Base, NoOperand
<1>22. ~LosesBase(Base(base, 0)) /\ None # RSP
  BY <1>20 DEF LosesBase, None, RSP
<1>23. CASE base \in {RSP, RBP, R12, R13}
  <2>1. Executed(c) = Garbled
    BY <1>16, <1>17, <1>23 DEF Executed
  <2>2. InStepVerdict("sub_imm_mem", asked, Garbled) /\ AsAskedVerdict("sub_imm_mem", asked, c, Garbled)
    BY <1>20, <1>23 DEF InStepVerdict, AsAskedVerdict
  <2> QED BY <1>18, <2>1, <2>2 DEF Good, Call, c, name, does
<1>24. CASE base \notin {RSP, RBP, R12, R13}
  <2> DEFINE d == Instr(does, w, Base(base, 0), NoOperand, Value(name, i))
  <2>1. Executed(c) = d
    BY <1>2, <1>15, <1>16, <1>17, <1>19, <1>24 DEF Executed
  <2>2. d # Garbled
    BY DEF Garbled, Instr, does
  <2>3. d # asked <=> Value(name, i) # i
    BY DEF Instr
  <2>4. Value(name, i) # i <=> asked.op = "aluimm" /\ asked.imm > 127
    BY <1>3, <1>20 DEF does
  <2> HIDE DEF d, asked
  <2>5. InStepVerdict("sub_imm_mem", asked, d)
    BY <1>20, <1>21, <1>22, <1>24, <2>2 DEF InStepVerdict
  <2>6. AsAskedVerdict("sub_imm_mem", asked, c, d)
    BY <1>20, <1>21, <1>22, <2>3, <2>4 DEF AsAskedVerdict, ForgetsRex
  <2>7. Good(Call("sub_imm_mem", asked), c)
    BY <1>18, <2>1, <2>5, <2>6 DEF Good, Call
  <2> QED BY <2>7 DEF c, name, does, asked
<1> QED BY <1>23, <1>24


(***************************************************************************)
(* The prefixes of VexEncoding.                                            *)
(***************************************************************************)

\* What is read out of the bytes of a prefix.
ReadsLong(n, n2, R, x, B, map, w, v, pp) ==
  /\ Inverted(n, 128) = R /\ Inverted(n, 64) = x /\ Inverted(n, 32) = B /\ n % 32 = map
  /\ n2 \div 128 = w /\ 15 - ((n2 \div 8) % 16) = v /\ n2 % 4 = pp

ReadsShort(n, R, v, pp) == Inverted(n, 128) = R /\ 15 - ((n \div 8) % 16) = v /\ n % 4 = pp

\* The second byte of a prefix of three.
LEMMA LongByte ==
  ASSUME NEW R \in Bits, NEW B \in Bits, NEW map \in 1..3, NEW n, n = (((255 - (4 * R + B)) * 32) % 256) + map
  PROVE  n \in 0..255 /\ Inverted(n, 128) = R /\ Inverted(n, 64) = 0 /\ Inverted(n, 32) = B /\ n % 32 = map
<1>1. n = 224 - 128 * R - 32 * B + map
  <2>1. CASE R = 0 /\ B = 0
    BY <2>1
  <2>2. CASE R = 0 /\ B = 1
    BY <2>2
  <2>3. CASE R = 1 /\ B = 0
    BY <2>3
  <2>4. CASE R = 1 /\ B = 1
    BY <2>4
  <2> QED BY <2>1, <2>2, <2>3, <2>4 DEF Bits
<1>2. CASE R = 0 /\ B = 0
  BY <1>1, <1>2 DEF Inverted
<1>3. CASE R = 0 /\ B = 1
  BY <1>1, <1>3 DEF Inverted
<1>4. CASE R = 1 /\ B = 0
  BY <1>1, <1>4 DEF Inverted
<1>5. CASE R = 1 /\ B = 1
  BY <1>1, <1>5 DEF Inverted
<1> QED BY <1>2, <1>3, <1>4, <1>5 DEF Bits

ReadsLast(n, w, v, pp) ==
  n \in Int /\ n \div 128 = w /\ 15 - ((n \div 8) % 16) = v /\ n % 4 = pp

\* The third byte of a prefix of three.
LEMMA LastByte ==
  ASSUME NEW w \in Bits, NEW v \in 0..15, NEW pp \in 0..3
  PROVE  ReadsLast(Vex3Byte2(w, v, pp), w, v, pp)
<1> DEFINE n == Vex3Byte2(w, v, pp)
<1>0. n = 128 * w + 8 * (15 - v) + pp
  BY DEF Vex3Byte2
<1> HIDE DEF n
<1>1. ASSUME w = 0 PROVE ReadsLast(n, w, v, pp)
  BY <1>0, <1>1 DEF ReadsLast
<1>2. ASSUME w = 1 PROVE ReadsLast(n, w, v, pp)
  BY <1>0, <1>2 DEF ReadsLast
<1>3. ReadsLast(n, w, v, pp)
  BY <1>1, <1>2 DEF Bits
<1> QED BY <1>3 DEF n

\* The second byte of a prefix of two.
LEMMA ShortByte ==
  ASSUME NEW reg \in 0..15, NEW v \in 0..15, NEW pp \in 0..3
  PROVE  Vex2Byte1(reg, v, pp) \in 0..255 /\ ReadsShort(Vex2Byte1(reg, v, pp), Msb(reg), v, pp)
<1> DEFINE n == Vex2Byte1(reg, v, pp)
           R == Msb(reg)
<1>0. n = (((255 - (16 * R + v)) * 8) % 256) + pp /\ R \in Bits
  BY Halves DEF Vex2Byte1
<1> HIDE DEF n, R
<1>1. ASSUME R = 0 PROVE n \in 0..255 /\ ReadsShort(n, R, v, pp)
  <2>1. n = 8 * (31 - v) + pp
    BY <1>0, <1>1
  <2> QED BY <1>1, <2>1 DEF ReadsShort, Inverted
<1>2. ASSUME R = 1 PROVE n \in 0..255 /\ ReadsShort(n, R, v, pp)
  <2>1. n = 8 * (15 - v) + pp
    BY <1>0, <1>2
  <2> QED BY <1>2, <2>1 DEF ReadsShort, Inverted
<1>3. n \in 0..255 /\ ReadsShort(n, R, v, pp)
  BY <1>0, <1>1, <1>2 DEF Bits
<1> QED BY <1>3 DEF n, R

\* A prefix holds these fields.
Holds(p, R, x, B, map, w, v, pp) ==
  /\ p \in VexPiece
  /\ IF p.k = "vex3" THEN ReadsLong(p.n, p.n2, R, x, B, map, w, v, pp)
     ELSE ReadsShort(p.n, R, v, pp) /\ x = 0 /\ B = 0 /\ map = None0F /\ w = 0

\* The prefix for registers is read as the fields it was given.
LEMMA PrefixHolds ==
  ASSUME NEW reg \in 0..15, NEW rm \in 0..15, NEW v \in 0..15, NEW pp \in 0..3, NEW map \in 1..3, NEW w \in Bits
  PROVE  \E p : VexPrefix(reg, v, rm, pp, map, w) = <<p>> /\ Holds(p, Msb(reg), 0, Msb(rm), map, w, v, pp)
<1>1. Msb(reg) \in Bits /\ Msb(rm) \in Bits
  BY Halves
<1>2. CASE Msb(rm) # 0 \/ map # None0F \/ w # 0
  <2> DEFINE n == Vex3Byte1Reg(reg, rm, map)
             n2 == Vex3Byte2(w, v, pp)
             p == [k |-> "vex3", n |-> n, n2 |-> n2]
  <2>1. n \in 0..255 /\ Inverted(n, 128) = Msb(reg) /\ Inverted(n, 64) = 0 /\ Inverted(n, 32) = Msb(rm)
        /\ n % 32 = map
    <3>1. n = (((255 - (4 * Msb(reg) + Msb(rm))) * 32) % 256) + map
      BY DEF Vex3Byte1Reg
    <3> HIDE DEF n
    <3> QED BY <1>1, <3>1, LongByte
  <2>2. n2 \in Int /\ n2 \div 128 = w /\ 15 - ((n2 \div 8) % 16) = v /\ n2 % 4 = pp
    BY LastByte DEF ReadsLast
  <2>3. VexPrefix(reg, v, rm, pp, map, w) = <<p>>
    BY <1>2 DEF VexPrefix, Vex3
  <2> HIDE DEF n, n2
  <2>4. Holds(p, Msb(reg), 0, Msb(rm), map, w, v, pp)
    BY <2>1, <2>2 DEF Holds, ReadsLong, VexPiece
  <2> QED BY <2>3, <2>4
<1>3. CASE ~(Msb(rm) # 0 \/ map # None0F \/ w # 0)
  <2> DEFINE n == Vex2Byte1(reg, v, pp)
             p == [k |-> "vex2", n |-> n]
  <2>1. n \in 0..255 /\ ReadsShort(n, Msb(reg), v, pp)
    BY ShortByte
  <2>2. VexPrefix(reg, v, rm, pp, map, w) = <<p>>
    BY <1>3 DEF VexPrefix, Vex2
  <2> HIDE DEF n
  <2>3. Holds(p, Msb(reg), 0, Msb(rm), map, w, v, pp)
    BY <1>3, <2>1 DEF Holds, VexPiece
  <2> QED BY <2>2, <2>3
<1> QED BY <1>2, <1>3

\* A prefix whose map is none of those there are.
NoMap(c, p) == c = <<p>> /\ p.k = "vex3" /\ p.n % 32 \in 8..15

\* The prefix for an address has the bits of a REX byte in the field of the map.
LEMMA MemPrefix ==
  ASSUME NEW reg \in 0..15, NEW m \in Where, NEW v \in 0..15, NEW pp \in 0..3, NEW map \in 1..3, NEW w \in Bits
  PROVE  \E p \in VexPiece : NoMap(VexPrefixMem(reg, v, m, pp, map, w), p)
<1> DEFINE n == Vex3Byte1Mem(reg, m, map)
           n2 == Vex3Byte2(w, v, pp)
           p == [k |-> "vex3", n |-> n, n2 |-> n2]
           u == Or(2 * XBit(m) + BBit(m), map)
<1>1. Msb(reg) \in Bits
  BY Halves
<1>2. u \in 0..3
  BY DEF Or
<1>3. n = 64 + 8 + 4 * Msb(reg) + u
  BY DEF Vex3Byte1Mem, XBit, BBit
<1> HIDE DEF u
<1>4. n \in 72..79
  BY <1>1, <1>2, <1>3 DEF Bits
<1> HIDE DEF n
<1>5. n \in 0..255 /\ n % 32 \in 8..15
  BY <1>4
<1>6. n2 \in Int
  BY DEF Vex3Byte2, Bits
<1>7. VexPrefixMem(reg, v, m, pp, map, w) = <<p>>
  BY DEF VexPrefixMem, Vex3, n
<1> HIDE DEF n2
<1>8. p \in VexPiece /\ p.k = "vex3" /\ p.n = n
  BY <1>5, <1>6 DEF VexPiece
<1> QED BY <1>5, <1>7, <1>8 DEF NoMap

(***************************************************************************)
(* The encoders between registers.                                         *)
(***************************************************************************)

\* The third of three.
LEMMA ThirdOnly ==
  ASSUME NEW p, NEW q, NEW r
  PROVE  SubSeq(<<p, q, r>>, 3, 3) = <<r>>
<1> DEFINE c == <<p, q, r>>
<1>1. Len(c) = 3 /\ c[3] = r
  OBVIOUS
<1>2. SubSeq(c, 3, 3) = [i \in 1..1 |-> c[i + 2]]
  OBVIOUS
<1>3. <<r>> = [i \in 1..1 |-> r]
  OBVIOUS
<1> HIDE DEF c
<1>4. \A i \in 1..1 : c[i + 2] = r
  BY <1>1
<1>5. [i \in 1..1 |-> c[i + 2]] = [i \in 1..1 |-> r]
  BY <1>4
<1> QED BY <1>2, <1>3, <1>5 DEF c

\* A prefix, an opcode and the ModRM byte of two registers.
Triple(p, name, lr, lm) == <<p, Op1(name), [k |-> "modrm", mode |-> 3, reg |-> lr, rm |-> lm]>>

\* An opcode between registers that no REX prefix changes.
Between(like, does, f1, f2, dest) ==
  /\ like \in Names /\ Opcodes[like] = Shape(does, f1, f2, dest, <<>>) /\ does # "garbled"
  /\ f1 \in {"general", "xmm"} /\ f2 \in {"general", "xmm"} /\ dest \in {"reg", "rm"}

\* A code of two registers as its REX counterpart.
\* ... and what its REX counterpart is taken for.
Takes(c, f1, f2, dest, n1, n2) ==
  /\ InStep(Plain(c))
  /\ DestOperand(Plain(c)) = IF dest = "reg" THEN File(f1, n1) ELSE File(f2, n2)
  /\ SrcOperand(Plain(c)) = IF dest = "reg" THEN File(f2, n2) ELSE File(f1, n1)

\* The two registers of ModRM, with the high bits of the prefix.
LEMMA PlainRegisters ==
  ASSUME NEW R \in Bits, NEW B \in Bits, NEW w \in Bits, NEW lr \in Low, NEW lm \in Low,
         NEW name \in DOMAIN VexOpcodes, NEW p, NEW c, NEW does, NEW f1, NEW f2, NEW dest, NEW like,
         Between(like, does, f1, f2, dest), VexOpcodes[name].like = like, c = Triple(p, name, lr, lm),
         VexOf(c).r = R, VexOf(c).x = 0, VexOf(c).b = B, VexOf(c).w = w
  PROVE  Takes(c, f1, f2, dest, lr + 8 * R, lm + 8 * B)
<1> DEFINE z == RexFields(w, R, 0, B)
           mo == [k |-> "modrm", mode |-> 3, reg |-> lr, rm |-> lm]
           num == [k |-> "n4", n |-> 0]
           o == [k |-> "op", op |-> like]
           q == Plain(c)
           y == <<z>>
<1>0. /\ like \in Names /\ Opcodes[like] = Shape(does, f1, f2, dest, <<>>) /\ does # "garbled"
      /\ f1 \in {"general", "xmm"} /\ f2 \in {"general", "xmm"} /\ dest \in {"reg", "rm"}
  BY DEF Between
<1>1. z.w = w /\ z.r = R /\ z.x = 0 /\ z.b = B /\ z \in RexPiece
  BY DEF RexFields, RexPiece, Bits
<1>2. MaybeRex(y, z)
  <2>1. <<z>> # <<>>
    OBVIOUS
  <2> HIDE DEF z
  <2> QED BY <1>1, <2>1 DEF MaybeRex
<1>3. mo \in Pieces /\ z \in Pieces /\ o \in Pieces
  BY <1>0, <1>1 DEF Pieces, ModRMPiece, OpPiece
<1>4. VexShapeOf(c).like = like
  BY DEF VexShapeOf, Op1, Triple
<1>5. SubSeq(c, 3, Len(c)) = <<mo>>
  <2>1. Len(c) = 3 /\ c = <<p, Op1(name), mo>>
    BY DEF Triple
  <2> HIDE DEF mo
  <2> QED BY <2>1, ThirdOnly
<1>6. Rex(VexOf(c).w, VexOf(c).r, VexOf(c).x, VexOf(c).b) = y /\ Op(like) = <<o>> /\ ModRM(3, lr, lm) = <<mo>>
  BY DEF Rex, RexFields, Op, ModRM
<1>7. q = (y \o <<o>>) \o <<mo>>
  BY <1>4, <1>5, <1>6 DEF Plain
<1>8. q = Laid(<<>>, y, o, <<mo>> \o <<>>)
  <2>1. y \in Seq(Pieces) /\ <<o>> \in Seq(Pieces) /\ <<mo>> \in Seq(Pieces)
    BY <1>3, Short1
  <2> DEFINE a == <<mo>>
             b == <<o>>
  <2>2. q = (y \o b) \o a /\ a \in Seq(Pieces) /\ b \in Seq(Pieces)
    BY <1>7, <2>1
  <2> HIDE DEF y, o, mo, q, a, b
  <2>3. q \in Seq(Pieces)
    BY <2>1, <2>2, ConcatProperties
  <2>4. q = <<>> \o q /\ a = a \o <<>>
    BY <2>2, <2>3, ConcatEmptySeq
  <2>5. q = <<>> \o ((y \o b) \o (a \o <<>>))
    BY <2>2, <2>4
  <2> QED BY <2>5 DEF a, b, Laid
<1>9. num \in BytePiece \cup LongPiece /\ num.n = 0 /\ Kinds(<<>>) = <<>> /\ <<>> \in {<<>>, <<num>>} /\ <<>> \in {<<>>, Prefix}
  BY KindsOfNone DEF LongPiece
<1>10. Opcodes[like].does = does /\ Opcodes[like].reg = f1 /\ Opcodes[like].rm = f2 /\ Opcodes[like].dest = dest
       /\ Opcodes[like].imm = <<>>
  BY <1>0 DEF Shape
<1>11. q = Laid(<<>>, y, [k |-> "op", op |-> like], ModRM(3, lr, lm) \o <<>>)
  BY <1>6, <1>8
<1> HIDE DEF z, mo, num, o, q, y
<1>12. Works(q, y, z, like, Register(Opcodes[like].reg, lr + 8 * z.r, q),
             Register(Opcodes[like].rm, lm + 8 * z.b, q), num.n)
  <2>1. Kinds(<<>>) = Opcodes[like].imm /\ Opcodes[like].dest \in {"reg", "rm"}
    BY <1>0, <1>9, <1>10
  <2> QED BY <1>0, <1>1, <1>2, <1>9, <1>11, <2>1, ThroughRegisters
<1>13. Register(f1, lr + 8 * R, q) = File(f1, lr + 8 * R) /\ Register(f2, lm + 8 * B, q) = File(f2, lm + 8 * B)
  BY <1>0 DEF Register, File
<1>14. Executed(q) = Instr(does, w, IF dest = "reg" THEN File(f1, lr + 8 * R) ELSE File(f2, lm + 8 * B),
                           IF dest = "reg" THEN File(f2, lm + 8 * B) ELSE File(f1, lr + 8 * R), Value(like, num.n))
  BY <1>1, <1>10, <1>12, <1>13 DEF Works
<1>15. Executed(q).op # "garbled"
  BY <1>0, <1>14 DEF Instr
<1>16. InStep(q)
  BY <1>15 DEF Executed, Garbled, Instr
<1>17. Executed(q).dest = DestOperand(q) /\ Executed(q).src = SrcOperand(q)
  BY <1>16 DEF Executed, Instr
<1>18. /\ Executed(q).dest = IF dest = "reg" THEN File(f1, lr + 8 * R) ELSE File(f2, lm + 8 * B)
       /\ Executed(q).src = IF dest = "reg" THEN File(f2, lm + 8 * B) ELSE File(f1, lr + 8 * R)
  BY <1>14 DEF Instr
<1> QED BY <1>16, <1>17, <1>18 DEF q, Takes

\* The fields of a code are those its prefix holds.
LEMMA VexFieldsOf ==
  ASSUME NEW p, NEW R, NEW x, NEW B, NEW map, NEW w, NEW v, NEW pp, Holds(p, R, x, B, map, w, v, pp),
         NEW c, c[1] = p
  PROVE  /\ VexOf(c).r = R /\ VexOf(c).x = x /\ VexOf(c).b = B /\ VexOf(c).map = map
         /\ VexOf(c).w = w /\ VexOf(c).v = v /\ VexOf(c).pp = pp
<1>1. CASE p.k = "vex3"
  BY <1>1 DEF VexOf, Holds, ReadsLong
<1>2. CASE p.k # "vex3"
  BY <1>2 DEF VexOf, Holds, ReadsShort
<1> QED BY <1>1, <1>2

MeantOf(i) == IF i.op = "vconvert" THEN [i EXCEPT !.src1 = NoOperand] ELSE i

\* What VexDecodesAsAsked asks of one instruction.
VexVerdict(fn, i, d) ==
  /\ d = Undefined <=>
       \/ IsMemory(i.src2)
       \/ i.op = "vbroadcast"
       \/ i.op = "vconvert" /\ i.src1 \notin {NoOperand, Xmm(XMM0)}
  /\ d \notin {Undefined, MeantOf(i)} <=> fn = "vmov_reg_freg" /\ i.dest.n % 8 # i.src2.n % 8

VexGood(k, c) == c \in Seq(Pieces) /\ c # <<>> /\ VexVerdict(k.fn, k.instr, VexExecuted(c))

VexCode(reg, v, rm, pp, map, w, name, lr, lm) ==
  (VexPrefix(reg, v, rm, pp, map, w) \o Op(name)) \o ModRM(3, lr, lm)

IsVex(reg, v, rm, pp, map, w, name, lr, lm) ==
  \E p \in VexPiece :
     /\ VexCode(reg, v, rm, pp, map, w, name, lr, lm) = Triple(p, name, lr, lm)
     /\ Holds(p, Msb(reg), 0, Msb(rm), map, w, v, pp)

\* Codes of a prefix, an opcode and a ModRM byte for two registers.
LEMMA VexLaid ==
  ASSUME NEW reg \in 0..15, NEW rm \in 0..15, NEW v \in 0..15, NEW pp \in 0..3, NEW map \in 1..3, NEW w \in Bits,
         NEW lr \in Low, NEW lm \in Low, NEW name \in DOMAIN VexOpcodes
  PROVE  IsVex(reg, v, rm, pp, map, w, name, lr, lm)
<1> DEFINE o == Op1(name)
           mo == [k |-> "modrm", mode |-> 3, reg |-> lr, rm |-> lm]
           c == VexCode(reg, v, rm, pp, map, w, name, lr, lm)
<1>1. PICK p : VexPrefix(reg, v, rm, pp, map, w) = <<p>> /\ Holds(p, Msb(reg), 0, Msb(rm), map, w, v, pp)
  BY PrefixHolds
<1>2. p \in VexPiece
  BY <1>1 DEF Holds
<1>3. p \in Pieces /\ o \in Pieces /\ mo \in Pieces
  BY <1>2 DEF Pieces, OpPiece, ModRMPiece, Op1, Names
<1>4. Op(name) = <<o>> /\ ModRM(3, lr, lm) = <<mo>>
  BY DEF Op, Op1, ModRM
<1> HIDE DEF o, mo
<1>5. c = (<<p>> \o <<o>>) \o <<mo>>
  BY <1>1, <1>4 DEF VexCode
<1> HIDE DEF c
<1>6. <<p>> \o <<o>> = <<p, o>> /\ <<p, o>> \o <<mo>> = <<p, o, mo>>
  BY <1>3, ShortConcat
<1>7. c = <<p, o, mo>>
  BY <1>5, <1>6
<1> QED BY <1>1, <1>2, <1>7 DEF o, mo, c, Triple, IsVex

\* What becomes of the code c of an opcode of shape sh.
VexOutcome(c, sh, pp, w, v, d, s) ==
  /\ c \in Seq(Pieces) /\ c # <<>>
  /\ VexExecuted(c) = IF ~sh.third /\ v # 0 THEN Undefined
                      ELSE VexInstr(sh.does, pp, IF sh.wide THEN w ELSE 0, d, IF sh.third THEN Xmm(v) ELSE NoOperand, s)

\* Which of two operands is the destination.
Either(dest, reg, rm) == IF dest = "reg" THEN reg ELSE rm

\* The outcome of one.
LEMMA VexRuns ==
  ASSUME NEW reg \in 0..15, NEW rm \in 0..15, NEW v \in 0..15, NEW pp \in 0..3, NEW map \in 1..3, NEW w \in Bits,
         NEW lr \in Low, NEW lm \in Low, NEW name \in DOMAIN VexOpcodes,
         NEW does, NEW f1, NEW f2, NEW dest, NEW like, Between(like, does, f1, f2, dest),
         VexOpcodes[name].map = map, VexOpcodes[name].like = like,
         NEW c, c = VexCode(reg, v, rm, pp, map, w, name, lr, lm)
  PROVE  VexOutcome(c, VexOpcodes[name], pp, w, v,
           Either(dest, File(f1, lr + 8 * Msb(reg)), File(f2, lm + 8 * Msb(rm))),
           Either(dest, File(f2, lm + 8 * Msb(rm)), File(f1, lr + 8 * Msb(reg))))
<1>1. Msb(reg) \in Bits /\ Msb(rm) \in Bits
  BY Halves
<1> DEFINE o == Op1(name)
           mo == [k |-> "modrm", mode |-> 3, reg |-> lr, rm |-> lm]
<1>2. PICK p \in VexPiece : c = Triple(p, name, lr, lm) /\ Holds(p, Msb(reg), 0, Msb(rm), map, w, v, pp)
  <2>1. IsVex(reg, v, rm, pp, map, w, name, lr, lm)
    BY VexLaid
  <2> QED BY <2>1 DEF IsVex
<1>3. p \in Pieces /\ o \in Pieces /\ mo \in Pieces /\ o.op = name
  BY DEF Pieces, OpPiece, ModRMPiece, Op1, Names
<1>5. c = <<p, o, mo>>
  BY <1>2 DEF Triple
<1> HIDE DEF o, mo
<1>6. c \in Seq(Pieces) /\ Len(c) = 3 /\ c[1] = p /\ c[2] = o
  <2>1. /\ <<p, o, mo>> \in Seq(Pieces) /\ Len(<<p, o, mo>>) = 3
        /\ <<p, o, mo>>[1] = p /\ <<p, o, mo>>[2] = o
    BY <1>3, Short3
  <2> QED BY <1>5, <2>1
<1>7. c # <<>>
  <2>1. Len(<<>>) # 3
    OBVIOUS
  <2> QED BY <1>6, <2>1, Zenon
<1>8. /\ VexOf(c).r = Msb(reg) /\ VexOf(c).x = 0 /\ VexOf(c).b = Msb(rm) /\ VexOf(c).map = map
      /\ VexOf(c).w = w /\ VexOf(c).v = v /\ VexOf(c).pp = pp
  BY <1>2, <1>6, VexFieldsOf
<1>9. VexShapeOf(c) = VexOpcodes[name]
  BY <1>3, <1>6 DEF VexShapeOf
<1>10. /\ InStep(Plain(c))
       /\ DestOperand(Plain(c)) = IF dest = "reg" THEN File(f1, lr + 8 * Msb(reg)) ELSE File(f2, lm + 8 * Msb(rm))
       /\ SrcOperand(Plain(c)) = IF dest = "reg" THEN File(f2, lm + 8 * Msb(rm)) ELSE File(f1, lr + 8 * Msb(reg))
  <2> DEFINE R == Msb(reg)
             B == Msb(rm)
  <2>1. /\ R \in Bits /\ B \in Bits /\ c = Triple(p, name, lr, lm)
        /\ VexOf(c).r = R /\ VexOf(c).x = 0 /\ VexOf(c).b = B /\ VexOf(c).w = w
    BY <1>1, <1>2, <1>8
  <2> HIDE DEF R, B
  <2>2. Takes(c, f1, f2, dest, lr + 8 * R, lm + 8 * B)
    BY <2>1, PlainRegisters, ZenonT(30)
  <2> QED BY <2>2 DEF R, B, Takes
<1>11. Runs(c) <=> VexOpcodes[name].third \/ v = 0
  BY <1>6, <1>8, <1>9, <1>10 DEF Runs
<1>12. CASE ~VexOpcodes[name].third /\ v # 0
  BY <1>6, <1>7, <1>11, <1>12 DEF VexExecuted, VexOutcome
<1>13. CASE VexOpcodes[name].third \/ v = 0
  BY <1>6, <1>7, <1>8, <1>9, <1>10, <1>11, <1>13 DEF VexExecuted, VexOutcome, Either
<1> QED BY <1>12, <1>13

\* The opcodes of avx.rs.
LEMMA VexShapes ==
  /\ VexOpcodes["varith"] = VexShape("varith", None0F, TRUE, FALSE, "sse")
  /\ VexOpcodes["vconvert"] = VexShape("vconvert", None0F, FALSE, FALSE, "sse")
  /\ VexOpcodes["vfma"] = VexShape("vfma", None0F38, TRUE, TRUE, "sse")
  /\ VexOpcodes["vmov_load"] = VexShape("vmov", None0F, FALSE, TRUE, "xmm_from_general")
  /\ VexOpcodes["vmov_store"] = VexShape("vmov", None0F, FALSE, TRUE, "general_from_xmm_store")
  /\ VexOpcodes["vbroadcast"] = VexShape("vbroadcast", None0F38, FALSE, TRUE, "sse")
  /\ DOMAIN VexOpcodes = {"varith", "vconvert", "vfma", "vmov_load", "vmov_store", "vbroadcast"}
  /\ None0F \in 1..3 /\ None0F38 \in 1..3 /\ None0F3A \in 1..3 /\ Prefix66 \in 0..3 /\ XMM0 = 0 /\ 0 \in 0..15
  /\ None0F = 1 /\ None0F38 = 2
BY DEF VexOpcodes, None0F, None0F38, None0F3A, Prefix66, XMM0

\* The opcodes whose operands are like theirs.
LEMMA LikeShapes ==
  /\ Opcodes["sse"] = Shape("sse", "xmm", "xmm", "reg", <<>>)
  /\ Opcodes["xmm_from_general"] = Shape("cvt", "xmm", "general", "reg", <<>>)
  /\ Opcodes["general_from_xmm_store"] = Shape("cvt", "xmm", "general", "rm", <<>>)
  /\ {"sse", "xmm_from_general", "general_from_xmm_store"} \subseteq Names
<1>1. /\ Opcodes["sse"] = Shape("sse", "xmm", "xmm", "reg", <<>>)
      /\ Opcodes["xmm_from_general"] = Shape("cvt", "xmm", "general", "reg", <<>>)
      /\ Opcodes["general_from_xmm_store"] = Shape("cvt", "xmm", "general", "rm", <<>>)
  BY DEF Opcodes
<1>2. {"sse", "xmm_from_general", "general_from_xmm_store"} \subseteq DOMAIN Opcodes
  BY DEF Opcodes
<1> QED BY <1>1, <1>2 DEF Names

\* The outcome of vinstr and its like.
LEMMA VexRegsRuns ==
  ASSUME NEW dst \in 0..15, NEW src \in 0..15, NEW v \in 0..15, NEW pp \in 0..3, NEW map \in 1..3, NEW w \in Bits,
         NEW name \in DOMAIN VexOpcodes, NEW does, NEW f2, NEW like, Between(like, does, "xmm", f2, "reg"),
         VexOpcodes[name].map = map, VexOpcodes[name].like = like,
         NEW c, c = VexRegs(name, pp, map, w, dst, v, src)
  PROVE  VexOutcome(c, VexOpcodes[name], pp, w, v, File("xmm", dst), File(f2, src))
<1>1. /\ And7(dst) \in Low /\ And7(src) \in Low
      /\ And7(dst) + 8 * Msb(dst) = dst /\ And7(src) + 8 * Msb(src) = src
  BY Halves
<1>2. c = VexCode(dst, v, src, pp, map, w, name, And7(dst), And7(src))
  BY DEF VexRegs, VexCode, SseModRM
<1> DEFINE d == Either("reg", File("xmm", And7(dst) + 8 * Msb(dst)), File(f2, And7(src) + 8 * Msb(src)))
           e == Either("reg", File(f2, And7(src) + 8 * Msb(src)), File("xmm", And7(dst) + 8 * Msb(dst)))
<1>3. VexOutcome(c, VexOpcodes[name], pp, w, v, d, e)
  BY <1>1, <1>2, VexRuns, ZenonT(30)
<1>4. d = File("xmm", dst) /\ e = File(f2, src)
  BY <1>1 DEF Either
<1> QED BY <1>3, <1>4

\* A code that runs as the instruction asked for.
LEMMA VexExact ==
  ASSUME NEW fn, fn # "vmov_reg_freg", NEW c \in Seq(Pieces), c # <<>>, NEW i, VexExecuted(c) = i,
         i.op \notin {"vbroadcast", "vconvert", "undefined"}, ~IsMemory(i.src2)
  PROVE  VexGood(Call(fn, i), c)
<1>1. i # Undefined
  BY DEF Undefined, VexInstr
<1>2. MeantOf(i) = i
  BY DEF MeantOf
<1>3. VexVerdict(fn, i, i)
  BY <1>1, <1>2 DEF VexVerdict
<1> QED BY <1>3 DEF VexGood, Call

\* A register is no address.
LEMMA NotMemory == \A f, n : ~IsMemory(File(f, n))
BY DEF IsMemory, File, NoOperand

\* What the opcodes of avx.rs have.
LEMMA VexFields ==
  /\ VexOpcodes["varith"].map = 1 /\ VexOpcodes["varith"].like = "sse" /\ VexOpcodes["varith"].does = "varith"
  /\ VexOpcodes["varith"].third /\ ~VexOpcodes["varith"].wide
  /\ VexOpcodes["vconvert"].map = 1 /\ VexOpcodes["vconvert"].like = "sse" /\ VexOpcodes["vconvert"].does = "vconvert"
  /\ ~VexOpcodes["vconvert"].third /\ ~VexOpcodes["vconvert"].wide
  /\ VexOpcodes["vfma"].map = 2 /\ VexOpcodes["vfma"].like = "sse" /\ VexOpcodes["vfma"].does = "vfma"
  /\ VexOpcodes["vfma"].third /\ VexOpcodes["vfma"].wide
  /\ VexOpcodes["vmov_load"].map = 1 /\ VexOpcodes["vmov_load"].like = "xmm_from_general"
  /\ VexOpcodes["vmov_load"].does = "vmov" /\ ~VexOpcodes["vmov_load"].third /\ VexOpcodes["vmov_load"].wide
  /\ VexOpcodes["vmov_store"].map = 1 /\ VexOpcodes["vmov_store"].like = "general_from_xmm_store"
  /\ VexOpcodes["vmov_store"].does = "vmov" /\ ~VexOpcodes["vmov_store"].third /\ VexOpcodes["vmov_store"].wide
  /\ VexOpcodes["vbroadcast"].map = 2
BY VexShapes DEF VexShape

\* They take registers where their counterparts do.
LEMMA Betweens ==
  /\ Between("sse", "sse", "xmm", "xmm", "reg")
  /\ Between("xmm_from_general", "cvt", "xmm", "general", "reg")
  /\ Between("general_from_xmm_store", "cvt", "xmm", "general", "rm")
BY LikeShapes DEF Between

\* The encoders between registers that run as asked.
LEMMA VexRegistersGood ==
  ASSUME NEW dst \in 0..15, NEW src1 \in 0..15, NEW src \in 0..15, NEW pp \in 0..3, NEW w \in Bits
  PROVE  /\ VexGood(Call("vinstr", VexInstr("varith", pp, 0, Xmm(dst), Xmm(src1), Xmm(src))),
                    VexRegs("varith", pp, None0F, w, dst, src1, src))
         /\ VexGood(Call("vfma", VexInstr("vfma", Prefix66, w, Xmm(dst), Xmm(src1), Xmm(src))),
                    VexRegs("vfma", Prefix66, None0F38, w, dst, src1, src))
         /\ VexGood(Call("vmov_freg_reg", VexInstr("vmov", Prefix66, w, Xmm(dst), NoOperand, Gp(src))),
                    VexRegs("vmov_load", Prefix66, None0F, w, dst, XMM0, src))
<1>0. /\ None0F = 1 /\ None0F38 = 2 /\ XMM0 = 0 /\ Prefix66 \in 0..3 /\ 0 \in Bits
      /\ {"varith", "vfma", "vmov_load"} \subseteq DOMAIN VexOpcodes
  BY VexShapes DEF Bits
<1>1. VexGood(Call("vinstr", VexInstr("varith", pp, 0, Xmm(dst), Xmm(src1), Xmm(src))),
              VexRegs("varith", pp, None0F, w, dst, src1, src))
  <2> DEFINE c == VexRegs("varith", pp, 1, w, dst, src1, src)
             i == VexInstr("varith", pp, 0, File("xmm", dst), Xmm(src1), File("xmm", src))
  <2>0. /\ Between("sse", "sse", "xmm", "xmm", "reg") /\ "varith" \in DOMAIN VexOpcodes
        /\ VexOpcodes["varith"].map = 1 /\ VexOpcodes["varith"].like = "sse"
        /\ 1 \in 1..3
    BY <1>0, Betweens, VexFields
  <2>1. VexOutcome(c, VexOpcodes["varith"], pp, w, src1, File("xmm", dst), File("xmm", src))
    BY <1>0, <2>0, VexRegsRuns
  <2> HIDE DEF c
  <2>2. c \in Seq(Pieces) /\ c # <<>> /\ VexExecuted(c) = i
    BY <2>1, VexFields DEF VexOutcome
  <2>3. i.op = "varith" /\ i.src2 = File("xmm", src)
    BY DEF VexInstr
  <2> HIDE DEF i
  <2>4. VexGood(Call("vinstr", i), c)
    BY <2>2, <2>3, NotMemory, VexExact
  <2> QED BY <1>0, <2>4 DEF c, i, File, Xmm
<1>2. VexGood(Call("vfma", VexInstr("vfma", Prefix66, w, Xmm(dst), Xmm(src1), Xmm(src))),
              VexRegs("vfma", Prefix66, None0F38, w, dst, src1, src))
  <2> DEFINE c == VexRegs("vfma", Prefix66, 2, w, dst, src1, src)
             i == VexInstr("vfma", Prefix66, w, File("xmm", dst), Xmm(src1), File("xmm", src))
  <2>0. /\ Between("sse", "sse", "xmm", "xmm", "reg") /\ "vfma" \in DOMAIN VexOpcodes
        /\ VexOpcodes["vfma"].map = 2 /\ VexOpcodes["vfma"].like = "sse"
        /\ 2 \in 1..3
    BY <1>0, Betweens, VexFields
  <2>1. VexOutcome(c, VexOpcodes["vfma"], Prefix66, w, src1, File("xmm", dst), File("xmm", src))
    BY <1>0, <2>0, VexRegsRuns
  <2> HIDE DEF c
  <2>2. c \in Seq(Pieces) /\ c # <<>> /\ VexExecuted(c) = i
    BY <2>1, VexFields DEF VexOutcome
  <2>3. i.op = "vfma" /\ i.src2 = File("xmm", src)
    BY DEF VexInstr
  <2> HIDE DEF i
  <2>4. VexGood(Call("vfma", i), c)
    BY <2>2, <2>3, NotMemory, VexExact
  <2> QED BY <1>0, <2>4 DEF c, i, File, Xmm
<1>3. VexGood(Call("vmov_freg_reg", VexInstr("vmov", Prefix66, w, Xmm(dst), NoOperand, Gp(src))),
              VexRegs("vmov_load", Prefix66, None0F, w, dst, XMM0, src))
  <2> DEFINE c == VexRegs("vmov_load", Prefix66, 1, w, dst, 0, src)
             i == VexInstr("vmov", Prefix66, w, File("xmm", dst), NoOperand, File("general", src))
  <2>0. /\ Between("xmm_from_general", "cvt", "xmm", "general", "reg") /\ "vmov_load" \in DOMAIN VexOpcodes
        /\ VexOpcodes["vmov_load"].map = 1 /\ VexOpcodes["vmov_load"].like = "xmm_from_general"
        /\ 1 \in 1..3 /\ 0 \in 0..15
    BY <1>0, Betweens, VexFields
  <2>1. VexOutcome(c, VexOpcodes["vmov_load"], Prefix66, w, 0, File("xmm", dst), File("general", src))
    BY <1>0, <2>0, VexRegsRuns
  <2> HIDE DEF c
  <2>2. c \in Seq(Pieces) /\ c # <<>> /\ VexExecuted(c) = i
    BY <2>1, VexFields DEF VexOutcome
  <2>3. i.op = "vmov" /\ i.src2 = File("general", src)
    BY DEF VexInstr
  <2> HIDE DEF i
  <2>4. VexGood(Call("vmov_freg_reg", i), c)
    BY <2>2, <2>3, NotMemory, VexExact
  <2> QED BY <1>0, <2>4 DEF c, i, File, Xmm, Gp
<1> QED BY <1>1, <1>2, <1>3

\* An instruction that reads one operand and may be given two.
LEMMA ConvertVerdict ==
  ASSUME NEW fn, fn # "vmov_reg_freg", NEW pp, NEW a, NEW src, NEW s1, NEW d,
         s1 = NoOperand \/ \E n \in 0..15 : s1 = Xmm(n),
         d = IF s1 \notin {NoOperand, Xmm(0)} THEN Undefined
             ELSE VexInstr("vconvert", pp, 0, a, NoOperand, File("xmm", src))
  PROVE  VexVerdict(fn, VexInstr("vconvert", pp, 0, a, s1, File("xmm", src)), d)
<1> DEFINE i == VexInstr("vconvert", pp, 0, a, s1, File("xmm", src))
           j == VexInstr("vconvert", pp, 0, a, NoOperand, File("xmm", src))
<1>1. i.op = "vconvert" /\ i.src1 = s1 /\ i.src2 = File("xmm", src) /\ [i EXCEPT !.src1 = NoOperand] = j
  BY DEF VexInstr
<1>2. j # Undefined
  BY DEF VexInstr, Undefined
<1>3. XMM0 = 0
  BY DEF XMM0
<1> HIDE DEF i, j
<1>4. MeantOf(i) = j
  BY <1>1 DEF MeantOf
<1>5. ~IsMemory(i.src2) /\ i.op # "vbroadcast"
  BY <1>1, NotMemory
<1>6. d = IF s1 \notin {NoOperand, Xmm(0)} THEN Undefined ELSE j
  BY DEF j
<1>7. VexVerdict(fn, i, d)
  BY <1>1, <1>2, <1>3, <1>4, <1>5, <1>6 DEF VexVerdict
<1> QED BY <1>7 DEF i

\* XMM0 is the operand of a field that is empty.
LEMMA XmmNumbers == \A n \in 0..15 : Xmm(n) \in {NoOperand, Xmm(0)} <=> n = 0
BY DEF Xmm, NoOperand

\* vsqrtps and its like, with a third operand and without, and vmovaps.
LEMMA VexConvertGood ==
  ASSUME NEW dst \in 0..15, NEW src1 \in 0..15, NEW src \in 0..15, NEW pp \in 0..3
  PROVE  /\ VexGood(Call("vinstr", VexInstr("vconvert", pp, 0, Xmm(dst), Xmm(src1), Xmm(src))),
                    VexRegs("vconvert", pp, None0F, 0, dst, src1, src))
         /\ VexGood(Call("vmovaps", VexInstr("vconvert", pp, 0, Xmm(dst), NoOperand, Xmm(src))),
                    VexRegs("vconvert", pp, None0F, 0, dst, XMM0, src))
<1>0. /\ None0F = 1 /\ XMM0 = 0 /\ 0 \in Bits /\ 0 \in 0..15 /\ 1 \in 1..3
      /\ "vconvert" \in DOMAIN VexOpcodes /\ Between("sse", "sse", "xmm", "xmm", "reg")
      /\ VexOpcodes["vconvert"].map = 1 /\ VexOpcodes["vconvert"].like = "sse"
  BY VexShapes, VexFields, Betweens DEF Bits
<1>1. ASSUME NEW v \in 0..15, NEW c, c = VexRegs("vconvert", pp, 1, 0, dst, v, src)
      PROVE  /\ c \in Seq(Pieces) /\ c # <<>>
             /\ VexExecuted(c) = IF v # 0 THEN Undefined
                                 ELSE VexInstr("vconvert", pp, 0, File("xmm", dst), NoOperand, File("xmm", src))
  <2>1. VexOutcome(c, VexOpcodes["vconvert"], pp, 0, v, File("xmm", dst), File("xmm", src))
    BY <1>0, <1>1, VexRegsRuns
  <2> QED BY <2>1, VexFields DEF VexOutcome
<1> DEFINE K(fn, s1, v) == VexGood(Call(fn, VexInstr("vconvert", pp, 0, File("xmm", dst), s1, File("xmm", src))),
                                   VexRegs("vconvert", pp, 1, 0, dst, v, src))
<1>2. ASSUME NEW fn, fn # "vmov_reg_freg", NEW v \in 0..15, NEW s1, s1 = Xmm(v) \/ (v = 0 /\ s1 = NoOperand)
      PROVE  K(fn, s1, v)
  <2> DEFINE c == VexRegs("vconvert", pp, 1, 0, dst, v, src)
             i == VexInstr("vconvert", pp, 0, File("xmm", dst), s1, File("xmm", src))
             d == VexExecuted(c)
  <2>1. /\ c \in Seq(Pieces) /\ c # <<>>
        /\ d = IF v # 0 THEN Undefined
               ELSE VexInstr("vconvert", pp, 0, File("xmm", dst), NoOperand, File("xmm", src))
    BY <1>1
  <2> HIDE DEF c
  <2>2. s1 \notin {NoOperand, Xmm(0)} <=> v # 0
    BY <1>2, XmmNumbers
  <2>3. s1 = NoOperand \/ \E n \in 0..15 : s1 = Xmm(n)
    BY <1>2
  <2> HIDE DEF d
  <2>4. d = IF s1 \notin {NoOperand, Xmm(0)} THEN Undefined
            ELSE VexInstr("vconvert", pp, 0, File("xmm", dst), NoOperand, File("xmm", src))
    BY <2>1, <2>2
  <2>5. VexVerdict(fn, i, d)
    BY <1>2, <2>3, <2>4, ConvertVerdict
  <2> HIDE DEF i
  <2> QED BY <2>1, <2>5 DEF VexGood, Call, d, c, i
<1>3. Xmm(dst) = File("xmm", dst) /\ Xmm(src) = File("xmm", src)
  BY DEF Xmm, File
<1> HIDE DEF K
<1>4. K("vinstr", Xmm(src1), src1)
  BY <1>2
<1>5. K("vmovaps", NoOperand, 0)
  BY <1>0, <1>2
<1> QED BY <1>0, <1>3, <1>4, <1>5 DEF K

\* The moves to a general register: the low bits change places.
LEMMA VexStoreGood ==
  ASSUME NEW dst \in 0..15, NEW src \in 0..15, NEW w \in Bits
  PROVE  VexGood(Call("vmov_reg_freg", VexInstr("vmov", Prefix66, w, Gp(dst), NoOperand, Xmm(src))),
                 VexPrefix(src, XMM0, dst, Prefix66, None0F, w) \o Op("vmov_store") \o SseModRM(dst, src))
<1> DEFINE c == VexCode(src, 0, dst, Prefix66, 1, w, "vmov_store", And7(dst), And7(src))
           d == VexInstr("vmov", Prefix66, w, File("general", And7(src) + 8 * Msb(dst)), NoOperand,
                         File("xmm", And7(dst) + 8 * Msb(src)))
           i == VexInstr("vmov", Prefix66, w, File("general", dst), NoOperand, File("xmm", src))
           a == IF "rm" = "reg" THEN File("xmm", And7(dst) + 8 * Msb(src)) ELSE File("general", And7(src) + 8 * Msb(dst))
           b == IF "rm" = "reg" THEN File("general", And7(src) + 8 * Msb(dst)) ELSE File("xmm", And7(dst) + 8 * Msb(src))
<1>0. /\ And7(dst) \in Low /\ And7(src) \in Low
      /\ And7(dst) + 8 * Msb(dst) = dst /\ And7(src) + 8 * Msb(src) = src
      /\ And7(dst) = dst % 8 /\ And7(src) = src % 8 /\ Msb(dst) \in Bits /\ Msb(src) \in Bits
  BY Halves DEF And7
<1>1. /\ Between("general_from_xmm_store", "cvt", "xmm", "general", "rm") /\ "vmov_store" \in DOMAIN VexOpcodes
      /\ VexOpcodes["vmov_store"].map = 1 /\ VexOpcodes["vmov_store"].like = "general_from_xmm_store"
      /\ 1 \in 1..3 /\ 0 \in 0..15 /\ Prefix66 \in 0..3 /\ None0F = 1 /\ XMM0 = 0
  BY VexShapes, Betweens, VexFields
<1>2. VexOutcome(c, VexOpcodes["vmov_store"], Prefix66, w, 0, a, b)
  <2> HIDE DEF c
  <2>1. c = VexCode(src, 0, dst, Prefix66, 1, w, "vmov_store", And7(dst), And7(src))
    BY DEF c
  <2>2. VexOutcome(c, VexOpcodes["vmov_store"], Prefix66, w, 0,
          Either("rm", File("xmm", And7(dst) + 8 * Msb(src)), File("general", And7(src) + 8 * Msb(dst))),
          Either("rm", File("general", And7(src) + 8 * Msb(dst)), File("xmm", And7(dst) + 8 * Msb(src))))
    BY <1>0, <1>1, <2>1, VexRuns
  <2> QED BY <2>2 DEF Either
<1>3. c = VexPrefix(src, XMM0, dst, Prefix66, None0F, w) \o Op("vmov_store") \o SseModRM(dst, src)
  BY <1>1 DEF VexCode, SseModRM
<1> HIDE DEF c
<1>4. c \in Seq(Pieces) /\ c # <<>> /\ VexExecuted(c) = d
  BY <1>2, VexFields DEF VexOutcome
<1>5. /\ d # Undefined /\ i.op = "vmov" /\ i.src2 = File("xmm", src) /\ i.dest = File("general", dst)
      /\ d.dest = File("general", And7(src) + 8 * Msb(dst)) /\ d.src2 = File("xmm", And7(dst) + 8 * Msb(src))
  BY DEF VexInstr, Undefined
<1>6. And7(dst) = And7(src) => d = i
  BY <1>0
<1> HIDE DEF d, i
<1>7. And7(dst) # And7(src) => d # i
  <2>1. SUFFICES ASSUME And7(dst) # And7(src), d = i PROVE FALSE
    OBVIOUS
  <2>2. File("general", And7(src) + 8 * Msb(dst)) = File("general", dst)
    BY <1>5, <2>1
  <2>3. And7(src) + 8 * Msb(dst) = dst
    BY <2>2 DEF File
  <2> QED BY <1>0, <2>1, <2>3 DEF Low, Bits
<1>8. MeantOf(i) = i
  BY <1>5 DEF MeantOf
<1>9. i.dest.n = dst /\ i.src2.n = src
  BY <1>5 DEF File
<1>10. ~IsMemory(i.src2)
  BY <1>5, NotMemory
<1>11. VexVerdict("vmov_reg_freg", i, d)
  BY <1>0, <1>5, <1>6, <1>7, <1>8, <1>9, <1>10 DEF VexVerdict
<1>12. VexGood(Call("vmov_reg_freg", i), c)
  BY <1>4, <1>11 DEF VexGood, Call
<1> QED BY <1>3, <1>12 DEF i, File, Gp, Xmm

(***************************************************************************)
(* The encoders that never run.                                            *)
(***************************************************************************)

\* A code that begins with a prefix and an opcode.
Heads(c, p, name, n) ==
  /\ c \in Seq(Pieces) /\ c # <<>> /\ Len(c) = 2 + n
  /\ c[1] = p /\ c[2] = Op1(name)

\* A prefix, an opcode and what comes after them.
LEMMA HeadOf ==
  ASSUME NEW p \in VexPiece, NEW name \in DOMAIN VexOpcodes, NEW s \in Seq(Pieces)
  PROVE  Heads((<<p>> \o Op(name)) \o s, p, name, Len(s))
<1> DEFINE o == Op1(name)
           a == <<p, o>>
<1>1. p \in Pieces /\ o \in Pieces /\ Op(name) = <<o>>
  BY DEF Pieces, OpPiece, Op1, Names, Op
<1> HIDE DEF o
<1>2. <<p>> \o <<o>> = a /\ a \in Seq(Pieces) /\ Len(a) = 2 /\ a[1] = p /\ a[2] = o
  BY <1>1, ShortConcat, Short2
<1> HIDE DEF a
<1> DEFINE c == a \o s
<1>3. c \in Seq(Pieces) /\ Len(c) = 2 + Len(s) /\ c[1] = a[1] /\ c[2] = a[2]
  <2>1. /\ c \in Seq(Pieces) /\ Len(c) = Len(a) + Len(s)
        /\ \A i \in 1..Len(a) + Len(s) : c[i] = IF i <= Len(a) THEN a[i] ELSE s[i - Len(a)]
    <3>1. a \in Seq(Pieces) /\ s \in Seq(Pieces)
      BY <1>2
    <3>2. Len(a \o s) = Len(a) + Len(s) /\ a \o s \in Seq(Pieces)
      BY <3>1, ConcatProperties
    <3>3. \A i \in 1..Len(a) + Len(s) : (a \o s)[i] = IF i <= Len(a) THEN a[i] ELSE s[i - Len(a)]
      BY <3>1, ConcatProperties
    <3> QED BY <3>2, <3>3
  <2> QED BY <1>2, <2>1
<1>4. Len(<<>>) = 0 /\ Len(s) \in Nat
  OBVIOUS
<1>5. (<<p>> \o Op(name)) \o s = c
  BY <1>1, <1>2
<1> HIDE DEF c
<1>6. c # <<>>
  BY <1>3, <1>4
<1> QED BY <1>2, <1>3, <1>5, <1>6 DEF Heads, o

\* What never runs.
LEMMA NeverGood ==
  ASSUME NEW fn, fn # "vmov_reg_freg", NEW c \in Seq(Pieces), c # <<>>, ~Runs(c), NEW i,
         IsMemory(i.src2) \/ i.op = "vbroadcast"
  PROVE  VexGood(Call(fn, i), c)
<1>1. VexExecuted(c) = Undefined
  BY DEF VexExecuted
<1>2. VexVerdict(fn, i, Undefined)
  BY DEF VexVerdict
<1> QED BY <1>1, <1>2 DEF VexGood, Call

\* The maps of the opcodes.
LEMMA Maps == \A name \in DOMAIN VexOpcodes : VexOpcodes[name].map \in 1..3
BY VexShapes DEF VexShape

\* The opcode of a code is in no map there is.
LEMMA WrongMap ==
  ASSUME NEW p \in VexPiece, p.k = "vex3", p.n % 32 \in 8..15, NEW name \in DOMAIN VexOpcodes, NEW c, NEW n,
         Heads(c, p, name, n)
  PROVE  ~Runs(c)
<1>1. VexOf(c).map = p.n % 32
  BY DEF VexOf, Heads
<1>2. VexShapeOf(c).map = VexOpcodes[name].map
  BY DEF VexShapeOf, Heads, Op1
<1>3. VexOpcodes[name].map \in 1..3
  BY Maps
<1> QED BY <1>1, <1>2, <1>3 DEF Runs

\* Address and register of an encoder, as pieces.
LEMMA MemPiecesSome ==
  ASSUME NEW m \in Where, NEW reg \in 0..15
  PROVE  MemPieces(reg, m) \in Seq(Pieces) /\ Len(MemPieces(reg, m)) >= 1
<1>1. PICK mo, sb, num, s, d : Laying(reg, m, mo, sb, num, s, d)
  BY MemPiecesLaid
<1>2. /\ mo \in Pieces /\ sb \in Pieces /\ num \in Pieces
      /\ s \in {<<>>, <<sb>>} /\ d \in {<<>>, <<num>>}
      /\ MemPieces(reg, m) = (<<mo>> \o s) \o d
  BY <1>1 DEF Laying, Pieces
<1>3. <<mo>> \in Seq(Pieces) /\ s \in Seq(Pieces) /\ d \in Seq(Pieces) /\ Len(<<mo>>) = 1
  <2>1. <<>> \in Seq(Pieces) /\ <<mo>> \in Seq(Pieces) /\ <<sb>> \in Seq(Pieces) /\ <<num>> \in Seq(Pieces)
        /\ Len(<<mo>>) = 1
    BY <1>2, Short1
  <2> QED BY <1>2, <2>1
<1> DEFINE a == <<mo>>
<1> HIDE DEF a
<1>4. a \o s \in Seq(Pieces) /\ Len(a \o s) = 1 + Len(s) /\ Len(s) \in Nat /\ Len(d) \in Nat
  BY <1>3, ConcatProperties DEF a
<1>5. Len((a \o s) \o d) = Len(a \o s) + Len(d)
  BY <1>3, <1>4, ConcatProperties
<1>6. Len(MemPieces(reg, m)) >= 1
  BY <1>2, <1>4, <1>5 DEF a
<1> QED BY <1>6, MemPiecesIn

\* An encoder with an address, but for those that lose a byte.
LEMMA VexMemHeads ==
  ASSUME NEW dst \in 0..15, NEW v \in 0..15, NEW m \in Where, NEW pp \in 0..3, NEW map \in 1..3, NEW w \in Bits,
         NEW name \in DOMAIN VexOpcodes
  PROVE  \E p \in VexPiece, n \in Nat :
            /\ p.k = "vex3" /\ p.n % 32 \in 8..15 /\ n >= 1
            /\ Heads(VexMem(name, pp, map, w, dst, v, m), p, name, n)
<1>1. PICK p \in VexPiece : NoMap(VexPrefixMem(dst, v, m, pp, map, w), p)
  BY MemPrefix
<1> DEFINE s == MemPieces(dst, m)
<1>2. s \in Seq(Pieces) /\ Len(s) >= 1 /\ Len(s) \in Nat
  <2>1. s \in Seq(Pieces) /\ Len(s) >= 1
    BY MemPiecesSome
  <2> HIDE DEF s
  <2> QED BY <2>1
<1>3. VexMem(name, pp, map, w, dst, v, m) = (<<p>> \o Op(name)) \o s
  BY <1>1 DEF VexMem, NoMap
<1> HIDE DEF s
<1>4. Heads((<<p>> \o Op(name)) \o s, p, name, Len(s))
  BY <1>2, HeadOf
<1> QED BY <1>1, <1>2, <1>3, <1>4 DEF NoMap

\* Popping a byte leaves the first two pieces of three or more.
LEMMA PopHeads ==
  ASSUME NEW c, NEW p, NEW name, NEW n \in Nat, n >= 1, Heads(c, p, name, n)
  PROVE  \E k \in Nat : Heads(Pop(c), p, name, k) /\ (c[Len(c)].k # "n4" => k = n - 1)
<1> DEFINE b == SubSeq(c, 1, Len(c) - 1)
           t == IF c[Len(c)].k = "n4" THEN <<[k |-> "n3"]>> ELSE <<>>
<1>1. c \in Seq(Pieces) /\ Len(c) = 2 + n /\ c[1] = p /\ c[2] = Op1(name)
  BY DEF Heads
<1>2. b \in Seq(Pieces) /\ Len(b) = 1 + n /\ b[1] = p /\ b[2] = Op1(name)
  BY <1>1, SubSeqProperties
<1>3. t \in Seq(Pieces) /\ Len(t) \in Nat /\ (c[Len(c)].k # "n4" => Len(t) = 0)
  <2> DEFINE e == [k |-> "n3"]
  <2>1. e \in Pieces
    BY DEF Pieces, CutPiece
  <2> HIDE DEF e
  <2>2. <<e>> \in Seq(Pieces) /\ Len(<<e>>) = 1 /\ <<>> \in Seq(Pieces) /\ Len(<<>>) = 0
    BY <2>1, Short1
  <2> QED BY <2>2 DEF e
<1>4. Pop(c) = b \o t
  BY DEF Pop
<1> HIDE DEF b, t
<1>5. b \o t \in Seq(Pieces) /\ Len(b \o t) = 1 + n + Len(t) /\ (b \o t)[1] = b[1] /\ (b \o t)[2] = b[2]
  <2>1. /\ b \o t \in Seq(Pieces) /\ Len(b \o t) = Len(b) + Len(t)
        /\ \A i \in 1..Len(b) + Len(t) : (b \o t)[i] = IF i <= Len(b) THEN b[i] ELSE t[i - Len(b)]
    BY <1>2, <1>3, ConcatProperties, Zenon
  <2> QED BY <1>2, <1>3, <2>1
<1>6. b \o t # <<>>
  BY <1>3, <1>5
<1>7. Heads(Pop(c), p, name, n - 1 + Len(t)) /\ n - 1 + Len(t) \in Nat
  BY <1>2, <1>3, <1>4, <1>5, <1>6 DEF Heads
<1> QED BY <1>3, <1>7

\* The encoders with an address.
LEMMA VexMemNever ==
  ASSUME NEW fn, fn # "vmov_reg_freg", NEW dst \in 0..15, NEW v \in 0..15, NEW m \in Where, NEW pp \in 0..3,
         NEW map \in 1..3, NEW w \in Bits, NEW name \in DOMAIN VexOpcodes, NEW i, i.src2 = m
  PROVE  /\ VexGood(Call(fn, i), VexMem(name, pp, map, w, dst, v, m))
         /\ VexGood(Call(fn, i), Pop(VexMem(name, pp, map, w, dst, v, m)))
<1> DEFINE c == VexMem(name, pp, map, w, dst, v, m)
<1>1. PICK p \in VexPiece, n \in Nat :
         p.k = "vex3" /\ p.n % 32 \in 8..15 /\ n >= 1 /\ Heads(c, p, name, n)
  BY VexMemHeads
<1> HIDE DEF c
<1>2. PICK k \in Nat : Heads(Pop(c), p, name, k)
  BY <1>1, PopHeads
<1>3. IsMemory(i.src2)
  BY Addresses DEF IsMemory
<1>4. ASSUME NEW x, NEW j, Heads(x, p, name, j) PROVE VexGood(Call(fn, i), x)
  <2>1. ~Runs(x)
    BY <1>1, <1>4, WrongMap
  <2>2. x \in Seq(Pieces) /\ x # <<>>
    BY <1>4 DEF Heads
  <2> QED BY <1>3, <2>1, <2>2, NeverGood
<1> QED BY <1>1, <1>2, <1>4 DEF c

\* The encoders with an address, each of them.
LEMMA VexMemoryGood ==
  ASSUME NEW dst \in 0..15, NEW src1 \in 0..15, NEW m \in Where, NEW pp \in 0..3, NEW w \in Bits, NEW map \in 1..3
  PROVE  /\ VexGood(Call("vinstrm", VexInstr("varith", pp, 0, Xmm(dst), Xmm(src1), m)),
                    VexMem("varith", pp, None0F, 0, dst, src1, m))
         /\ VexGood(Call("vfma_mem", VexInstr("vfma", Prefix66, w, Xmm(dst), Xmm(src1), m)),
                    VexMem("vfma", Prefix66, None0F38, w, dst, src1, m))
         /\ VexGood(Call("vmovaps_mem", VexInstr("vconvert", 0, 0, Xmm(dst), NoOperand, m)),
                    VexMem("vconvert", 0, None0F, 0, dst, XMM0, m))
         /\ VexGood(Call("vmov_freg_mem", VexInstr("vmov", Prefix66, w, Xmm(dst), NoOperand, m)),
                    VexMem("vmov_load", Prefix66, None0F, w, dst, XMM0, m))
         /\ VexGood(Call("avx_instr_2op", VexInstr("vbroadcast", Prefix66, w, Xmm(dst), NoOperand, m)),
                    Pop(VexMem("vbroadcast", Prefix66, map, w, dst, XMM0, m)))
<1>0. /\ None0F \in 1..3 /\ None0F38 \in 1..3 /\ XMM0 \in 0..15 /\ Prefix66 \in 0..3 /\ 0 \in 0..3 /\ 0 \in Bits
      /\ {"varith", "vfma", "vconvert", "vmov_load", "vbroadcast"} \subseteq DOMAIN VexOpcodes
  BY VexShapes DEF Bits
<1>00. \A op, p, x, d, s1 : VexInstr(op, p, x, d, s1, m).src2 = m
  BY DEF VexInstr
<1>1. VexGood(Call("vinstrm", VexInstr("varith", pp, 0, Xmm(dst), Xmm(src1), m)),
              VexMem("varith", pp, None0F, 0, dst, src1, m))
  BY <1>0, <1>00, VexMemNever
<1>2. VexGood(Call("vfma_mem", VexInstr("vfma", Prefix66, w, Xmm(dst), Xmm(src1), m)),
              VexMem("vfma", Prefix66, None0F38, w, dst, src1, m))
  BY <1>0, <1>00, VexMemNever
<1>3. VexGood(Call("vmovaps_mem", VexInstr("vconvert", 0, 0, Xmm(dst), NoOperand, m)),
              VexMem("vconvert", 0, None0F, 0, dst, XMM0, m))
  BY <1>0, <1>00, VexMemNever
<1>4. VexGood(Call("vmov_freg_mem", VexInstr("vmov", Prefix66, w, Xmm(dst), NoOperand, m)),
              VexMem("vmov_load", Prefix66, None0F, w, dst, XMM0, m))
  BY <1>0, <1>00, VexMemNever
<1>5. VexGood(Call("avx_instr_2op", VexInstr("vbroadcast", Prefix66, w, Xmm(dst), NoOperand, m)),
              Pop(VexMem("vbroadcast", Prefix66, map, w, dst, XMM0, m)))
  BY <1>0, <1>00, VexMemNever
<1> QED BY <1>1, <1>2, <1>3, <1>4, <1>5

\* The broadcasts of a register: nothing is left of the registers.
LEMMA VexBroadcastGood ==
  ASSUME NEW dst \in 0..15, NEW src \in 0..15, NEW w \in Bits, NEW map \in 1..3
  PROVE  VexGood(Call("avx_instr_2op", VexInstr("vbroadcast", Prefix66, w, Xmm(dst), NoOperand, Xmm(src))),
                 Pop(VexRegs("vbroadcast", Prefix66, map, w, dst, XMM0, src)))
<1>0. /\ XMM0 = 0 /\ 0 \in 0..15 /\ Prefix66 \in 0..3 /\ "vbroadcast" \in DOMAIN VexOpcodes
  BY VexShapes
<1>1. PICK p : VexPrefix(dst, 0, src, Prefix66, map, w) = <<p>>
                 /\ Holds(p, Msb(dst), 0, Msb(src), map, w, 0, Prefix66)
  BY <1>0, PrefixHolds
<1>2. p \in VexPiece
  BY <1>1 DEF Holds
<1> DEFINE mo == [k |-> "modrm", mode |-> 3, reg |-> And7(dst), rm |-> And7(src)]
           s == <<mo>>
           c == (<<p>> \o Op("vbroadcast")) \o s
           i == VexInstr("vbroadcast", Prefix66, w, Xmm(dst), NoOperand, Xmm(src))
<1>3. VexRegs("vbroadcast", Prefix66, map, w, dst, XMM0, src) = c
  BY <1>0, <1>1 DEF VexRegs, SseModRM, ModRM
<1>4. mo \in Pieces /\ mo.k = "modrm"
  BY Halves DEF Pieces, ModRMPiece
<1> HIDE DEF mo
<1>5. s \in Seq(Pieces) /\ Len(s) = 1 /\ s[1] = mo
  BY <1>4, Short1
<1> HIDE DEF s
<1>6. Heads(c, p, "vbroadcast", 1)
  BY <1>0, <1>2, <1>5, HeadOf
<1>7. c[3] = mo /\ Len(c) = 3
  <2> DEFINE a == <<p>> \o Op("vbroadcast")
  <2>1. Len(c) = 3
    BY <1>6 DEF Heads
  <2>2. a \in Seq(Pieces) /\ Len(a) = 2
    <3> DEFINE e == <<>>
    <3>1. e \in Seq(Pieces) /\ Len(e) = 0
      OBVIOUS
    <3>2. Heads(a \o e, p, "vbroadcast", 0)
      <4> HIDE DEF e
      <4> QED BY <1>0, <1>2, <3>1, HeadOf
    <3>3. p \in Pieces /\ Op1("vbroadcast") \in Pieces /\ Op("vbroadcast") = <<Op1("vbroadcast")>>
      BY <1>0, <1>2 DEF Pieces, OpPiece, Op1, Names, Op
    <3>4. a = <<p, Op1("vbroadcast")>>
      BY <3>3, ShortConcat
    <3> QED BY <3>3, <3>4, Short2
  <2> HIDE DEF a
  <2>3. \A j \in 1..Len(a) + Len(s) : (a \o s)[j] = IF j <= Len(a) THEN a[j] ELSE s[j - Len(a)]
    BY <1>5, <2>2, ConcatProperties
  <2>4. (a \o s)[3] = s[1]
    <3>1. 3 \in 1..Len(a) + Len(s) /\ ~(3 <= Len(a)) /\ 3 - Len(a) = 1
      BY <1>5, <2>2
    <3>2. (a \o s)[3] = IF 3 <= Len(a) THEN a[3] ELSE s[3 - Len(a)]
      BY <2>3, <3>1, Zenon
    <3> QED BY <3>1, <3>2, Zenon
  <2> QED BY <1>5, <2>1, <2>4 DEF a
<1> HIDE DEF c
<1>8. c[Len(c)].k # "n4"
  BY <1>4, <1>7
<1>9. Heads(Pop(c), p, "vbroadcast", 0)
  <2>1. 1 \in Nat /\ 1 >= 1
    OBVIOUS
  <2>2. PICK k \in Nat : Heads(Pop(c), p, "vbroadcast", k) /\ (c[Len(c)].k # "n4" => k = 1 - 1)
    BY <1>6, <2>1, PopHeads
  <2> QED BY <1>8, <2>2
<1>10. Pop(c) \in Seq(Pieces) /\ Pop(c) # <<>> /\ Len(Pop(c)) = 2
  BY <1>9 DEF Heads
<1>11. ~Runs(Pop(c))
  BY <1>10 DEF Runs
<1>12. i.op = "vbroadcast"
  BY DEF VexInstr
<1> HIDE DEF i
<1>13. VexGood(Call("avx_instr_2op", i), Pop(c))
  BY <1>10, <1>11, <1>12, NeverGood
<1> QED BY <1>3, <1>13 DEF i

(***************************************************************************)
(* The invariant.  What is emitted, or found in it, is what the properties *)
(* say of the call.                                                        *)
(***************************************************************************)

Phases == {"emitting", "panicked", "emitted", "decoded", "vex", "vex decoded"}

EncodingInv ==
  /\ phase \in Phases
  /\ code \in Seq(Pieces)
  /\ phase = "emitted" => Good(call, code)
  /\ phase = "decoded" =>
       InStepVerdict(call.fn, call.instr, decoded) /\ AsAskedVerdict(call.fn, call.instr, code, decoded)
  /\ phase = "vex" => VexGood(call, code)
  /\ phase = "vex decoded" => VexVerdict(call.fn, call.instr, decoded)

\* A call that ends with a good code keeps the invariant.
LEMMA EmitsKeeps ==
  ASSUME NEW fn, NEW i, NEW c, Good(Call(fn, i), c), Emits(fn, i, c)
  PROVE  EncodingInv'
<1>1. call' = Call(fn, i) /\ code' = c /\ phase' = "emitted"
  BY DEF Emits, Call
<1>2. code' \in Seq(Pieces) /\ Good(call', code')
  BY <1>1 DEF Good
<1> QED BY <1>1, <1>2 DEF EncodingInv, Phases

\* ... and so does a call of avx.rs.
LEMMA EmitsVexKeeps ==
  ASSUME NEW fn, NEW i, NEW c, VexGood(Call(fn, i), c), EmitsVex(fn, i, c)
  PROVE  EncodingInv'
<1>1. call' = Call(fn, i) /\ code' = c /\ phase' = "vex"
  BY DEF EmitsVex, Call
<1>2. code' \in Seq(Pieces) /\ VexGood(call', code')
  BY <1>1 DEF VexGood
<1> QED BY <1>1, <1>2 DEF EncodingInv, Phases

\* The operands of all calls.
LEMMA Operands ==
  /\ Regs \subseteq 0..15 /\ Imms \subseteq Int /\ Bytes \subseteq 0..255 /\ Thirds \subseteq 0..15
  /\ Bits = {0, 1}
BY OperandAssumption, ThirdsAssumption DEF Bits

\* The encoders of two registers.
LEMMA RegistersKeep ==
  ASSUME EmitRegisters
  PROVE  EncodingInv'
<1>0. PICK r \in Regs, s \in Regs, w \in {0, 1} :
        \/ AluRegReg(w, r, s)
        \/ MovRegReg(w, r, s)
        \/ ImulRegReg(w, r, s)
        \/ Movsx(r, s)
        \/ MovbRegReg(r, s)
        \/ MovzblRegReg(r, s)
        \/ MovzxByte(w, r, s)
        \/ SseRegReg(r, s)
        \/ SseFregReg(w, r, s)
        \/ SseFloatRegFreg(w, r, s)
        \/ SseRegFreg(w, r, s)
  BY DEF EmitRegisters
<1>00. r \in 0..15 /\ s \in 0..15 /\ w \in Bits
  BY Operands
<1>1. CASE AluRegReg(w, r, s)
  <2>1. Good(Call("alu_reg_reg", Instr("alu", w, Gp(r), Gp(s), 0)),
             RegReg("alu", FALSE, w, s, r))
    BY <1>00, TwoRegistersGood
  <2>2. Emits("alu_reg_reg", Instr("alu", w, Gp(r), Gp(s), 0),
              RegReg("alu", FALSE, w, s, r))
    BY <1>1 DEF AluRegReg
  <2> QED BY <2>1, <2>2, EmitsKeeps
<1>2. CASE MovRegReg(w, r, s)
  <2>1. Good(Call("mov_reg_reg", Instr("mov", w, Gp(r), Gp(s), 0)),
             RegReg("mov_store", FALSE, w, s, r))
    BY <1>00, TwoRegistersGood
  <2>2. Emits("mov_reg_reg", Instr("mov", w, Gp(r), Gp(s), 0),
              RegReg("mov_store", FALSE, w, s, r))
    BY <1>2 DEF MovRegReg
  <2> QED BY <2>1, <2>2, EmitsKeeps
<1>3. CASE ImulRegReg(w, r, s)
  <2>1. Good(Call("imul_reg_reg", Instr("imul", w, Gp(r), Gp(s), 0)),
             RegReg("imul", FALSE, w, r, s))
    BY <1>00, TwoRegistersGood
  <2>2. Emits("imul_reg_reg", Instr("imul", w, Gp(r), Gp(s), 0),
              RegReg("imul", FALSE, w, r, s))
    BY <1>3 DEF ImulRegReg
  <2> QED BY <2>1, <2>2, EmitsKeeps
<1>4. CASE Movsx(r, s)
  <2>1. Good(Call("movsx", Instr("movsx", 1, Gp(r), Gp(s), 0)),
             RegReg("movsx", TRUE, 1, r, s))
    BY <1>00, TwoRegistersGood
  <2>2. Emits("movsx", Instr("movsx", 1, Gp(r), Gp(s), 0),
              RegReg("movsx", TRUE, 1, r, s))
    BY <1>4 DEF Movsx
  <2> QED BY <2>1, <2>2, EmitsKeeps
<1>5. CASE MovbRegReg(r, s)
  <2>1. Good(Call("movb_reg_reg", Instr("movb", 0, Byte(r), Byte(s), 0)),
             OptionalRex(s \notin BasicRegs, 0, Msb(r), 0, Msb(s)) \o Op("movb_store") \o ModRM(3, And7(s), And7(r)))
    BY <1>00, MovbGood
  <2>2. Emits("movb_reg_reg", Instr("movb", 0, Byte(r), Byte(s), 0),
              OptionalRex(s \notin BasicRegs, 0, Msb(r), 0, Msb(s)) \o Op("movb_store") \o ModRM(3, And7(s), And7(r)))
    BY <1>5 DEF MovbRegReg
  <2> QED BY <2>1, <2>2, EmitsKeeps
<1>6. CASE MovzblRegReg(r, s)
  <2>1. Good(Call("movzbl_reg_reg", Instr("movzx", 0, Gp(r), Byte(s), 0)),
             RegReg("movzx", s \notin BasicRegs, 0, r, s))
    BY <1>00, TwoRegistersGood
  <2>2. Emits("movzbl_reg_reg", Instr("movzx", 0, Gp(r), Byte(s), 0),
              RegReg("movzx", s \notin BasicRegs, 0, r, s))
    BY <1>6 DEF MovzblRegReg
  <2> QED BY <2>1, <2>2, EmitsKeeps
<1>7. CASE MovzxByte(w, r, s)
  <2>1. Good(Call("movzx_byte", Instr("movzx", w, Gp(r), Byte(s), 0)),
             RegReg("movzx", FALSE, w, r, s))
    BY <1>00, MovzxByteGood
  <2>2. Emits("movzx_byte", Instr("movzx", w, Gp(r), Byte(s), 0),
              RegReg("movzx", FALSE, w, r, s))
    BY <1>7 DEF MovzxByte
  <2> QED BY <2>1, <2>2, EmitsKeeps
<1>8. CASE SseRegReg(r, s)
  <2>1. Good(Call("sse_freg_freg", Instr("sse", 0, Xmm(r), Xmm(s), 0)),
             Prefix \o RegReg("sse", FALSE, 0, r, s))
    BY <1>00, TwoRegistersGood
  <2>2. Emits("sse_freg_freg", Instr("sse", 0, Xmm(r), Xmm(s), 0),
              Prefix \o RegReg("sse", FALSE, 0, r, s))
    BY <1>8 DEF SseRegReg
  <2> QED BY <2>1, <2>2, EmitsKeeps
<1>9. CASE SseFregReg(w, r, s)
  <2>1. Good(Call("sse_freg_reg", Instr("cvt", w, Xmm(r), Gp(s), 0)),
             Prefix \o RegReg("xmm_from_general", FALSE, w, r, s))
    BY <1>00, TwoRegistersGood
  <2>2. Emits("sse_freg_reg", Instr("cvt", w, Xmm(r), Gp(s), 0),
              Prefix \o RegReg("xmm_from_general", FALSE, w, r, s))
    BY <1>9 DEF SseFregReg
  <2> QED BY <2>1, <2>2, EmitsKeeps
<1>10. CASE SseFloatRegFreg(w, r, s)
  <2>1. Good(Call("sse_float_reg_freg", Instr("cvt", w, Gp(r), Xmm(s), 0)),
             Prefix \o RegReg("general_from_xmm", FALSE, w, r, s))
    BY <1>00, TwoRegistersGood
  <2>2. Emits("sse_float_reg_freg", Instr("cvt", w, Gp(r), Xmm(s), 0),
              Prefix \o RegReg("general_from_xmm", FALSE, w, r, s))
    BY <1>10 DEF SseFloatRegFreg
  <2> QED BY <2>1, <2>2, EmitsKeeps
<1>11. CASE SseRegFreg(w, r, s)
  <2>1. Good(Call("sse_reg_freg", Instr("cvt", w, Gp(r), Xmm(s), 0)),
             Prefix \o RegReg("general_from_xmm_store", FALSE, w, r, s))
    BY <1>00, SseRegFregGood
  <2>2. Emits("sse_reg_freg", Instr("cvt", w, Gp(r), Xmm(s), 0),
              Prefix \o RegReg("general_from_xmm_store", FALSE, w, r, s))
    BY <1>11 DEF SseRegFreg
  <2> QED BY <2>1, <2>2, EmitsKeeps
<1> QED BY <1>0, <1>1, <1>2, <1>3, <1>4, <1>5, <1>6, <1>7, <1>8, <1>9, <1>10, <1>11

\* The encoders of one register.
LEMMA OneRegisterKeeps ==
  ASSUME EmitOneRegister
  PROVE  EncodingInv'
<1>0. PICK r \in Regs, w \in {0, 1} :
        \/ SetbReg(r)
        \/ AlulReg(w, r)
        \/ NotRegByte(r)
        \/ JmpReg(r)
        \/ PushqReg(r)
        \/ \E i \in Imms : MovlImmReg(i, r) \/ MovqImmReg(i, r) \/ MovqImm64Reg(i, r) \/ AluqImmReg(w, i, r)
        \/ \E i \in Bytes : AlubImmReg(i, r) \/ ShrRegImm(w, r, i)
        \/ \E i \in Bytes, mode \in IntModes : SubImmMem(mode, r, i)
  BY DEF EmitOneRegister
<1>00. r \in 0..15 /\ w \in Bits
  BY Operands
<1>1. CASE SetbReg(r)
  <2>1. Good(Call("setb_reg", Instr("set", 0, Byte(r), NoOperand, 0)),
             OptionalRex(r \notin BasicRegs, 0, 0, 0, Msb(r)) \o Op("set") \o ModRM(3, 0, And7(r)))
    BY <1>00, OneRegisterGood
  <2>2. Emits("setb_reg", Instr("set", 0, Byte(r), NoOperand, 0),
              OptionalRex(r \notin BasicRegs, 0, 0, 0, Msb(r)) \o Op("set") \o ModRM(3, 0, And7(r)))
    BY <1>1 DEF SetbReg
  <2> QED BY <2>1, <2>2, EmitsKeeps
<1>2. CASE AlulReg(w, r)
  <2>1. Good(Call("alul_reg", Instr("unary", w, Gp(r), NoOperand, 0)),
             RegReg("unary", FALSE, w, 2, r))
    BY <1>00, TwoRegistersGood
  <2>2. Emits("alul_reg", Instr("unary", w, Gp(r), NoOperand, 0),
              RegReg("unary", FALSE, w, 2, r))
    BY <1>2 DEF AlulReg
  <2> QED BY <2>1, <2>2, EmitsKeeps
<1>3. CASE NotRegByte(r)
  <2>1. Good(Call("not_reg_byte", Instr("unaryb", 0, Byte(r), NoOperand, 0)),
             RegReg("unaryb", FALSE, 0, 2, r))
    BY <1>00, NotByteGood
  <2>2. Emits("not_reg_byte", Instr("unaryb", 0, Byte(r), NoOperand, 0),
              RegReg("unaryb", FALSE, 0, 2, r))
    BY <1>3 DEF NotRegByte
  <2> QED BY <2>1, <2>2, EmitsKeeps
<1>4. CASE JmpReg(r)
  <2>1. Good(Call("jmp_reg", Instr("jmp", 0, Gp(r), NoOperand, 0)),
             RegReg("jmp", FALSE, 0, 4, r))
    BY <1>00, TwoRegistersGood
  <2>2. Emits("jmp_reg", Instr("jmp", 0, Gp(r), NoOperand, 0),
              RegReg("jmp", FALSE, 0, 4, r))
    BY <1>4 DEF JmpReg
  <2> QED BY <2>1, <2>2, EmitsKeeps
<1>5. CASE PushqReg(r)
  <2>1. Good(Call("pushq_reg", Instr("push", 0, Gp(r), NoOperand, 0)),
             OptionalRex(FALSE, 0, 0, 0, Msb(r)) \o OpReg("push", And7(r)))
    BY <1>00, OneRegisterGood
  <2>2. Emits("pushq_reg", Instr("push", 0, Gp(r), NoOperand, 0),
              OptionalRex(FALSE, 0, 0, 0, Msb(r)) \o OpReg("push", And7(r)))
    BY <1>5 DEF PushqReg
  <2> QED BY <2>1, <2>2, EmitsKeeps
<1>6. ASSUME NEW i \in Imms, MovlImmReg(i, r) \/ MovqImmReg(i, r) \/ MovqImm64Reg(i, r) \/ AluqImmReg(w, i, r)
      PROVE  EncodingInv'
  <2>0. i \in Int
    BY Operands
  <2>1. CASE MovlImmReg(i, r)
    <3>1. Good(Call("movl_imm_reg", Instr("movimm", 0, Gp(r), NoOperand, i)), MovlImm(r, i))
      BY <1>00, <2>0, MoveImmGood
    <3>2. Emits("movl_imm_reg", Instr("movimm", 0, Gp(r), NoOperand, i), MovlImm(r, i))
      BY <2>1 DEF MovlImmReg, MovlImm
    <3> QED BY <3>1, <3>2, EmitsKeeps
  <2>2. CASE MovqImmReg(i, r)
    <3>1. Good(Call("movq_imm_reg", Instr("movimm", 1, Gp(r), NoOperand, i)), MovqImm(r, i))
      BY <1>00, <2>0, MoveImmGood
    <3>2. Emits("movq_imm_reg", Instr("movimm", 1, Gp(r), NoOperand, i), MovqImm(r, i))
      BY <2>2 DEF MovqImmReg, MovqImm
    <3> QED BY <3>1, <3>2, EmitsKeeps
  <2>3. CASE MovqImm64Reg(i, r)
    <3>1. Good(Call("movq_imm64_reg", Instr("movimm", 1, Gp(r), NoOperand, i)), MovqImm64(r, i))
      BY <1>00, <2>0, MoveImmGood
    <3>2. Emits("movq_imm64_reg", Instr("movimm", 1, Gp(r), NoOperand, i), MovqImm64(r, i))
      BY <2>3 DEF MovqImm64Reg, MovqImm64
    <3> QED BY <3>1, <3>2, EmitsKeeps
  <2>4. CASE AluqImmReg(w, i, r)
    <3>1. Good(Call("aluq_imm_reg", Instr("aluimm", w, Gp(r), NoOperand, i)), AluqImm(w, r, i))
      BY <1>00, <2>0, AluqImmGood
    <3>2. Emits("aluq_imm_reg", Instr("aluimm", w, Gp(r), NoOperand, i), AluqImm(w, r, i))
      BY <2>4 DEF AluqImmReg, AluqImm
    <3> QED BY <3>1, <3>2, EmitsKeeps
  <2> QED BY <1>6, <2>1, <2>2, <2>3, <2>4
<1>7. ASSUME NEW i \in Bytes, AlubImmReg(i, r) \/ ShrRegImm(w, r, i)
      PROVE  EncodingInv'
  <2>0. i \in 0..255
    BY Operands
  <2>1. CASE AlubImmReg(i, r)
    <3>1. Good(Call("alub_imm_reg", Instr("alubimm", 0, Byte(r), NoOperand, i)), AlubImm(r, i))
      BY <1>00, <2>0, AlubImmGood
    <3>2. Emits("alub_imm_reg", Instr("alubimm", 0, Byte(r), NoOperand, i), AlubImm(r, i))
      BY <2>1 DEF AlubImmReg, AlubImm
    <3> QED BY <3>1, <3>2, EmitsKeeps
  <2>2. CASE ShrRegImm(w, r, i)
    <3>1. Good(Call("shr_reg_imm", Instr("shift", w, Gp(r), NoOperand, i)), ShrImm(w, r, i))
      BY <1>00, <2>0, ShrImmGood
    <3>2. Emits("shr_reg_imm", Instr("shift", w, Gp(r), NoOperand, i), ShrImm(w, r, i))
      BY <2>2 DEF ShrRegImm, ShrImm
    <3> QED BY <3>1, <3>2, EmitsKeeps
  <2> QED BY <1>7, <2>1, <2>2
<1>8. ASSUME NEW i \in Bytes, NEW mode \in IntModes, SubImmMem(mode, r, i)
      PROVE  EncodingInv'
  <2> DEFINE byte == mode = "Int8"
             v == Wide(mode)
  <2>0. i \in 0..255 /\ byte \in BOOLEAN /\ v \in Bits
    BY Operands DEF Wide
  <2>2. Emits("sub_imm_mem", Instr(IF byte THEN "alubimm" ELSE "aluimm", v, Base(r, 0), NoOperand, i),
              SubImm(v, IF byte THEN "alub_imm1" ELSE "alu_imm1", r, i))
    BY <1>8 DEF SubImmMem, SubImm
  <2> HIDE DEF byte, v
  <2>1. Good(Call("sub_imm_mem", Instr(IF byte THEN "alubimm" ELSE "aluimm", v, Base(r, 0), NoOperand, i)),
             SubImm(v, IF byte THEN "alub_imm1" ELSE "alu_imm1", r, i))
    BY <1>00, <2>0, SubImmMemGood
  <2> QED BY <2>1, <2>2, EmitsKeeps
<1> QED BY <1>0, <1>1, <1>2, <1>3, <1>4, <1>5, <1>6, <1>7, <1>8

\* The widths of the modes.
LEMMA WidesAre == /\ \A mode : Wide(mode) \in Bits
                  /\ Wide("Int8") = 0
BY DEF Wide, Bits

\* load_mem.
LEMMA LoadKeeps ==
  ASSUME NEW r \in 0..15, NEW m \in Where, NEW mode, LoadMem(mode, r, m)
  PROVE  EncodingInv'
<1>1. CASE mode = "Int8"
  <2>1. Good(Call("load_mem", Instr("movzx", 0, Gp(r), m, 0)), RegMem("movzx", FALSE, 0, r, m))
    BY WidesAre, AddressersGood
  <2>2. Emits("load_mem", Instr("movzx", 0, Gp(r), m, 0), RegMem("movzx", FALSE, 0, r, m))
    BY <1>1 DEF LoadMem
  <2> QED BY <2>1, <2>2, EmitsKeeps
<1>2. CASE mode # "Int8"
  <2>1. Good(Call("load_mem", Instr("mov", Wide(mode), Gp(r), m, 0)), RegMem("mov_load", FALSE, Wide(mode), r, m))
    BY WidesAre, AddressersGood
  <2>2. Emits("load_mem", Instr("mov", Wide(mode), Gp(r), m, 0), RegMem("mov_load", FALSE, Wide(mode), r, m))
    BY <1>2 DEF LoadMem
  <2> QED BY <2>1, <2>2, EmitsKeeps
<1> QED BY <1>1, <1>2

\* store_mem.
LEMMA StoreKeeps ==
  ASSUME NEW r \in 0..15, NEW m \in Where, NEW mode, StoreMem(mode, m, r)
  PROVE  EncodingInv'
<1>1. CASE mode = "Int8" /\ m.index = None
  <2> DEFINE f == mode = "Int8" /\ m.index = None /\ r \notin BasicRegs
  <2>1. Good(Call("mov_reg_memq", Instr("movb", 0, m, Byte(r), 0)), RegMem("movb_store", r \notin BasicRegs, 0, r, m))
    BY WidesAre, AddressersGood
  <2>2. Emits("mov_reg_memq", Instr("movb", 0, m, Byte(r), 0), RegMem("movb_store", f, Wide("Int8"), r, m))
    BY <1>1 DEF StoreMem
  <2>3. f = (r \notin BasicRegs)
    BY <1>1
  <2> HIDE DEF f
  <2>4. Emits("mov_reg_memq", Instr("movb", 0, m, Byte(r), 0), RegMem("movb_store", r \notin BasicRegs, 0, r, m))
    BY <2>2, <2>3, WidesAre
  <2> QED BY <2>1, <2>4, EmitsKeeps
<1>2. CASE mode = "Int8" /\ m.index # None
  <2> DEFINE f == mode = "Int8" /\ m.index = None /\ r \notin BasicRegs
  <2>1. Good(Call("mov_reg_memindex", Instr("movb", 0, m, Byte(r), 0)), RegMem("movb_store", FALSE, 0, r, m))
    BY WidesAre, AddressersGood
  <2>2. Emits("mov_reg_memindex", Instr("movb", 0, m, Byte(r), 0), RegMem("movb_store", f, Wide("Int8"), r, m))
    BY <1>2 DEF StoreMem
  <2>3. f = FALSE
    BY <1>2
  <2> HIDE DEF f
  <2>4. Emits("mov_reg_memindex", Instr("movb", 0, m, Byte(r), 0), RegMem("movb_store", FALSE, 0, r, m))
    BY <2>2, <2>3, WidesAre
  <2> QED BY <2>1, <2>4, EmitsKeeps
<1>3. CASE mode # "Int8"
  <2> DEFINE fn == IF m.index = None THEN "mov_reg_memq" ELSE "mov_reg_memindex"
             f == mode = "Int8" /\ m.index = None /\ r \notin BasicRegs
  <2>1. fn \in {"mov_reg_memq", "mov_reg_memindex"}
    OBVIOUS
  <2>2. Emits(fn, Instr("mov", Wide(mode), m, Gp(r), 0), RegMem("mov_store", f, Wide(mode), r, m))
    BY <1>3 DEF StoreMem
  <2>3. f = FALSE
    BY <1>3
  <2> HIDE DEF f, fn
  <2>4. Emits(fn, Instr("mov", Wide(mode), m, Gp(r), 0), RegMem("mov_store", FALSE, Wide(mode), r, m))
    BY <2>2, <2>3
  <2>5. Good(Call(fn, Instr("mov", Wide(mode), m, Gp(r), 0)), RegMem("mov_store", FALSE, Wide(mode), r, m))
    BY <2>1, WidesAre, AddressersGood
  <2> QED BY <2>4, <2>5, EmitsKeeps
<1> QED BY <1>1, <1>2, <1>3

\* emit_cmp_mem_reg and emit_cmp_memindex_reg.
LEMMA CmpKeeps ==
  ASSUME NEW r \in 0..15, NEW m \in Where, NEW mode, CmpMem(mode, m, r)
  PROVE  EncodingInv'
<1>1. CASE mode = "Int8"
  <2>1. Good(Call("cmp_mem", Instr("cmpb", 0, m, Byte(r), 0)), RegMem("cmpb", FALSE, 0, r, m))
    BY WidesAre, AddressersGood
  <2>2. Emits("cmp_mem", Instr("cmpb", 0, m, Byte(r), 0), RegMem("cmpb", FALSE, Wide("Int8"), r, m))
    BY <1>1 DEF CmpMem
  <2> QED BY <2>1, <2>2, WidesAre, EmitsKeeps
<1>2. CASE mode # "Int8"
  <2>1. Good(Call("cmp_mem", Instr("alu", Wide(mode), m, Gp(r), 0)), RegMem("alu", FALSE, Wide(mode), r, m))
    BY WidesAre, AddressersGood
  <2>2. Emits("cmp_mem", Instr("alu", Wide(mode), m, Gp(r), 0), RegMem("alu", FALSE, Wide(mode), r, m))
    BY <1>2 DEF CmpMem
  <2> QED BY <2>1, <2>2, EmitsKeeps
<1> QED BY <1>1, <1>2

\* The encoders of a register and an address.
LEMMA MemoryKeeps ==
  ASSUME EmitMemory
  PROVE  EncodingInv'
<1>0. PICK r \in Regs, m \in Where :
        \/ \E mode \in IntModes : LoadMem(mode, r, m) \/ StoreMem(mode, m, r) \/ CmpMem(mode, m, r)
        \/ MovbMemqReg(m, r)
        \/ MovMemindexByte(m, r)
        \/ \E w \in {0, 1} : MovAr(w, r, m)
        \/ Lea(r, m)
        \/ SseRegMem(r, m)
        \/ SseStore(m, r)
  BY MemoryIsWhere DEF EmitMemory
<1>00. r \in 0..15 /\ 0 \in Bits
  BY Operands
<1>1. ASSUME NEW mode \in IntModes, LoadMem(mode, r, m) \/ StoreMem(mode, m, r) \/ CmpMem(mode, m, r)
      PROVE  EncodingInv'
  BY <1>00, <1>1, LoadKeeps, StoreKeeps, CmpKeeps
<1>2. CASE MovbMemqReg(m, r)
  <2>1. Good(Call("movb_memq_reg", Instr("movb", 0, Byte(r), m, 0)), RegMem("movb_load", r \notin BasicRegs, 0, r, m))
    BY <1>00, AddressersGood
  <2>2. Emits("movb_memq_reg", Instr("movb", 0, Byte(r), m, 0), RegMem("movb_load", r \notin BasicRegs, 0, r, m))
    BY <1>2 DEF MovbMemqReg
  <2> QED BY <2>1, <2>2, EmitsKeeps
<1>3. CASE MovMemindexByte(m, r)
  <2>1. Good(Call("mov_memindex_reg", Instr("movb", 0, Byte(r), m, 0)), RegMem("movb_load", FALSE, 0, r, m))
    BY <1>00, AddressersGood
  <2>2. Emits("mov_memindex_reg", Instr("movb", 0, Byte(r), m, 0), RegMem("movb_load", FALSE, 0, r, m))
    BY <1>3 DEF MovMemindexByte
  <2> QED BY <2>1, <2>2, EmitsKeeps
<1>4. ASSUME NEW w \in {0, 1}, MovAr(w, r, m) PROVE EncodingInv'
  <2>0. w \in Bits
    BY Operands
  <2>1. Good(Call("mov_ar", Instr("mov", w, Gp(r), m, 0)), RegMem("mov_load", FALSE, w, r, m))
    BY <1>00, <2>0, AddressersGood
  <2>2. Emits("mov_ar", Instr("mov", w, Gp(r), m, 0), RegMem("mov_load", FALSE, w, r, m))
    BY <1>4 DEF MovAr
  <2> QED BY <2>1, <2>2, EmitsKeeps
<1>5. CASE Lea(r, m)
  <2>1. Good(Call("lea", Instr("lea", 1, Gp(r), m, 0)), RegMem("lea", FALSE, 1, r, m))
    BY <1>00, AddressersGood
  <2>2. Emits("lea", Instr("lea", 1, Gp(r), m, 0), RegMem("lea", FALSE, 1, r, m))
    BY <1>5 DEF Lea
  <2> QED BY <2>1, <2>2, EmitsKeeps
<1>6. CASE SseRegMem(r, m)
  <2>1. Good(Call("sse_freg_mem", Instr("sse", 0, Xmm(r), m, 0)), Prefix \o RegMem("sse", FALSE, 0, r, m))
    BY <1>00, AddressersGood
  <2>2. Emits("sse_freg_mem", Instr("sse", 0, Xmm(r), m, 0), Prefix \o RegMem("sse", FALSE, 0, r, m))
    BY <1>6 DEF SseRegMem
  <2> QED BY <2>1, <2>2, EmitsKeeps
<1>7. CASE SseStore(m, r)
  <2>1. Good(Call("sse_store", Instr("sse", 0, m, Xmm(r), 0)), Prefix \o RegMem("sse_store", FALSE, 0, r, m))
    BY <1>00, AddressersGood
  <2>2. Emits("sse_store", Instr("sse", 0, m, Xmm(r), 0), Prefix \o RegMem("sse_store", FALSE, 0, r, m))
    BY <1>7 DEF SseStore
  <2> QED BY <2>1, <2>2, EmitsKeeps
<1> QED BY <1>0, <1>1, <1>2, <1>3, <1>4, <1>5, <1>6, <1>7

\* A comparison with memory under a base is that of any address.
LEMMA CmpImmKeeps ==
  ASSUME NEW m \in Where, NEW mode, NEW i \in Int, CmpMemImm(mode, m, i)
  PROVE  EncodingInv'
<1> DEFINE byte == mode = "Int8"
           v == Wide(mode)
           asked == Instr(IF byte THEN "alubimm" ELSE "aluimm", v, m, NoOperand, i)
           head == RegMem(CmpOp(byte, i), FALSE, v, 7, m)
<1>1. /\ call' = Call("cmp_mem_imm", asked)
      /\ IF byte /\ ~FitsI8(i) THEN code' = head /\ phase' = "panicked"
         ELSE code' = head \o Number(i) /\ phase' = "emitted"
  <2>1. MemPieces(7, m) = Membase(m.base, m.disp, 7)
    <3>1. m.index = None
      BY DEF CmpMemImm
    <3>2. m.base # None
      BY <3>1, Addresses DEF None, RIP
    <3> QED BY <3>1, <3>2 DEF MemPieces
  <2> QED BY <2>1 DEF CmpMemImm, RegMem, CmpOp, Call
<1>2. byte \in BOOLEAN /\ v \in Bits
  BY WidesAre
<1>3. CmpOp(byte, i) \in Names
  BY Shapes DEF CmpOp
<1> HIDE DEF byte, v
<1>4. head \in Seq(Pieces)
  <2>1. 7 \in 0..15 /\ FALSE \in BOOLEAN
    OBVIOUS
  <2> QED BY <1>2, <1>3, <2>1, RegMemIn
<1>5. CASE byte /\ ~FitsI8(i)
  BY <1>1, <1>4, <1>5 DEF EncodingInv, Phases
<1>6. CASE ~(byte /\ ~FitsI8(i))
  <2>1. Good(Call("cmp_mem_imm", asked), head \o Number(i))
    BY <1>2, <1>6, CmpMemImmGood
  <2> HIDE DEF asked, head
  <2>2. call' = Call("cmp_mem_imm", asked) /\ code' = head \o Number(i) /\ phase' = "emitted"
    BY <1>1, <1>6
  <2>3. Good(call', code') /\ code' \in Seq(Pieces)
    BY <2>1, <2>2 DEF Good
  <2> QED BY <2>2, <2>3 DEF EncodingInv, Phases
<1> QED BY <1>5, <1>6

\* The encoders of an address and an immediate.
LEMMA MemoryImmKeeps ==
  ASSUME EmitMemoryImm
  PROVE  EncodingInv'
<1>0. PICK m \in Where : \/ \E mode \in IntModes, i \in Imms : CmpMemImm(mode, m, i)
                        \/ \E i \in Bytes : MovbImmMemq(i, m)
  BY MemoryIsWhere DEF EmitMemoryImm
<1>1. ASSUME NEW mode \in IntModes, NEW i \in Imms, CmpMemImm(mode, m, i) PROVE EncodingInv'
  BY <1>1, Operands, CmpImmKeeps
<1>2. ASSUME NEW i \in Bytes, MovbImmMemq(i, m) PROVE EncodingInv'
  <2>0. i \in 0..255
    BY Operands
  <2>1. Good(Call("movb_imm_memq", Instr("movbimm", 0, m, NoOperand, i)), RegMem("movb_imm1", FALSE, 0, 0, m) \o Emit8(i))
    BY <2>0, MovbImmMemGood
  <2>2. Emits("movb_imm_memq", Instr("movbimm", 0, m, NoOperand, i), RegMem("movb_imm1", FALSE, 0, 0, m) \o Emit8(i))
    BY <1>2 DEF MovbImmMemq
  <2> QED BY <2>1, <2>2, EmitsKeeps
<1> QED BY <1>0, <1>1, <1>2

\* Bits of the SIB byte that it has are those of a factor.
LEMMA ScaledKeeps ==
  ASSUME EmitScaled
  PROVE  EncodingInv'
<1>1. PICK r \in Regs, s \in Regs, i \in Bytes, bits \in 0..4 : MovbImmMemscaleq(i, r, s, bits)
  BY DEF EmitScaled
<1>2. r \in 0..15 /\ s \in 0..15 /\ i \in 0..255
  BY Operands
<1> DEFINE m == Index(r, s, 2 ^ bits, 0)
           asked == Instr("movbimm", 0, m, NoOperand, i)
           rex == OptionalRex(FALSE, 0, 0, Msb(s), Msb(r))
           opc == Op("movb_imm1")
           mode == ModRM(0, 0, 4)
           sib == Sib(bits, And7(s), And7(r))
<1>3. /\ call' = Call("movb_imm_memscaleq", asked)
      /\ IF bits > 3 THEN code' = (rex \o opc) \o mode /\ phase' = "panicked"
         ELSE code' = (((rex \o opc) \o mode) \o sib) \o Emit8(i) /\ phase' = "emitted"
  BY <1>1 DEF MovbImmMemscaleq, Call
<1>4. rex \in Seq(Pieces) /\ opc \in Seq(Pieces) /\ mode \in Seq(Pieces)
  <2>1. rex \in Seq(Pieces)
    <3>1. Msb(s) \in Bits /\ Msb(r) \in Bits /\ 0 \in Bits /\ FALSE \in BOOLEAN
      BY <1>2, Halves DEF Bits
    <3> QED BY <3>1, OptionalRexIn
  <2>2. opc \in Seq(Pieces)
    BY MemoryShapes, SinglePieces
  <2>3. mode \in Seq(Pieces)
    BY DEF ModRM, Pieces, ModRMPiece, Low
  <2> QED BY <2>1, <2>2, <2>3
<1>5. CASE bits > 3
  <2>1. (rex \o opc) \o mode \in Seq(Pieces)
    BY <1>4, ConcatProperties
  <2> QED BY <1>3, <1>5, <2>1 DEF EncodingInv, Phases
<1>6. CASE ~(bits > 3)
  <2>1. bits \in 0..3 /\ 2 ^ bits \in {1, 2, 4, 8} /\ Log2(2 ^ bits) = bits
    <3>1. 2^0 = 1 /\ 2^1 = 2 /\ 2^2 = 4 /\ 2^3 = 8
      OBVIOUS
    <3>2. bits \in {0, 1, 2, 3}
      BY <1>6
    <3>3. Log2(1) = 0 /\ Log2(2) = 1 /\ Log2(4) = 2 /\ Log2(8) = 3
      <4>1. \A e \in 0..3 : e = 0 \/ e = 1 \/ e = 2 \/ e = 3
        OBVIOUS
      <4>2. ASSUME NEW e \in 0..3
            PROVE  /\ 2 ^ e = 1 => e = 0
                   /\ 2 ^ e = 2 => e = 1
                   /\ 2 ^ e = 4 => e = 2
                   /\ 2 ^ e = 8 => e = 3
        <5>1. CASE e = 0
          BY <3>1, <5>1
        <5>2. CASE e = 1
          BY <3>1, <5>2
        <5>3. CASE e = 2
          BY <3>1, <5>3
        <5>4. CASE e = 3
          BY <3>1, <5>4
        <5> QED BY <4>1, <5>1, <5>2, <5>3, <5>4
      <4>3. \A s0 \in {1, 2, 4, 8} : Log2(s0) \in 0..3 /\ 2 ^ Log2(s0) = s0
        BY Factors
      <4> QED BY <4>2, <4>3
    <3>4. CASE bits = 0
      BY <3>1, <3>3, <3>4
    <3>5. CASE bits = 1
      BY <3>1, <3>3, <3>5
    <3>6. CASE bits = 2
      BY <3>1, <3>3, <3>6
    <3>7. CASE bits = 3
      BY <3>1, <3>3, <3>7
    <3> QED BY <3>2, <3>4, <3>5, <3>6, <3>7
  <2>2. m \in Where
    BY <1>2, <2>1 DEF Where, Scaled
  <2>3. Good(Call("movb_imm_memscaleq", asked), RegMem("movb_imm1", FALSE, 0, 0, m) \o Emit8(i))
    BY <1>2, <2>2, MovbImmMemGood
  <2>4. /\ m.base = r /\ m.index = s /\ m.scale = 2 ^ bits /\ m.disp = 0
        /\ m.index # None /\ m.base # None
    BY <1>2 DEF Index, None
  <2>5. MemPieces(0, m) = (mode \o sib) \o <<>>
    <3>1. MemPieces(0, m) = MembaseWithIndexAndScale(m, 0)
      BY <2>4 DEF MemPieces
    <3>2. And7(0) = 0 /\ Mode(0) = 0 /\ Disp(0) = <<>>
      BY DEF And7, Mode, Disp
    <3> HIDE DEF m
    <3> QED BY <2>1, <2>4, <3>1, <3>2 DEF MembaseWithIndexAndScale
  <2>6. RexMem(FALSE, 0, 0, m) = rex
    <3>1. Msb(0) = 0
      BY DEF Msb, RIP
    <3> HIDE DEF m
    <3> QED BY <2>4, <3>1 DEF RexMem
  <2>7. mode \in Seq(Pieces) /\ sib \in Seq(Pieces) /\ mode \o sib \in Seq(Pieces)
    <3>1. And7(s) \in Low /\ And7(r) \in Low
      BY <1>2, Halves
    <3>2. sib \in Seq(Pieces)
      BY <2>1, <3>1 DEF Sib, Pieces, SibPiece
    <3> QED BY <1>4, <3>2, ConcatProperties
  <2>8. (((rex \o opc) \o mode) \o sib) \o Emit8(i) = RegMem("movb_imm1", FALSE, 0, 0, m) \o Emit8(i)
    <3> HIDE DEF m, rex, opc, mode, sib
    <3>1. (mode \o sib) \o <<>> = mode \o sib
      BY <2>7, ConcatEmptySeq
    <3>2. ((rex \o opc) \o mode) \o sib = (rex \o opc) \o (mode \o sib)
      BY <1>4, <2>7, ConcatProperties, ConcatAssociative
    <3>3. RegMem("movb_imm1", FALSE, 0, 0, m) = (rex \o opc) \o (mode \o sib)
      BY <2>5, <2>6, <3>1 DEF RegMem, opc
    <3> QED BY <3>2, <3>3
  <2> HIDE DEF asked, m
  <2>9. /\ call' = Call("movb_imm_memscaleq", asked) /\ phase' = "emitted"
        /\ code' = RegMem("movb_imm1", FALSE, 0, 0, m) \o Emit8(i)
    BY <1>3, <1>6, <2>8
  <2>10. Good(call', code') /\ code' \in Seq(Pieces)
    BY <2>3, <2>9 DEF Good
  <2> QED BY <2>9, <2>10 DEF EncodingInv, Phases
<1> QED BY <1>5, <1>6

\* The assertion of msb.
LEMMA StoreAtRipKeeps ==
  ASSUME NEW r, NEW d, StoreByteAtRip(d, r)
  PROVE  EncodingInv'
BY DEF StoreByteAtRip, EncodingInv, Phases

(***************************************************************************)
(* The steps of the specification.                                         *)
(***************************************************************************)

\* The encoders of avx.rs between registers.
LEMMA VexRegistersKeep ==
  ASSUME EmitVexRegisters
  PROVE  EncodingInv'
<1>0. PICK dst \in Regs, src \in Regs, w \in {0, 1} :
        \/ \E src1 \in Regs : VFma(w, dst, src1, src) \/ \E pp \in SimdPrefixes : VInstr(pp, w, dst, src1, src)
        \/ \E src1 \in Regs, pp \in SimdPrefixes : VConvert(pp, dst, src1, src)
        \/ VMovaps(dst, src)
        \/ VMovFregReg(w, dst, src)
        \/ VMovRegFreg(w, dst, src)
        \/ \E m \in {None0F38, None0F3A} : Broadcast(m, w, dst, src)
  BY DEF EmitVexRegisters
<1>00. dst \in 0..15 /\ src \in 0..15 /\ w \in Bits /\ 0 \in 0..15 /\ 0 \in 0..3
  BY Operands
<1>1. ASSUME NEW src1 \in Regs, VFma(w, dst, src1, src) PROVE EncodingInv'
  <2>0. src1 \in 0..15
    BY Operands
  <2>1. VexGood(Call("vfma", VexInstr("vfma", Prefix66, w, Xmm(dst), Xmm(src1), Xmm(src))),
                VexRegs("vfma", Prefix66, None0F38, w, dst, src1, src))
    BY <1>00, <2>0, VexRegistersGood
  <2>2. EmitsVex("vfma", VexInstr("vfma", Prefix66, w, Xmm(dst), Xmm(src1), Xmm(src)),
                 VexRegs("vfma", Prefix66, None0F38, w, dst, src1, src))
    BY <1>1 DEF VFma
  <2> QED BY <2>1, <2>2, EmitsVexKeeps
<1>2. ASSUME NEW src1 \in Regs, NEW pp \in SimdPrefixes, VInstr(pp, w, dst, src1, src) PROVE EncodingInv'
  <2>0. src1 \in 0..15 /\ pp \in 0..3
    BY Operands DEF SimdPrefixes
  <2>1. VexGood(Call("vinstr", VexInstr("varith", pp, 0, Xmm(dst), Xmm(src1), Xmm(src))),
                VexRegs("varith", pp, None0F, w, dst, src1, src))
    BY <1>00, <2>0, VexRegistersGood
  <2>2. EmitsVex("vinstr", VexInstr("varith", pp, 0, Xmm(dst), Xmm(src1), Xmm(src)),
                 VexRegs("varith", pp, None0F, w, dst, src1, src))
    BY <1>2 DEF VInstr
  <2> QED BY <2>1, <2>2, EmitsVexKeeps
<1>3. ASSUME NEW src1 \in Regs, NEW pp \in SimdPrefixes, VConvert(pp, dst, src1, src) PROVE EncodingInv'
  <2>0. src1 \in 0..15 /\ pp \in 0..3
    BY Operands DEF SimdPrefixes
  <2>1. VexGood(Call("vinstr", VexInstr("vconvert", pp, 0, Xmm(dst), Xmm(src1), Xmm(src))),
                VexRegs("vconvert", pp, None0F, 0, dst, src1, src))
    BY <1>00, <2>0, VexConvertGood
  <2>2. EmitsVex("vinstr", VexInstr("vconvert", pp, 0, Xmm(dst), Xmm(src1), Xmm(src)),
                 VexRegs("vconvert", pp, None0F, 0, dst, src1, src))
    BY <1>3 DEF VConvert
  <2> QED BY <2>1, <2>2, EmitsVexKeeps
<1>4. CASE VMovaps(dst, src)
  <2>1. VexGood(Call("vmovaps", VexInstr("vconvert", 0, 0, Xmm(dst), NoOperand, Xmm(src))),
                VexRegs("vconvert", 0, None0F, 0, dst, XMM0, src))
    BY <1>00, VexConvertGood
  <2>2. EmitsVex("vmovaps", VexInstr("vconvert", 0, 0, Xmm(dst), NoOperand, Xmm(src)),
                 VexRegs("vconvert", 0, None0F, 0, dst, XMM0, src))
    BY <1>4 DEF VMovaps
  <2> QED BY <2>1, <2>2, EmitsVexKeeps
<1>5. CASE VMovFregReg(w, dst, src)
  <2>1. VexGood(Call("vmov_freg_reg", VexInstr("vmov", Prefix66, w, Xmm(dst), NoOperand, Gp(src))),
                VexRegs("vmov_load", Prefix66, None0F, w, dst, XMM0, src))
    BY <1>00, VexRegistersGood
  <2>2. EmitsVex("vmov_freg_reg", VexInstr("vmov", Prefix66, w, Xmm(dst), NoOperand, Gp(src)),
                 VexRegs("vmov_load", Prefix66, None0F, w, dst, XMM0, src))
    BY <1>5 DEF VMovFregReg
  <2> QED BY <2>1, <2>2, EmitsVexKeeps
<1>6. CASE VMovRegFreg(w, dst, src)
  <2>1. VexGood(Call("vmov_reg_freg", VexInstr("vmov", Prefix66, w, Gp(dst), NoOperand, Xmm(src))),
                VexPrefix(src, XMM0, dst, Prefix66, None0F, w) \o Op("vmov_store") \o SseModRM(dst, src))
    BY <1>00, VexStoreGood
  <2>2. EmitsVex("vmov_reg_freg", VexInstr("vmov", Prefix66, w, Gp(dst), NoOperand, Xmm(src)),
                 VexPrefix(src, XMM0, dst, Prefix66, None0F, w) \o Op("vmov_store") \o SseModRM(dst, src))
    BY <1>6 DEF VMovRegFreg
  <2> QED BY <2>1, <2>2, EmitsVexKeeps
<1>7. ASSUME NEW m \in {None0F38, None0F3A}, Broadcast(m, w, dst, src) PROVE EncodingInv'
  <2>0. m \in 1..3
    BY VexShapes
  <2>1. VexGood(Call("avx_instr_2op", VexInstr("vbroadcast", Prefix66, w, Xmm(dst), NoOperand, Xmm(src))),
                Pop(VexRegs("vbroadcast", Prefix66, m, w, dst, XMM0, src)))
    BY <1>00, <2>0, VexBroadcastGood
  <2>2. EmitsVex("avx_instr_2op", VexInstr("vbroadcast", Prefix66, w, Xmm(dst), NoOperand, Xmm(src)),
                 Pop(VexRegs("vbroadcast", Prefix66, m, w, dst, XMM0, src)))
    BY <1>7 DEF Broadcast
  <2> QED BY <2>1, <2>2, EmitsVexKeeps
<1> QED BY <1>0, <1>1, <1>2, <1>3, <1>4, <1>5, <1>6, <1>7

\* The encoders of avx.rs with an address.
LEMMA VexMemoryKeeps ==
  ASSUME EmitVexMemory
  PROVE  EncodingInv'
<1>0. PICK dst \in Regs, m \in Where, w \in {0, 1} :
        \/ \E src1 \in Thirds : VFmaMem(w, dst, src1, m) \/ \E pp \in SimdPrefixes : VInstrMem(pp, dst, src1, m)
        \/ VMovapsMem(dst, m)
        \/ VMovFregMem(w, dst, m)
        \/ \E map \in {None0F38, None0F3A} : BroadcastMem(map, w, dst, m)
  BY MemoryIsWhere DEF EmitVexMemory
<1>00. dst \in 0..15 /\ w \in Bits /\ 0 \in 0..15 /\ 0 \in 0..3 /\ 1 \in 1..3
  BY Operands
<1>1. ASSUME NEW src1 \in Thirds, VFmaMem(w, dst, src1, m) PROVE EncodingInv'
  <2>0. src1 \in 0..15
    BY Operands
  <2>1. VexGood(Call("vfma_mem", VexInstr("vfma", Prefix66, w, Xmm(dst), Xmm(src1), m)),
                VexMem("vfma", Prefix66, None0F38, w, dst, src1, m))
    BY <1>00, <2>0, VexMemoryGood
  <2>2. EmitsVex("vfma_mem", VexInstr("vfma", Prefix66, w, Xmm(dst), Xmm(src1), m),
                 VexMem("vfma", Prefix66, None0F38, w, dst, src1, m))
    BY <1>1 DEF VFmaMem
  <2> QED BY <2>1, <2>2, EmitsVexKeeps
<1>2. ASSUME NEW src1 \in Thirds, NEW pp \in SimdPrefixes, VInstrMem(pp, dst, src1, m) PROVE EncodingInv'
  <2>0. src1 \in 0..15 /\ pp \in 0..3
    BY Operands DEF SimdPrefixes
  <2>1. VexGood(Call("vinstrm", VexInstr("varith", pp, 0, Xmm(dst), Xmm(src1), m)),
                VexMem("varith", pp, None0F, 0, dst, src1, m))
    BY <1>00, <2>0, VexMemoryGood
  <2>2. EmitsVex("vinstrm", VexInstr("varith", pp, 0, Xmm(dst), Xmm(src1), m),
                 VexMem("varith", pp, None0F, 0, dst, src1, m))
    BY <1>2 DEF VInstrMem
  <2> QED BY <2>1, <2>2, EmitsVexKeeps
<1>3. CASE VMovapsMem(dst, m)
  <2>1. VexGood(Call("vmovaps_mem", VexInstr("vconvert", 0, 0, Xmm(dst), NoOperand, m)),
                VexMem("vconvert", 0, None0F, 0, dst, XMM0, m))
    BY <1>00, VexMemoryGood
  <2>2. EmitsVex("vmovaps_mem", VexInstr("vconvert", 0, 0, Xmm(dst), NoOperand, m),
                 VexMem("vconvert", 0, None0F, 0, dst, XMM0, m))
    BY <1>3 DEF VMovapsMem
  <2> QED BY <2>1, <2>2, EmitsVexKeeps
<1>4. CASE VMovFregMem(w, dst, m)
  <2>1. VexGood(Call("vmov_freg_mem", VexInstr("vmov", Prefix66, w, Xmm(dst), NoOperand, m)),
                VexMem("vmov_load", Prefix66, None0F, w, dst, XMM0, m))
    BY <1>00, VexMemoryGood
  <2>2. EmitsVex("vmov_freg_mem", VexInstr("vmov", Prefix66, w, Xmm(dst), NoOperand, m),
                 VexMem("vmov_load", Prefix66, None0F, w, dst, XMM0, m))
    BY <1>4 DEF VMovFregMem
  <2> QED BY <2>1, <2>2, EmitsVexKeeps
<1>5. ASSUME NEW map \in {None0F38, None0F3A}, BroadcastMem(map, w, dst, m) PROVE EncodingInv'
  <2>0. map \in 1..3
    BY VexShapes
  <2>1. VexGood(Call("avx_instr_2op", VexInstr("vbroadcast", Prefix66, w, Xmm(dst), NoOperand, m)),
                Pop(VexMem("vbroadcast", Prefix66, map, w, dst, XMM0, m)))
    BY <1>00, <2>0, VexMemoryGood
  <2>2. EmitsVex("avx_instr_2op", VexInstr("vbroadcast", Prefix66, w, Xmm(dst), NoOperand, m),
                 Pop(VexMem("vbroadcast", Prefix66, map, w, dst, XMM0, m)))
    BY <1>5 DEF BroadcastMem
  <2> QED BY <2>1, <2>2, EmitsVexKeeps
<1> QED BY <1>0, <1>1, <1>2, <1>3, <1>4, <1>5

\* Nothing has been emitted at the beginning.
LEMMA EncodingInitially == Init => EncodingInv
<1>1. <<>> \in Seq(Pieces)
  OBVIOUS
<1> QED BY <1>1 DEF Init, EncodingInv, Phases

\* Every call, and the processor, keeps the invariant.
LEMMA EncodingStep == EncodingInv /\ [Next \/ VexNext]_vars => EncodingInv'
<1> SUFFICES ASSUME EncodingInv, [Next \/ VexNext]_vars PROVE EncodingInv'
  OBVIOUS
<1>1. CASE Next
  <2>1. CASE Emitting /\ \E r \in Regs, d \in Imms : StoreByteAtRip(d, r)
    BY <2>1, StoreAtRipKeeps
  <2>2. CASE Decode
    BY <2>2 DEF Decode, EncodingInv, Phases, Good
  <2> QED BY <1>1, <2>1, <2>2, RegistersKeep, OneRegisterKeeps, MemoryKeeps, MemoryImmKeeps, ScaledKeeps DEF Next
<1>2. CASE DecodeVex
  BY <1>2 DEF DecodeVex, EncodingInv, Phases, VexGood
<1>3. CASE UNCHANGED vars
  BY <1>3 DEF vars, EncodingInv, Phases
<1> QED BY <1>1, <1>2, <1>3, VexRegistersKeep, VexMemoryKeeps DEF VexNext

\* The invariant says what the properties ask.
LEMMA EncodingImplies == EncodingInv => TypeOK /\ StaysInStep /\ DecodesAsAsked /\ VexDecodesAsAsked
<1> SUFFICES ASSUME EncodingInv PROVE TypeOK /\ StaysInStep /\ DecodesAsAsked /\ VexDecodesAsAsked
  OBVIOUS
<1>1. TypeOK
  <2>1. ASSUME NEW j \in DOMAIN code
        PROVE  code[j].k \in PieceKinds /\ FieldsOK(code[j]) /\ (code[j].k = "n1" => code[j].n \in -128..255)
    <3>1. code[j] \in Pieces
      <4>1. code \in Seq(Pieces)
        BY DEF EncodingInv
      <4>2. DOMAIN code = 1..Len(code) /\ \A i \in 1..Len(code) : code[i] \in Pieces
        BY <4>1, ElementOfSeq
      <4> QED BY <4>2
    <3> QED BY <3>1, PiecesOK
  <2>2. phase = "emitted" => code # <<>>
    BY DEF EncodingInv, Good
  <2> QED BY <2>1, <2>2 DEF TypeOK, EncodingInv, Phases
<1>2. Memory = AddressesOf(call.instr) /\ ByteOperands = BytesOf(call.instr) /\ AnyRex = AnyRexOf(code)
      /\ Asked = call.instr /\ Meant = MeantOf(call.instr)
  BY DEF Memory, AddressesOf, ByteOperands, BytesOf, AnyRex, AnyRexOf, Asked, Meant, MeantOf
<1>3. StaysInStep
  BY <1>2 DEF StaysInStep, EncodingInv, InStepVerdict
<1>4. DecodesAsAsked
  BY <1>2 DEF DecodesAsAsked, EncodingInv, AsAskedVerdict
<1>5. VexDecodesAsAsked
  BY <1>2 DEF VexDecodesAsAsked, EncodingInv, VexVerdict
<1> QED BY <1>1, <1>3, <1>4, <1>5

\* Every code that is emitted, and what is found in it, is what the properties say of its
\* call: the inductive invariant of the encoders.
THEOREM EncodingAlways == AllSpec => []EncodingInv
BY EncodingInitially, EncodingStep, PTL DEF AllSpec

\* emit_rex, emit_modrm and emit_sib (assembler_x64.rs 1221-1244) never fail an assertion,
\* and no number is cut to its byte, whatever registers, addresses and immediates.
THEOREM PiecesAreSound == AllSpec => []TypeOK
BY EncodingAlways, EncodingImplies, PTL

\* For all 16 registers, every displacement and every immediate: the processor finds the
\* bytes of an instruction where its encoder put them, but for indexed addresses that lose
\* their base and for emit_sub_imm_mem on RSP, RBP, R12 and R13.
THEOREM CodeStaysInStep == AllSpec => []StaysInStep
BY EncodingAlways, EncodingImplies, PTL

\* For all of them: an instruction in step is the one asked for, but exactly for the operands
\* DecodesAsAsked names.
THEOREM CodeDecodesAsAsked == AllSpec => []DecodesAsAsked
BY EncodingAlways, EncodingImplies, PTL

\* For all registers, third operands, maps and widths: a VEX instruction runs as asked exactly
\* where VexDecodesAsAsked says, and none with an address ever runs.
THEOREM VexCodeDecodesAsAsked == AllSpec => []VexDecodesAsAsked
BY EncodingAlways, EncodingImplies, PTL
=============================================================================
