-------------------------- MODULE OperationsProofs --------------------------
(***************************************************************************)
(* For every arithmetic, every set of registers and every register file:    *)
(* an operation gives its result whatever registers coincide, but for the   *)
(* clashes, and changes no other register than it may.                      *)
(*                                                                          *)
(* The argument runs the code: Runs<n> says of a register file and flags    *)
(* that executing code of at most n instructions from there keeps the other *)
(* registers all the way and ends with the right result, or in a trap the   *)
(* operation may end in.  Generating an operation establishes it and        *)
(* executing an instruction goes from n to n - 1.                           *)
(*                                                                          *)
(* Types need more than TypeOK: that every instruction of the code is one   *)
(* of the Sound ones, whose operands are those its kind takes.              *)
(***************************************************************************)
EXTENDS Operations, TLAPS

Keeps(c, s, g) == \A r \in Regs \ ({c.dest} \cup Clobbered(c)) : g[r] = s[r]

Right(c, s, g) ==
  IF Clash(c) THEN g[c.dest] = ClashMeaning(c, s)
  ELSE (c.name = "bool_not" => s[c.lhs] \in {0, 1}) => g[c.dest] = Meaning(c, s)

TrapRight(c, s) == ~Clash(c) => DivTraps(Sign(s[c.lhs]), s[c.lhs], s[c.rhs])

\* What an instruction does to the registers and flags, and whether it traps instead.
Traps(i, g) == i.op = "idiv" /\ DivTraps(g[RDX], g[RAX], g[i.src])

NextRegs(i, g, fl) ==
  CASE i.op = "alu" -> [g EXCEPT ![i.dst] = Alu(i.f, g[i.dst], g[i.src])]
    [] i.op = "alu_imm" -> [g EXCEPT ![i.dst] = Alu(i.f, g[i.dst], i.src)]
    [] i.op = "un" -> [g EXCEPT ![i.dst] = Un(i.f, g[i.src])]
    [] i.op = "mov" -> [g EXCEPT ![i.dst] = g[i.src]]
    [] i.op = "imm" -> [g EXCEPT ![i.dst] = i.src]
    [] i.op = "set" -> [g EXCEPT ![i.dst] = SetLow(g[i.dst], Bit(Holds(i.f, fl)))]
    [] i.op = "cmov" -> [g EXCEPT ![i.dst] = IF Holds(i.f, fl) THEN g[i.src] ELSE g[i.dst]]
    [] i.op = "cqo" -> [g EXCEPT ![RDX] = Sign(g[RAX])]
    [] i.op = "idiv" -> [g EXCEPT ![RAX] = Quot(g[RDX], g[RAX], g[i.src]),
                                  ![RDX] = Rem(g[RDX], g[RAX], g[i.src])]
    [] OTHER -> g

NextFlags(i, g, fl) ==
  CASE i.op = "cmp" -> CmpFlags(g[i.dst], g[i.src])
    [] i.op = "ucomis" -> UcomisFlags(FRel(g[i.dst], g[i.src]))
    [] OTHER -> fl

Runs0(k, c, s, g, fl) == Keeps(c, s, g) /\ k = <<>> /\ Right(c, s, g)

Runs1(k, c, s, g, fl) ==
  /\ Keeps(c, s, g)
  /\ k = <<>> => Right(c, s, g)
  /\ k # <<>> => IF Traps(Head(k), g) THEN TrapRight(c, s)
                 ELSE Runs0(Tail(k), c, s, NextRegs(Head(k), g, fl), NextFlags(Head(k), g, fl))

Runs2(k, c, s, g, fl) ==
  /\ Keeps(c, s, g)
  /\ k = <<>> => Right(c, s, g)
  /\ k # <<>> => IF Traps(Head(k), g) THEN TrapRight(c, s)
                 ELSE Runs1(Tail(k), c, s, NextRegs(Head(k), g, fl), NextFlags(Head(k), g, fl))

Runs3(k, c, s, g, fl) ==
  /\ Keeps(c, s, g)
  /\ k = <<>> => Right(c, s, g)
  /\ k # <<>> => IF Traps(Head(k), g) THEN TrapRight(c, s)
                 ELSE Runs2(Tail(k), c, s, NextRegs(Head(k), g, fl), NextFlags(Head(k), g, fl))

Runs4(k, c, s, g, fl) ==
  /\ Keeps(c, s, g)
  /\ k = <<>> => Right(c, s, g)
  /\ k # <<>> => IF Traps(Head(k), g) THEN TrapRight(c, s)
                 ELSE Runs3(Tail(k), c, s, NextRegs(Head(k), g, fl), NextFlags(Head(k), g, fl))

Runs5(k, c, s, g, fl) ==
  /\ Keeps(c, s, g)
  /\ k = <<>> => Right(c, s, g)
  /\ k # <<>> => IF Traps(Head(k), g) THEN TrapRight(c, s)
                 ELSE Runs4(Tail(k), c, s, NextRegs(Head(k), g, fl), NextFlags(Head(k), g, fl))

Runs(k, c, s, g, fl) ==
  \/ Runs0(k, c, s, g, fl) \/ Runs1(k, c, s, g, fl) \/ Runs2(k, c, s, g, fl)
  \/ Runs3(k, c, s, g, fl) \/ Runs4(k, c, s, g, fl) \/ Runs5(k, c, s, g, fl)

Inv ==
  /\ phase = "emit" => regs = start /\ start \in [Regs -> Values]
  /\ phase = "run" => Runs(code, call, start, regs, flags)
  /\ phase = "done" => Keeps(call, start, regs) /\ Right(call, start, regs)
  /\ phase = "trap" => Keeps(call, start, regs) /\ TrapRight(call, start)

(***************************************************************************)
(* Code.                                                                    *)
(***************************************************************************)

Ops == {"alu", "alu_imm", "un", "mov", "imm", "set", "cmov", "cqo", "cmp", "ucomis", "idiv"}

Variants ==
  {"", "add", "sub", "xor", "neg", "xor1", "and1", "id", "zext", "cvtsi", "cvttsi", "shl"}
    \cup Conds \cup {"Parity", "NoParity"}

Instrs == [op : Ops, f : Variants, dst : Regs, src : Regs \cup Values]

LEMMA Names ==
  /\ {"alu", "alu_imm", "un", "mov", "imm", "set", "cmov", "cqo", "cmp", "ucomis", "idiv"}
       \subseteq Ops
  /\ {"", "add", "sub", "xor", "neg", "xor1", "and1", "id", "zext", "cvtsi", "cvttsi", "shl"}
       \subseteq Variants
  /\ Conds \subseteq Variants /\ {"Parity", "NoParity"} \subseteq Variants
  BY DEF Ops, Variants

LEMMA OneMore ==
  ASSUME NEW a \in Instrs, NEW k \in Seq(Instrs)
  PROVE  <<a>> \o k \in Seq(Instrs)
<1>1. <<a>> \in Seq(Instrs)
  OBVIOUS
<1>. QED BY <1>1

LEMMA TwoMore ==
  ASSUME NEW a \in Instrs, NEW b \in Instrs, NEW k \in Seq(Instrs)
  PROVE  <<a, b>> \o k \in Seq(Instrs)
<1>1. <<a, b>> \in Seq(Instrs)
  OBVIOUS
<1>. QED BY <1>1

LEMMA One ==
  ASSUME NEW a \in Instrs, NEW k \in Seq(Instrs)
  PROVE  Head(<<a>> \o k) = a /\ Tail(<<a>> \o k) = k /\ <<a>> \o k # <<>>
  OBVIOUS

LEMMA Two ==
  ASSUME NEW a \in Instrs, NEW b \in Instrs, NEW k \in Seq(Instrs)
  PROVE  Head(<<a, b>> \o k) = a /\ Tail(<<a, b>> \o k) = <<b>> \o k /\ <<a, b>> \o k # <<>>
  OBVIOUS

LEMMA Updated ==
  ASSUME NEW g, g = [x \in Regs |-> g[x]], NEW r, NEW v
  PROVE  [g EXCEPT ![r] = v] = [x \in Regs |-> [g EXCEPT ![r] = v][x]]
  OBVIOUS

LEMMA CopyIsCode ==
  ASSUME NEW d \in Regs, NEW x \in Regs
  PROVE  Copy(d, x) \in Seq(Instrs)
<1>1. CASE d = x
  BY <1>1 DEF Copy
<1>2. CASE d # x
  <2>. DEFINE m == Ins("mov", "", d, x)
  <2>1. m \in Instrs
    BY Names DEF Ins, Instrs
  <2>2. Copy(d, x) = <<m>>
    BY <1>2 DEF Copy
  <2>. HIDE DEF m
  <2>. QED BY <2>1, <2>2
<1>. QED BY <1>1, <1>2

\* The move to dest that ends an operation.
LEMMA CopyEnds ==
  ASSUME NEW c, NEW s, NEW fl, NEW g, g = [r \in Regs |-> g[r]],
         NEW d \in Regs, NEW x \in Regs, c.dest = d,
         Keeps(c, s, g), Right(c, s, [g EXCEPT ![d] = g[x]])
  PROVE  Runs1(Copy(d, x), c, s, g, fl)
<1>1. CASE d = x
  <2>1. [g EXCEPT ![d] = g[x]] = g
    BY <1>1
  <2>2. Copy(d, x) = <<>>
    BY <1>1 DEF Copy
  <2>. QED BY <2>1, <2>2 DEF Runs1
<1>2. CASE d # x
  <2>. DEFINE i == Ins("mov", "", d, x)
              h == [g EXCEPT ![d] = g[x]]
  <2>1. i \in Instrs /\ i.op = "mov" /\ i.dst = d /\ i.src = x
    BY Names DEF Ins, Instrs
  <2>2. Copy(d, x) = <<i>>
    BY <1>2 DEF Copy
  <2>. HIDE DEF i
  <2>3. Head(<<i>>) = i /\ Tail(<<i>>) = <<>> /\ <<i>> # <<>>
    BY <2>1
  <2>4. NextRegs(i, g, fl) = h /\ ~Traps(i, g)
    BY <2>1 DEF NextRegs, Traps
  <2>5. Keeps(c, s, h)
    BY DEF Keeps
  <2>. HIDE DEF h
  <2>6. Right(c, s, h)
    BY DEF h
  <2>. QED BY <2>2, <2>3, <2>4, <2>5, <2>6 DEF Runs0, Runs1
<1>. QED BY <1>1, <1>2

LEMMA ExecuteIs ==
  ASSUME Execute
  PROVE  /\ code # <<>> /\ phase = "run" /\ code' = Tail(code) /\ UNCHANGED <<call, start>>
         /\ IF Traps(Head(code), regs) THEN phase' = "trap" /\ regs' = regs
            ELSE /\ phase' = "run"
                 /\ regs' = NextRegs(Head(code), regs, flags)
                 /\ flags' = NextFlags(Head(code), regs, flags)
<1>. DEFINE i == Head(code)
<1>1. Step(i) /\ code # <<>> /\ phase = "run" /\ code' = Tail(code) /\ UNCHANGED <<call, start>>
  BY DEF Execute
<1>. HIDE DEF i
<1>2. IF Traps(i, regs) THEN phase' = "trap" /\ regs' = regs
      ELSE phase' = "run" /\ regs' = NextRegs(i, regs, flags)
           /\ flags' = NextFlags(i, regs, flags)
  BY <1>1 DEF Step, Write, Traps, NextRegs, NextFlags
<1>. QED BY <1>1, <1>2 DEF i

LEMMA ExecuteKeeps == Inv /\ Execute => Inv'
<1>. SUFFICES ASSUME Inv, Execute PROVE Inv'
  OBVIOUS
<1>1. Runs(code, call, start, regs, flags)
  BY ExecuteIs DEF Inv
<1>2. Keeps(call, start, regs)
  BY <1>1 DEF Runs, Runs0, Runs1, Runs2, Runs3, Runs4, Runs5
<1>3. CASE Traps(Head(code), regs)
  <2>1. TrapRight(call, start)
    BY <1>1, <1>3, ExecuteIs DEF Runs, Runs0, Runs1, Runs2, Runs3, Runs4, Runs5
  <2>2. phase' = "trap" /\ regs' = regs /\ call' = call /\ start' = start
    BY <1>3, ExecuteIs
  <2>3. Keeps(call', start', regs') /\ TrapRight(call', start')
    BY <1>2, <2>1, <2>2
  <2>. QED BY <2>2, <2>3 DEF Inv
<1>4. CASE ~Traps(Head(code), regs)
  <2>. DEFINE k == Tail(code)
              g == NextRegs(Head(code), regs, flags)
              fl == NextFlags(Head(code), regs, flags)
  <2>1. Runs(k, call, start, g, fl)
    BY <1>1, <1>4, ExecuteIs DEF Runs, Runs0, Runs1, Runs2, Runs3, Runs4, Runs5
  <2>2. /\ phase' = "run" /\ code' = k /\ regs' = g /\ flags' = fl
        /\ call' = call /\ start' = start
    BY <1>4, ExecuteIs
  <2>. HIDE DEF k, g, fl
  <2>3. Runs(code', call', start', regs', flags')
    BY <2>1, <2>2
  <2>. QED BY <2>2, <2>3 DEF Inv
<1>. QED BY <1>3, <1>4

LEMMA ReturnKeeps == Inv /\ Return => Inv'
<1>. SUFFICES ASSUME Inv, Return PROVE Inv'
  OBVIOUS
<1>1. Keeps(call, start, regs) /\ Right(call, start, regs)
  BY DEF Inv, Return, Runs, Runs0, Runs1, Runs2, Runs3, Runs4, Runs5
<1>2. Keeps(call', start', regs') /\ Right(call', start', regs')
  BY <1>1 DEF Return
<1>. QED BY <1>2 DEF Inv, Return

(***************************************************************************)
(* Each operation.                                                          *)
(***************************************************************************)

LEMMA AccumulateRuns ==
  ASSUME RegsAssumption, NEW s \in [Regs -> Values], NEW fl,
         NEW f \in {"add", "sub"}, NEW d \in Regs, NEW l \in Regs, NEW r \in Regs,
         NEW c, c = [name |-> "binary", f |-> f, dest |-> d, lhs |-> l, rhs |-> r]
  PROVE  Runs2(<<Ins("alu", f, l, r)>> \o Copy(d, l), c, s, s, fl)
<1>. DEFINE i == Ins("alu", f, l, r)
            k == Copy(d, l)
            g == [s EXCEPT ![l] = Alu(f, s[l], s[r])]
<1>1. i \in Instrs /\ i.op = "alu" /\ i.f = f /\ i.dst = l /\ i.src = r
  BY Names DEF Ins, Instrs
<1>2. k \in Seq(Instrs)
  BY CopyIsCode
<1>. HIDE DEF i, k
<1>3. Head(<<i>> \o k) = i /\ Tail(<<i>> \o k) = k /\ <<i>> \o k # <<>>
  BY <1>1, <1>2, One
<1>4. NextRegs(i, s, fl) = g /\ ~Traps(i, s) /\ NextFlags(i, s, fl) = fl
  BY <1>1 DEF NextRegs, Traps, NextFlags
<1>5. c.dest = d /\ c.lhs = l /\ c.rhs = r /\ c.f = f /\ c.name = "binary"
  OBVIOUS
<1>6. ~Clash(c) /\ Meaning(c, s) = Alu(f, s[l], s[r]) /\ l \in Clobbered(c)
  BY <1>5 DEF Clash, Meaning, Clobbered
<1>7. Keeps(c, s, s) /\ Keeps(c, s, g)
  BY <1>6 DEF Keeps
<1>8. Right(c, s, [g EXCEPT ![d] = g[l]])
  BY <1>5, <1>6 DEF Right
<1>9. g = [x \in Regs |-> g[x]]
  OBVIOUS
<1>. HIDE DEF g
<1>10. Runs1(k, c, s, g, fl)
  BY <1>5, <1>7, <1>8, <1>9, CopyEnds DEF k
<1>. QED BY <1>3, <1>4, <1>7, <1>10 DEF Runs2, i, k

LEMMA InPlaceRuns ==
  ASSUME NEW s \in [Regs -> Values], NEW fl, NEW d \in Regs, NEW l \in Regs,
         NEW c, c = [name |-> "unary", f |-> "neg", dest |-> d, lhs |-> l, rhs |-> l]
  PROVE  Runs2(<<Ins("un", "neg", l, l)>> \o Copy(d, l), c, s, s, fl)
<1>. DEFINE i == Ins("un", "neg", l, l)
            k == Copy(d, l)
            g == [s EXCEPT ![l] = Un("neg", s[l])]
<1>1. i \in Instrs /\ i.op = "un" /\ i.f = "neg" /\ i.dst = l /\ i.src = l
  BY Names DEF Ins, Instrs
<1>2. k \in Seq(Instrs)
  BY CopyIsCode
<1>. HIDE DEF i, k
<1>3. Head(<<i>> \o k) = i /\ Tail(<<i>> \o k) = k /\ <<i>> \o k # <<>>
  BY <1>1, <1>2, One
<1>4. NextRegs(i, s, fl) = g /\ ~Traps(i, s) /\ NextFlags(i, s, fl) = fl
  BY <1>1 DEF NextRegs, Traps, NextFlags
<1>5. c.dest = d /\ c.lhs = l /\ c.f = "neg" /\ c.name = "unary"
  OBVIOUS
<1>6. ~Clash(c) /\ Meaning(c, s) = Un("neg", s[l]) /\ l \in Clobbered(c)
  BY <1>5 DEF Clash, Meaning, Clobbered
<1>7. Keeps(c, s, s) /\ Keeps(c, s, g)
  BY <1>6 DEF Keeps
<1>8. Right(c, s, [g EXCEPT ![d] = g[l]])
  BY <1>5, <1>6 DEF Right
<1>9. g = [x \in Regs |-> g[x]]
  OBVIOUS
<1>. HIDE DEF g
<1>10. Runs1(k, c, s, g, fl)
  BY <1>5, <1>7, <1>8, <1>9, CopyEnds DEF k
<1>. QED BY <1>3, <1>4, <1>7, <1>10 DEF Runs2, i, k

LEMMA ConvertRuns ==
  ASSUME NEW s \in [Regs -> Values], NEW fl, NEW f \in {"id", "cvttsi"},
         NEW d \in Regs, NEW l \in Regs,
         NEW c, c = [name |-> "unary", f |-> f, dest |-> d, lhs |-> l, rhs |-> l]
  PROVE  Runs1(<<Ins("un", f, d, l)>>, c, s, s, fl)
<1>. DEFINE i == Ins("un", f, d, l)
            g == [s EXCEPT ![d] = Un(f, s[l])]
<1>1. i \in Instrs /\ i.op = "un" /\ i.f = f /\ i.dst = d /\ i.src = l
  BY Names DEF Ins, Instrs
<1>. HIDE DEF i
<1>3. Head(<<i>>) = i /\ Tail(<<i>>) = <<>> /\ <<i>> # <<>>
  BY <1>1
<1>4. NextRegs(i, s, fl) = g /\ ~Traps(i, s)
  BY <1>1 DEF NextRegs, Traps
<1>5. c.dest = d /\ c.lhs = l /\ c.f = f /\ c.name = "unary"
  OBVIOUS
<1>6. ~Clash(c) /\ Meaning(c, s) = Un(f, s[l])
  BY <1>5 DEF Clash, Meaning
<1>7. Keeps(c, s, s) /\ Keeps(c, s, g) /\ Right(c, s, g)
  BY <1>5, <1>6 DEF Keeps, Right
<1>. HIDE DEF g
<1>. QED BY <1>3, <1>4, <1>7 DEF Runs1, Runs0, i

LEMMA IntToFloatRuns ==
  ASSUME RegsAssumption, NEW s \in [Regs -> Values], NEW fl, NEW d \in XMM, NEW l \in GP,
         NEW c, c = [name |-> "unary", f |-> "cvtsi", dest |-> d, lhs |-> l, rhs |-> l]
  PROVE  Runs2(<<Ins("alu", "xor", d, d), Ins("un", "cvtsi", d, l)>>, c, s, s, fl)
<1>. DEFINE i == Ins("alu", "xor", d, d)
            j == Ins("un", "cvtsi", d, l)
            g == [s EXCEPT ![d] = Alu("xor", s[d], s[d])]
            h == [g EXCEPT ![d] = Un("cvtsi", g[l])]
<1>0. d \in Regs /\ l \in Regs /\ d # l
  BY RegsAssumption DEF Regs
<1>1. /\ i \in Instrs /\ i.op = "alu" /\ i.f = "xor" /\ i.dst = d /\ i.src = d
      /\ j \in Instrs /\ j.op = "un" /\ j.f = "cvtsi" /\ j.dst = d /\ j.src = l
  BY <1>0, Names DEF Ins, Instrs
<1>. HIDE DEF i, j
<1>3. /\ Head(<<i, j>>) = i /\ Tail(<<i, j>>) = <<j>> /\ <<i, j>> # <<>>
      /\ Head(<<j>>) = j /\ Tail(<<j>>) = <<>> /\ <<j>> # <<>>
  BY <1>1
<1>4. NextRegs(i, s, fl) = g /\ ~Traps(i, s)
  BY <1>1 DEF NextRegs, Traps
<1>5. \A any : NextRegs(j, g, any) = h /\ ~Traps(j, g)
  BY <1>1 DEF NextRegs, Traps
<1>6. c.dest = d /\ c.lhs = l /\ c.f = "cvtsi" /\ c.name = "unary"
  OBVIOUS
<1>7. ~Clash(c) /\ Meaning(c, s) = Un("cvtsi", s[l])
  BY <1>6 DEF Clash, Meaning
<1>8. Keeps(c, s, s) /\ Keeps(c, s, g) /\ Keeps(c, s, h)
  BY <1>6 DEF Keeps
<1>9. Right(c, s, h)
  BY <1>0, <1>6, <1>7 DEF Right
<1>. HIDE DEF g, h
<1>. QED BY <1>3, <1>4, <1>5, <1>8, <1>9 DEF Runs2, Runs1, Runs0, i, j

LEMMA BoolNotRuns ==
  ASSUME ArithmeticAssumption,
         NEW s \in [Regs -> Values], NEW fl, NEW d \in Regs, NEW l \in Regs,
         NEW c, c = [name |-> "bool_not", f |-> "", dest |-> d, lhs |-> l, rhs |-> l]
  PROVE  Runs3(<<Ins("un", "xor1", l, l), Ins("un", "and1", l, l)>> \o Copy(d, l),
               c, s, s, fl)
<1>. DEFINE i == Ins("un", "xor1", l, l)
            j == Ins("un", "and1", l, l)
            k == Copy(d, l)
            g == [s EXCEPT ![l] = Un("xor1", s[l])]
            h == [g EXCEPT ![l] = Un("and1", g[l])]
<1>1. /\ i \in Instrs /\ i.op = "un" /\ i.f = "xor1" /\ i.dst = l /\ i.src = l
      /\ j \in Instrs /\ j.op = "un" /\ j.f = "and1" /\ j.dst = l /\ j.src = l
  BY Names DEF Ins, Instrs
<1>2. k \in Seq(Instrs)
  BY CopyIsCode
<1>. HIDE DEF i, j, k
<1>3. /\ Head(<<i, j>> \o k) = i /\ Tail(<<i, j>> \o k) = <<j>> \o k /\ <<i, j>> \o k # <<>>
      /\ Head(<<j>> \o k) = j /\ Tail(<<j>> \o k) = k /\ <<j>> \o k # <<>>
  BY <1>1, <1>2, One, Two
<1>4. NextRegs(i, s, fl) = g /\ ~Traps(i, s) /\ NextFlags(i, s, fl) = fl
  BY <1>1 DEF NextRegs, Traps, NextFlags
<1>5. NextRegs(j, g, fl) = h /\ ~Traps(j, g) /\ NextFlags(j, g, fl) = fl
  BY <1>1 DEF NextRegs, Traps, NextFlags
<1>6. c.dest = d /\ c.lhs = l /\ c.name = "bool_not"
  OBVIOUS
<1>7. ~Clash(c) /\ Meaning(c, s) = 1 - s[l] /\ l \in Clobbered(c)
  BY <1>6 DEF Clash, Meaning, Clobbered
<1>8. Keeps(c, s, s) /\ Keeps(c, s, g) /\ Keeps(c, s, h)
  BY <1>7 DEF Keeps
<1>9. h[l] = Un("and1", Un("xor1", s[l]))
  OBVIOUS
<1>10. s[l] \in {0, 1} => h[l] = 1 - s[l]
  BY <1>9, ArithmeticAssumption
<1>11. Right(c, s, [h EXCEPT ![d] = h[l]])
  BY <1>6, <1>7, <1>10 DEF Right
<1>12. h = [x \in Regs |-> h[x]]
  OBVIOUS
<1>. HIDE DEF g, h
<1>13. Runs1(k, c, s, h, fl)
  BY <1>6, <1>8, <1>11, <1>12, CopyEnds DEF k
<1>. QED BY <1>3, <1>4, <1>5, <1>8, <1>13 DEF Runs3, Runs2, i, j, k

LEMMA AddImmRuns ==
  ASSUME RegsAssumption,
         NEW s \in [Regs -> Values], NEW fl, NEW d \in Regs, NEW l \in Regs,
         NEW v \in Values, v # BigImm,
         NEW c, c = [name |-> "add_imm", f |-> "add", dest |-> d, lhs |-> l, rhs |-> v]
  PROVE  Runs2(<<Ins("alu_imm", "add", l, v)>> \o Copy(d, l), c, s, s, fl)
<1>. DEFINE i == Ins("alu_imm", "add", l, v)
            k == Copy(d, l)
            g == [s EXCEPT ![l] = Alu("add", s[l], v)]
<1>1. i \in Instrs /\ i.op = "alu_imm" /\ i.f = "add" /\ i.dst = l /\ i.src = v
  BY Names DEF Ins, Instrs
<1>2. k \in Seq(Instrs)
  BY CopyIsCode
<1>. HIDE DEF i, k
<1>3. Head(<<i>> \o k) = i /\ Tail(<<i>> \o k) = k /\ <<i>> \o k # <<>>
  BY <1>1, <1>2, One
<1>4. NextRegs(i, s, fl) = g /\ ~Traps(i, s) /\ NextFlags(i, s, fl) = fl
  BY <1>1 DEF NextRegs, Traps, NextFlags
<1>5. c.dest = d /\ c.lhs = l /\ c.rhs = v /\ c.name = "add_imm"
  OBVIOUS
<1>6. ~Clash(c) /\ Meaning(c, s) = Alu("add", s[l], v) /\ l \in Clobbered(c)
  BY <1>5 DEF Clash, Meaning, Clobbered
<1>7. Keeps(c, s, s) /\ Keeps(c, s, g)
  BY <1>6 DEF Keeps
<1>8. Right(c, s, [g EXCEPT ![d] = g[l]])
  BY <1>5, <1>6 DEF Right
<1>9. g = [x \in Regs |-> g[x]]
  OBVIOUS
<1>. HIDE DEF g
<1>10. Runs1(k, c, s, g, fl)
  BY <1>5, <1>7, <1>8, <1>9, CopyEnds DEF k
<1>. QED BY <1>3, <1>4, <1>7, <1>10 DEF Runs2, i, k

LEMMA AddBigImmRuns ==
  ASSUME RegsAssumption,
         NEW s \in [Regs -> Values], NEW fl, NEW d \in Regs, NEW l \in Regs,
         NEW c, c = [name |-> "add_imm", f |-> "add", dest |-> d, lhs |-> l, rhs |-> BigImm]
  PROVE  Runs3(<<Ins("imm", "", R11, BigImm), Ins("alu", "add", l, R11)>> \o Copy(d, l),
               c, s, s, fl)
<1>. DEFINE i == Ins("imm", "", R11, BigImm)
            j == Ins("alu", "add", l, R11)
            k == Copy(d, l)
            g == [s EXCEPT ![R11] = BigImm]
            h == [g EXCEPT ![l] = Alu("add", g[l], g[R11])]
<1>0. R11 \in Regs /\ BigImm \in Values
  BY RegsAssumption DEF Regs
<1>1. /\ i \in Instrs /\ i.op = "imm" /\ i.dst = R11 /\ i.src = BigImm
      /\ j \in Instrs /\ j.op = "alu" /\ j.f = "add" /\ j.dst = l /\ j.src = R11
  BY <1>0, Names DEF Ins, Instrs
<1>2. k \in Seq(Instrs)
  BY CopyIsCode
<1>. HIDE DEF i, j, k
<1>3. /\ Head(<<i, j>> \o k) = i /\ Tail(<<i, j>> \o k) = <<j>> \o k /\ <<i, j>> \o k # <<>>
      /\ Head(<<j>> \o k) = j /\ Tail(<<j>> \o k) = k /\ <<j>> \o k # <<>>
  BY <1>1, <1>2, One, Two
<1>4. NextRegs(i, s, fl) = g /\ ~Traps(i, s) /\ NextFlags(i, s, fl) = fl
  BY <1>1 DEF NextRegs, Traps, NextFlags
<1>5. NextRegs(j, g, fl) = h /\ ~Traps(j, g) /\ NextFlags(j, g, fl) = fl
  BY <1>1 DEF NextRegs, Traps, NextFlags
<1>6. c.dest = d /\ c.lhs = l /\ c.rhs = BigImm /\ c.name = "add_imm"
  OBVIOUS
<1>7. /\ Clash(c) <=> l = R11
      /\ Meaning(c, s) = Alu("add", s[l], BigImm)
      /\ ClashMeaning(c, s) = Alu("add", BigImm, BigImm)
      /\ l \in Clobbered(c) /\ R11 \in Clobbered(c)
  BY <1>6 DEF Clash, Meaning, ClashMeaning, Clobbered
<1>8. Keeps(c, s, s) /\ Keeps(c, s, g) /\ Keeps(c, s, h)
  BY <1>7 DEF Keeps
<1>9. h[l] = Alu("add", IF l = R11 THEN BigImm ELSE s[l], BigImm)
  BY <1>0
<1>10. Right(c, s, [h EXCEPT ![d] = h[l]])
  BY <1>6, <1>7, <1>9 DEF Right
<1>11. h = [x \in Regs |-> h[x]]
  <2>1. g = [x \in Regs |-> g[x]]
    OBVIOUS
  <2>. HIDE DEF g
  <2>. QED BY <2>1, Updated
<1>. HIDE DEF g, h
<1>12. Runs1(k, c, s, h, fl)
  BY <1>6, <1>8, <1>10, <1>11, CopyEnds DEF k
<1>. QED BY <1>3, <1>4, <1>5, <1>8, <1>12 DEF Runs3, Runs2, i, j, k

LEMMA ShiftRuns ==
  ASSUME RegsAssumption,
         NEW s \in [Regs -> Values], NEW fl,
         NEW d \in Regs, NEW l \in Regs, NEW r \in Regs, r = RCX \/ l # RCX,
         NEW c, c = [name |-> "binary", f |-> "shl", dest |-> d, lhs |-> l, rhs |-> r]
  PROVE  Runs(Copy(RCX, r) \o <<Ins("alu", "shl", l, RCX)>> \o Copy(d, l), c, s, s, fl)
<1>. DEFINE m == Ins("mov", "", RCX, r)
            i == Ins("alu", "shl", l, RCX)
            k == Copy(d, l)
            g == [s EXCEPT ![RCX] = s[r]]
            h == [g EXCEPT ![l] = Alu("shl", g[l], g[RCX])]
<1>0. RCX \in Regs
  BY RegsAssumption DEF Regs
<1>1. /\ m \in Instrs /\ m.op = "mov" /\ m.dst = RCX /\ m.src = r
      /\ i \in Instrs /\ i.op = "alu" /\ i.f = "shl" /\ i.dst = l /\ i.src = RCX
  BY <1>0, Names DEF Ins, Instrs
<1>2. k \in Seq(Instrs) /\ <<i>> \o k \in Seq(Instrs)
  <2>1. k \in Seq(Instrs)
    BY CopyIsCode
  <2>. HIDE DEF i, k
  <2>. QED BY <1>1, <2>1, OneMore
<1>. HIDE DEF m, i, k
<1>3. Head(<<i>> \o k) = i /\ Tail(<<i>> \o k) = k /\ <<i>> \o k # <<>>
  BY <1>1, <1>2, One
<1>4. NextRegs(i, g, fl) = h /\ ~Traps(i, g) /\ NextFlags(i, g, fl) = fl
  BY <1>1 DEF NextRegs, Traps, NextFlags
<1>5. c.dest = d /\ c.lhs = l /\ c.rhs = r /\ c.f = "shl" /\ c.name = "binary"
  OBVIOUS
<1>6. /\ ~Clash(c) /\ Meaning(c, s) = Alu("shl", s[l], s[r])
      /\ l \in Clobbered(c) /\ RCX \in Clobbered(c)
  BY <1>5 DEF Clash, Meaning, Clobbered
<1>7. Keeps(c, s, s) /\ Keeps(c, s, g) /\ Keeps(c, s, h)
  BY <1>6 DEF Keeps
<1>8. h[l] = Alu("shl", s[l], s[r])
  BY <1>0
<1>9. Right(c, s, [h EXCEPT ![d] = h[l]])
  BY <1>5, <1>6, <1>8 DEF Right
<1>10. h = [x \in Regs |-> h[x]] /\ (r = RCX => g = s)
  <2>1. g = [x \in Regs |-> g[x]] /\ (r = RCX => g = s)
    OBVIOUS
  <2>. HIDE DEF g
  <2>. QED BY <2>1, Updated
<1>. HIDE DEF h
<1>11. Runs1(k, c, s, h, fl)
  BY <1>5, <1>7, <1>9, <1>10, CopyEnds DEF k
<1>12. NextRegs(m, s, fl) = g /\ ~Traps(m, s) /\ NextFlags(m, s, fl) = fl
  BY <1>1 DEF NextRegs, Traps, NextFlags
<1>. HIDE DEF g
<1>13. Runs2(<<i>> \o k, c, s, g, fl)
  BY <1>3, <1>4, <1>7, <1>11 DEF Runs2
<1>14. CASE r = RCX
  <2>1. Copy(RCX, r) \o <<i>> \o k = <<i>> \o k
    BY <1>1, <1>2, <1>14 DEF Copy
  <2>. QED BY <1>10, <1>13, <1>14, <2>1 DEF Runs, i, k
<1>15. CASE r # RCX
  <2>. DEFINE rest == <<i>> \o k
  <2>1. Copy(RCX, r) \o <<i>> \o k = <<m>> \o rest
    <3>1. Copy(RCX, r) = <<m>>
      BY <1>15 DEF Copy, m
    <3>. QED BY <1>1, <1>2, <3>1
  <2>2. rest \in Seq(Instrs) /\ Runs2(rest, c, s, g, fl)
    BY <1>2, <1>13
  <2>. HIDE DEF rest
  <2>3. Head(<<m>> \o rest) = m /\ Tail(<<m>> \o rest) = rest /\ <<m>> \o rest # <<>>
    BY <1>1, <2>2, One
  <2>. QED BY <1>7, <1>12, <2>1, <2>2, <2>3 DEF Runs, Runs3, i, k
<1>. QED BY <1>14, <1>15

LEMMA DivRuns ==
  ASSUME RegsAssumption,
         NEW s \in [Regs -> Values], NEW fl, NEW result \in {RAX, RDX},
         NEW d \in Regs, NEW l \in Regs, NEW r \in Regs, l = RAX \/ r # RAX,
         NEW c, c = [name |-> "div", f |-> result, dest |-> d, lhs |-> l, rhs |-> r]
  PROVE  Runs(Copy(RAX, l) \o <<Ins("cqo", "", RDX, RAX), Ins("idiv", "", RAX, r)>>
                \o Copy(d, result), c, s, s, fl)
<1>. DEFINE m == Ins("mov", "", RAX, l)
            i == Ins("cqo", "", RDX, RAX)
            j == Ins("idiv", "", RAX, r)
            k == Copy(d, result)
            e == [s EXCEPT ![RAX] = s[l]]
            g == [e EXCEPT ![RDX] = Sign(e[RAX])]
            h == [g EXCEPT ![RAX] = Quot(g[RDX], g[RAX], g[r]),
                           ![RDX] = Rem(g[RDX], g[RAX], g[r])]
            y == IF r = RDX THEN Sign(s[l]) ELSE s[r]
<1>0. RAX \in Regs /\ RDX \in Regs /\ result \in Regs /\ RAX # RDX
  BY RegsAssumption DEF Regs
<1>1. /\ m \in Instrs /\ m.op = "mov" /\ m.dst = RAX /\ m.src = l
      /\ i \in Instrs /\ i.op = "cqo"
      /\ j \in Instrs /\ j.op = "idiv" /\ j.src = r
  BY <1>0, Names DEF Ins, Instrs
<1>2. k \in Seq(Instrs) /\ <<i, j>> \o k \in Seq(Instrs)
  <2>1. k \in Seq(Instrs)
    BY <1>0, CopyIsCode
  <2>. HIDE DEF i, j, k
  <2>. QED BY <1>1, <2>1, TwoMore
<1>. HIDE DEF m, i, j, k
<1>3. /\ Head(<<i, j>> \o k) = i /\ Tail(<<i, j>> \o k) = <<j>> \o k /\ <<i, j>> \o k # <<>>
      /\ Head(<<j>> \o k) = j /\ Tail(<<j>> \o k) = k /\ <<j>> \o k # <<>>
  BY <1>1, <1>2, One, Two
<1>4. NextRegs(m, s, fl) = e /\ ~Traps(m, s) /\ NextFlags(m, s, fl) = fl
  BY <1>1 DEF NextRegs, Traps, NextFlags
<1>5. NextRegs(i, e, fl) = g /\ ~Traps(i, e) /\ NextFlags(i, e, fl) = fl
  BY <1>1 DEF NextRegs, Traps, NextFlags
<1>6. /\ NextRegs(j, g, fl) = h /\ NextFlags(j, g, fl) = fl
      /\ Traps(j, g) <=> DivTraps(g[RDX], g[RAX], g[r])
  BY <1>1 DEF NextRegs, Traps, NextFlags
<1>7. g[RDX] = Sign(s[l]) /\ g[RAX] = s[l] /\ g[r] = y
  BY <1>0
<1>8. h[RAX] = Quot(Sign(s[l]), s[l], y) /\ h[RDX] = Rem(Sign(s[l]), s[l], y)
  BY <1>0, <1>7
<1>9. c.dest = d /\ c.lhs = l /\ c.rhs = r /\ c.f = result /\ c.name = "div"
  OBVIOUS
<1>10. /\ Clash(c) <=> r = RDX
       /\ Meaning(c, s) = IF result = RAX THEN Quot(Sign(s[l]), s[l], s[r])
                                          ELSE Rem(Sign(s[l]), s[l], s[r])
       /\ ClashMeaning(c, s) = IF result = RAX THEN Quot(Sign(s[l]), s[l], Sign(s[l]))
                                               ELSE Rem(Sign(s[l]), s[l], Sign(s[l]))
       /\ Clobbered(c) = {RAX, RDX}
  BY <1>9 DEF Clash, Meaning, ClashMeaning, Clobbered
<1>11. Keeps(c, s, s) /\ Keeps(c, s, e) /\ Keeps(c, s, g) /\ Keeps(c, s, h)
  BY <1>10 DEF Keeps
<1>12. Right(c, s, [h EXCEPT ![d] = h[result]])
  <2>1. [h EXCEPT ![d] = h[result]][d] = h[result]
    OBVIOUS
  <2>2. h[result] = IF result = RAX THEN Quot(Sign(s[l]), s[l], y)
                                    ELSE Rem(Sign(s[l]), s[l], y)
    BY <1>0, <1>8
  <2>. HIDE DEF h
  <2>. QED BY <1>9, <1>10, <2>1, <2>2 DEF Right
<1>13. Traps(j, g) => TrapRight(c, s)
  BY <1>6, <1>7, <1>9, <1>10 DEF TrapRight
<1>14. h = [x \in Regs |-> h[x]] /\ (l = RAX => e = s)
  <2>1. e = [x \in Regs |-> e[x]] /\ (l = RAX => e = s)
    OBVIOUS
  <2>. HIDE DEF e
  <2>2. g = [x \in Regs |-> g[x]]
    BY <2>1, Updated
  <2>. HIDE DEF g
  <2>. DEFINE q == [g EXCEPT ![RAX] = Quot(g[RDX], g[RAX], g[r])]
  <2>3. q = [x \in Regs |-> q[x]]
    BY <2>2, Updated
  <2>4. h = [q EXCEPT ![RDX] = Rem(g[RDX], g[RAX], g[r])]
    OBVIOUS
  <2>. HIDE DEF q, h
  <2>5. [q EXCEPT ![RDX] = Rem(g[RDX], g[RAX], g[r])]
          = [x \in Regs |-> [q EXCEPT ![RDX] = Rem(g[RDX], g[RAX], g[r])][x]]
    BY <2>3, Updated
  <2>. QED BY <2>1, <2>4, <2>5
<1>. HIDE DEF h, g
<1>15. Runs1(k, c, s, h, fl)
  BY <1>0, <1>9, <1>11, <1>12, <1>14, CopyEnds DEF k
<1>16. Runs2(<<j>> \o k, c, s, g, fl)
  BY <1>3, <1>6, <1>11, <1>13, <1>15 DEF Runs2
<1>. HIDE DEF e
<1>17. Runs3(<<i, j>> \o k, c, s, e, fl)
  BY <1>3, <1>5, <1>11, <1>16 DEF Runs3
<1>18. CASE l = RAX
  <2>1. Copy(RAX, l) \o <<i, j>> \o k = <<i, j>> \o k
    <3>. DEFINE rest == <<i, j>>
    <3>1. Copy(RAX, l) = <<>> /\ <<>> \o rest = rest
      BY <1>1, <1>18 DEF Copy
    <3>. QED BY <3>1
  <2>. QED BY <1>14, <1>17, <1>18, <2>1 DEF Runs, i, j, k
<1>19. CASE l # RAX
  <2>. DEFINE rest == <<i, j>> \o k
  <2>1. Copy(RAX, l) \o <<i, j>> \o k = <<m>> \o rest
    <3>. DEFINE pair == <<i, j>>
                move == <<m>>
    <3>1. Copy(RAX, l) = move
      BY <1>19 DEF Copy, m
    <3>2. move \in Seq(Instrs) /\ pair \in Seq(Instrs)
      BY <1>1
    <3>. HIDE DEF pair, move
    <3>3. move \o pair \o k = move \o (pair \o k)
      BY <1>2, <3>2
    <3>. QED BY <3>1, <3>3 DEF pair, move
  <2>2. rest \in Seq(Instrs) /\ Runs3(rest, c, s, e, fl)
    BY <1>2, <1>17
  <2>. HIDE DEF rest
  <2>3. Head(<<m>> \o rest) = m /\ Tail(<<m>> \o rest) = rest /\ <<m>> \o rest # <<>>
    BY <1>1, <2>2, One
  <2>. QED BY <1>4, <1>11, <2>1, <2>2, <2>3 DEF Runs, Runs4, i, j, k
<1>. QED BY <1>18, <1>19

LEMMA CmpSetRuns ==
  ASSUME ByteAssumption, NEW s \in [Regs -> Values], NEW fl, NEW cond \in Conds,
         NEW d \in Regs, NEW l \in Regs, NEW r \in Regs,
         NEW c, c = [name |-> "cmp_set", f |-> cond, dest |-> d, lhs |-> l, rhs |-> r]
  PROVE  Runs3(<<Ins("cmp", "", l, r), Ins("set", cond, d, d), Ins("un", "zext", d, d)>>,
               c, s, s, fl)
<1>. DEFINE i == Ins("cmp", "", l, r)
            j == Ins("set", cond, d, d)
            k == Ins("un", "zext", d, d)
            b == Bit(Holds(cond, CmpFlags(s[l], s[r])))
            g == [s EXCEPT ![d] = SetLow(s[d], b)]
            h == [g EXCEPT ![d] = Un("zext", g[d])]
            after == CmpFlags(s[l], s[r])
<1>1. /\ i \in Instrs /\ i.op = "cmp" /\ i.dst = l /\ i.src = r
      /\ j \in Instrs /\ j.op = "set" /\ j.f = cond /\ j.dst = d
      /\ k \in Instrs /\ k.op = "un" /\ k.f = "zext" /\ k.dst = d /\ k.src = d
  BY Names DEF Ins, Instrs
<1>. HIDE DEF i, j, k
<1>2. /\ Head(<<i, j, k>>) = i /\ Tail(<<i, j, k>>) = <<j, k>> /\ <<i, j, k>> # <<>>
      /\ Head(<<j, k>>) = j /\ Tail(<<j, k>>) = <<k>> /\ <<j, k>> # <<>>
      /\ Head(<<k>>) = k /\ Tail(<<k>>) = <<>> /\ <<k>> # <<>>
  BY <1>1
<1>3. NextRegs(i, s, fl) = s /\ ~Traps(i, s) /\ NextFlags(i, s, fl) = after
  BY <1>1 DEF NextRegs, Traps, NextFlags
<1>4. NextRegs(j, s, after) = g /\ ~Traps(j, s) /\ NextFlags(j, s, after) = after
  BY <1>1 DEF NextRegs, Traps, NextFlags
<1>5. NextRegs(k, g, after) = h /\ ~Traps(k, g)
  BY <1>1 DEF NextRegs, Traps
<1>6. c.dest = d /\ c.lhs = l /\ c.rhs = r /\ c.f = cond /\ c.name = "cmp_set"
  OBVIOUS
<1>7. ~Clash(c) /\ Meaning(c, s) = b
  BY <1>6 DEF Clash, Meaning
<1>8. Keeps(c, s, s) /\ Keeps(c, s, g) /\ Keeps(c, s, h)
  BY <1>6 DEF Keeps
<1>9. h[d] = b
  <2>1. b \in {0, 1} /\ s[d] \in Values
    BY DEF Bit
  <2>2. h[d] = Un("zext", SetLow(s[d], b))
    OBVIOUS
  <2>. HIDE DEF b, h
  <2>. QED BY <2>1, <2>2, ByteAssumption
<1>10. Right(c, s, h)
  BY <1>6, <1>7, <1>9 DEF Right
<1>. HIDE DEF g, h, after
<1>11. Runs1(<<k>>, c, s, g, after)
  BY <1>2, <1>5, <1>8, <1>10 DEF Runs1, Runs0
<1>12. Runs2(<<j, k>>, c, s, s, after)
  BY <1>2, <1>4, <1>8, <1>11 DEF Runs2
<1>. QED BY <1>2, <1>3, <1>8, <1>12 DEF Runs3, i, j, k

\* The float comparisons that read one condition of the flags: dest is cleared first,
\* which changes neither operand because they are XMM registers.
LEMMA FloatSetRuns ==
  ASSUME RegsAssumption, ByteAssumption,
         NEW s \in [Regs -> Values], NEW fl, NEW cond \in Conds \cup {"Parity", "NoParity"},
         NEW d \in GP, NEW x \in XMM, NEW y \in XMM, NEW c, c.dest = d, ~Clash(c),
         c.name # "bool_not",
         Meaning(c, s) = Bit(Holds(cond, UcomisFlags(FRel(s[x], s[y]))))
  PROVE  Runs3(<<Ins("imm", "", d, 0), Ins("ucomis", "", x, y), Ins("set", cond, d, d)>>,
               c, s, s, fl)
<1>. DEFINE i == Ins("imm", "", d, 0)
            j == Ins("ucomis", "", x, y)
            k == Ins("set", cond, d, d)
            after == UcomisFlags(FRel(s[x], s[y]))
            b == Bit(Holds(cond, after))
            g == [s EXCEPT ![d] = 0]
            h == [g EXCEPT ![d] = SetLow(g[d], b)]
<1>0. /\ d \in Regs /\ x \in Regs /\ y \in Regs /\ 0 \in Values
      /\ d # x /\ d # y
  BY RegsAssumption DEF Regs
<1>1. /\ i \in Instrs /\ i.op = "imm" /\ i.dst = d /\ i.src = 0
      /\ j \in Instrs /\ j.op = "ucomis" /\ j.dst = x /\ j.src = y
      /\ k \in Instrs /\ k.op = "set" /\ k.f = cond /\ k.dst = d
  BY <1>0, Names DEF Ins, Instrs
<1>. HIDE DEF i, j, k
<1>2. /\ Head(<<i, j, k>>) = i /\ Tail(<<i, j, k>>) = <<j, k>> /\ <<i, j, k>> # <<>>
      /\ Head(<<j, k>>) = j /\ Tail(<<j, k>>) = <<k>> /\ <<j, k>> # <<>>
      /\ Head(<<k>>) = k /\ Tail(<<k>>) = <<>> /\ <<k>> # <<>>
  BY <1>1
<1>3. NextRegs(i, s, fl) = g /\ ~Traps(i, s) /\ NextFlags(i, s, fl) = fl
  BY <1>1 DEF NextRegs, Traps, NextFlags
<1>4. NextRegs(j, g, fl) = g /\ ~Traps(j, g) /\ NextFlags(j, g, fl) = after
  BY <1>0, <1>1 DEF NextRegs, Traps, NextFlags
<1>5. NextRegs(k, g, after) = h /\ ~Traps(k, g)
  BY <1>1 DEF NextRegs, Traps
<1>6. Keeps(c, s, s) /\ Keeps(c, s, g) /\ Keeps(c, s, h)
  BY DEF Keeps
<1>7. h[d] = b
  <2>1. b \in {0, 1}
    BY DEF Bit
  <2>2. h[d] = SetLow(0, b)
    BY <1>0
  <2>. HIDE DEF b, h
  <2>3. \A v \in Values, a \in {0, 1} : SetLow(0, a) = a
    BY ByteAssumption
  <2>. QED BY <1>0, <2>1, <2>2, <2>3
<1>8. Right(c, s, h)
  BY <1>7 DEF Right
<1>. HIDE DEF g, h, after
<1>9. Runs1(<<k>>, c, s, g, after)
  BY <1>2, <1>5, <1>6, <1>8 DEF Runs1, Runs0
<1>10. Runs2(<<j, k>>, c, s, g, fl)
  BY <1>2, <1>4, <1>6, <1>9 DEF Runs2
<1>. QED BY <1>2, <1>3, <1>6, <1>10 DEF Runs3, i, j, k

\* The correction of an equality: the flags of an unordered pair are those of an equal
\* one, but for the parity.
LEMMA FloatEqRuns ==
  ASSUME RegsAssumption, ByteAssumption, ArithmeticAssumption,
         NEW s \in [Regs -> Values], NEW fl, NEW cond \in {"Equal", "NotEqual"},
         NEW d \in GP, NEW x \in XMM, NEW y \in XMM,
         NEW c, c = [name |-> "float_cmp", f |-> cond, dest |-> d, lhs |-> x, rhs |-> y],
         NEW v, v = (IF cond = "Equal" THEN 0 ELSE 1),
         NEW p, p = (IF cond = "Equal" THEN "NoParity" ELSE "Parity")
  PROVE  Runs5(<<Ins("imm", "", R11, v), Ins("imm", "", d, 0), Ins("ucomis", "", x, y),
                 Ins("set", p, d, d), Ins("cmov", "NotEqual", d, R11)>>, c, s, s, fl)
<1>. DEFINE i1 == Ins("imm", "", R11, v)
            i2 == Ins("imm", "", d, 0)
            i3 == Ins("ucomis", "", x, y)
            i4 == Ins("set", p, d, d)
            i5 == Ins("cmov", "NotEqual", d, R11)
            rel == FRel(s[x], s[y])
            after == UcomisFlags(rel)
            b == Bit(Holds(p, after))
            g1 == [s EXCEPT ![R11] = v]
            g2 == [g1 EXCEPT ![d] = 0]
            g4 == [g2 EXCEPT ![d] = SetLow(g2[d], b)]
            g5 == [g4 EXCEPT ![d] = IF Holds("NotEqual", after) THEN g4[R11] ELSE g4[d]]
<1>0. /\ d \in Regs /\ x \in Regs /\ y \in Regs /\ R11 \in Regs /\ {0, v} \subseteq Values
      /\ d # x /\ d # y /\ R11 # x /\ R11 # y
  BY RegsAssumption DEF Regs
<1>1. /\ i1 \in Instrs /\ i1.op = "imm" /\ i1.dst = R11 /\ i1.src = v
      /\ i2 \in Instrs /\ i2.op = "imm" /\ i2.dst = d /\ i2.src = 0
      /\ i3 \in Instrs /\ i3.op = "ucomis" /\ i3.dst = x /\ i3.src = y
      /\ i4 \in Instrs /\ i4.op = "set" /\ i4.f = p /\ i4.dst = d
      /\ i5 \in Instrs /\ i5.op = "cmov" /\ i5.f = "NotEqual" /\ i5.dst = d /\ i5.src = R11
  <2>1. p \in Variants /\ "NotEqual" \in Variants
    BY Names DEF Conds
  <2>. QED BY <1>0, <2>1, Names DEF Ins, Instrs
<1>. HIDE DEF i1, i2, i3, i4, i5
<1>2. /\ Head(<<i1, i2, i3, i4, i5>>) = i1 /\ Tail(<<i1, i2, i3, i4, i5>>) = <<i2, i3, i4, i5>>
      /\ Head(<<i2, i3, i4, i5>>) = i2 /\ Tail(<<i2, i3, i4, i5>>) = <<i3, i4, i5>>
      /\ Head(<<i3, i4, i5>>) = i3 /\ Tail(<<i3, i4, i5>>) = <<i4, i5>>
      /\ Head(<<i4, i5>>) = i4 /\ Tail(<<i4, i5>>) = <<i5>>
      /\ Head(<<i5>>) = i5 /\ Tail(<<i5>>) = <<>>
      /\ <<i1, i2, i3, i4, i5>> # <<>> /\ <<i2, i3, i4, i5>> # <<>>
      /\ <<i3, i4, i5>> # <<>> /\ <<i4, i5>> # <<>> /\ <<i5>> # <<>>
  BY <1>1
<1>3. /\ NextRegs(i1, s, fl) = g1 /\ ~Traps(i1, s) /\ NextFlags(i1, s, fl) = fl
      /\ NextRegs(i2, g1, fl) = g2 /\ ~Traps(i2, g1) /\ NextFlags(i2, g1, fl) = fl
  BY <1>1 DEF NextRegs, Traps, NextFlags
<1>4. NextRegs(i3, g2, fl) = g2 /\ ~Traps(i3, g2) /\ NextFlags(i3, g2, fl) = after
  <2>1. g2[x] = s[x] /\ g2[y] = s[y]
    BY <1>0
  <2>. HIDE DEF g2
  <2>. QED BY <1>1, <2>1 DEF NextRegs, Traps, NextFlags
<1>5. /\ NextRegs(i4, g2, after) = g4 /\ ~Traps(i4, g2) /\ NextFlags(i4, g2, after) = after
      /\ NextRegs(i5, g4, after) = g5 /\ ~Traps(i5, g4)
  <2>. HIDE DEF g2
  <2>. QED BY <1>1 DEF NextRegs, Traps, NextFlags
<1>6. c.dest = d /\ c.lhs = x /\ c.rhs = y /\ c.f = cond /\ c.name = "float_cmp"
  OBVIOUS
<1>7. /\ Clash(c) <=> d = R11
      /\ Meaning(c, s) = Bit(IF cond = "Equal" THEN rel = "eq" ELSE rel # "eq")
      /\ ClashMeaning(c, s) = Bit((rel = "un") <=> (cond = "NotEqual"))
      /\ Clobbered(c) = {R11}
  BY <1>6 DEF Clash, Meaning, ClashMeaning, Clobbered, Relation
<1>8. /\ Keeps(c, s, s) /\ Keeps(c, s, g1) /\ Keeps(c, s, g2)
      /\ Keeps(c, s, g4) /\ Keeps(c, s, g5)
  BY <1>6, <1>7 DEF Keeps
<1>9. b = Bit((rel = "un") <=> (cond = "NotEqual")) /\ b \in {0, 1}
  BY DEF Holds, UcomisFlags, Bit
<1>10. Holds("NotEqual", after) <=> rel \notin {"eq", "un"}
  BY DEF Holds, UcomisFlags
<1>11. rel \in {"lt", "eq", "gt", "un"}
  BY <1>0, ArithmeticAssumption
<1>12. g4[d] = b /\ (d # R11 => g4[R11] = v)
  <2>1. SetLow(0, b) = b
    <3>. HIDE DEF b
    <3>. QED BY <1>0, <1>9, ByteAssumption
  <2>2. g4[d] = SetLow(0, b) /\ (d # R11 => g4[R11] = v)
    <3>. HIDE DEF b
    <3>. QED BY <1>0
  <2>. QED BY <2>1, <2>2
<1>13. g5[d] = IF Holds("NotEqual", after) THEN g4[R11] ELSE g4[d]
  <2>1. g4 = [r \in Regs |-> g4[r]]
    OBVIOUS
  <2>. HIDE DEF g4, after
  <2>. QED BY <1>0, <2>1
<1>14. Right(c, s, g5)
  <2>. HIDE DEF g4, g5, after, b, rel
  <2>. QED BY <1>6, <1>7, <1>9, <1>10, <1>11, <1>12, <1>13 DEF Right, Bit
<1>. HIDE DEF g1, g2, g4, g5, after
<1>15. Runs1(<<i5>>, c, s, g4, after)
  BY <1>2, <1>5, <1>8, <1>14 DEF Runs1, Runs0
<1>16. Runs2(<<i4, i5>>, c, s, g2, after)
  BY <1>2, <1>5, <1>8, <1>15 DEF Runs2
<1>17. Runs3(<<i3, i4, i5>>, c, s, g2, fl)
  BY <1>2, <1>4, <1>8, <1>16 DEF Runs3
<1>18. Runs4(<<i2, i3, i4, i5>>, c, s, g1, fl)
  BY <1>2, <1>3, <1>8, <1>17 DEF Runs4
<1>. QED BY <1>2, <1>3, <1>8, <1>18 DEF Runs5, i1, i2, i3, i4, i5

(***************************************************************************)
(* Generating an operation.                                                 *)
(***************************************************************************)

LEMMA Emitted ==
  ASSUME Inv, phase = "emit", NEW name, NEW f, NEW d, NEW l, NEW r, NEW ins,
         Emit(name, f, d, l, r, ins),
         Runs(ins, [name |-> name, f |-> f, dest |-> d, lhs |-> l, rhs |-> r],
              start, start, flags)
  PROVE  Inv'
<1>. DEFINE c == [name |-> name, f |-> f, dest |-> d, lhs |-> l, rhs |-> r]
<1>1. /\ regs' = start /\ start' = start /\ flags' = flags /\ code' = ins /\ call' = c
      /\ phase' = "run"
  BY DEF Emit, Inv
<1>2. Runs(ins, c, start, start, flags)
  OBVIOUS
<1>. HIDE DEF c
<1>3. Runs(code', call', start', regs', flags')
  BY <1>1, <1>2
<1>. QED BY <1>1, <1>3 DEF Inv

LEMMA Panicked ==
  ASSUME Inv, NEW name, NEW f, NEW d, NEW l, NEW r, Panic(name, f, d, l, r)
  PROVE  Inv'
  BY DEF Inv, Panic

LEMMA RegsHold == RegsAssumption => GP \subseteq Regs /\ XMM \subseteq Regs
  BY DEF Regs

LEMMA AccumulateKeeps ==
  ASSUME RegsAssumption, Inv, phase = "emit", NEW f \in {"add", "sub"},
         NEW d \in Regs, NEW l \in Regs, NEW r \in Regs, Accumulate(f, d, l, r)
  PROVE  Inv'
<1>. DEFINE c == [name |-> "binary", f |-> f, dest |-> d, lhs |-> l, rhs |-> r]
            k == <<Ins("alu", f, l, r)>> \o Copy(d, l)
<1>1. start \in [Regs -> Values]
  BY DEF Inv
<1>2. Runs2(k, c, start, start, flags)
  BY <1>1, AccumulateRuns
<1>3. Emit("binary", f, d, l, r, k)
  BY DEF Accumulate
<1>. HIDE DEF k
<1>4. Runs(k, c, start, start, flags)
  BY <1>2 DEF Runs
<1>. QED BY <1>3, <1>4, Emitted

LEMMA InPlaceKeeps ==
  ASSUME Inv, phase = "emit", NEW d \in Regs, NEW l \in Regs, InPlace("neg", d, l)
  PROVE  Inv'
<1>. DEFINE c == [name |-> "unary", f |-> "neg", dest |-> d, lhs |-> l, rhs |-> l]
            k == <<Ins("un", "neg", l, l)>> \o Copy(d, l)
<1>1. start \in [Regs -> Values]
  BY DEF Inv
<1>2. Runs2(k, c, start, start, flags)
  BY <1>1, InPlaceRuns
<1>3. Emit("unary", "neg", d, l, l, k)
  BY DEF InPlace
<1>. HIDE DEF k
<1>4. Runs(k, c, start, start, flags)
  BY <1>2 DEF Runs
<1>. QED BY <1>3, <1>4, Emitted

LEMMA BoolNotKeeps ==
  ASSUME ArithmeticAssumption, Inv, phase = "emit", NEW d \in Regs, NEW l \in Regs, BoolNot(d, l)
  PROVE  Inv'
<1>. DEFINE c == [name |-> "bool_not", f |-> "", dest |-> d, lhs |-> l, rhs |-> l]
            k == <<Ins("un", "xor1", l, l), Ins("un", "and1", l, l)>> \o Copy(d, l)
<1>1. start \in [Regs -> Values]
  BY DEF Inv
<1>2. Runs3(k, c, start, start, flags)
  BY <1>1, BoolNotRuns
<1>3. Emit("bool_not", "", d, l, l, k)
  BY DEF BoolNot
<1>. HIDE DEF k
<1>4. Runs(k, c, start, start, flags)
  BY <1>2 DEF Runs
<1>. QED BY <1>3, <1>4, Emitted

LEMMA ConvertKeeps ==
  ASSUME Inv, phase = "emit", NEW f \in {"id", "cvttsi"}, NEW d \in Regs, NEW l \in Regs,
         Convert(f, d, l)
  PROVE  Inv'
<1>. DEFINE c == [name |-> "unary", f |-> f, dest |-> d, lhs |-> l, rhs |-> l]
            k == <<Ins("un", f, d, l)>>
<1>1. start \in [Regs -> Values]
  BY DEF Inv
<1>2. Runs1(k, c, start, start, flags)
  BY <1>1, ConvertRuns
<1>3. Emit("unary", f, d, l, l, k)
  BY DEF Convert
<1>. HIDE DEF k
<1>4. Runs(k, c, start, start, flags)
  BY <1>2 DEF Runs
<1>. QED BY <1>3, <1>4, Emitted

LEMMA IntToFloatKeeps ==
  ASSUME RegsAssumption, Inv, phase = "emit", NEW d \in XMM, NEW l \in GP, IntToFloat(d, l)
  PROVE  Inv'
<1>. DEFINE c == [name |-> "unary", f |-> "cvtsi", dest |-> d, lhs |-> l, rhs |-> l]
            k == <<Ins("alu", "xor", d, d), Ins("un", "cvtsi", d, l)>>
<1>1. start \in [Regs -> Values]
  BY DEF Inv
<1>2. Runs2(k, c, start, start, flags)
  BY <1>1, IntToFloatRuns
<1>3. Emit("unary", "cvtsi", d, l, l, k)
  BY DEF IntToFloat
<1>. HIDE DEF k
<1>4. Runs(k, c, start, start, flags)
  BY <1>2 DEF Runs
<1>. QED BY <1>3, <1>4, Emitted

LEMMA AddImmKeeps ==
  ASSUME RegsAssumption, Inv, phase = "emit", NEW d \in Regs, NEW l \in Regs,
         NEW v \in {1, BigImm}, AddImm(d, l, v)
  PROVE  Inv'
<1>. DEFINE c == [name |-> "add_imm", f |-> "add", dest |-> d, lhs |-> l, rhs |-> v]
            wide == <<Ins("imm", "", R11, v), Ins("alu", "add", l, R11)>> \o Copy(d, l)
            short == <<Ins("alu_imm", "add", l, v)>> \o Copy(d, l)
<1>1. start \in [Regs -> Values] /\ v \in Values
  BY RegsAssumption DEF Inv
<1>2. CASE v = BigImm
  <2>1. Runs3(wide, c, start, start, flags)
    BY <1>1, <1>2, AddBigImmRuns
  <2>2. Emit("add_imm", "add", d, l, v, wide)
    BY <1>2 DEF AddImm
  <2>. HIDE DEF wide
  <2>3. Runs(wide, c, start, start, flags)
    BY <2>1 DEF Runs
  <2>. QED BY <2>2, <2>3, Emitted
<1>3. CASE v # BigImm
  <2>1. Runs2(short, c, start, start, flags)
    BY <1>1, <1>3, AddImmRuns
  <2>2. Emit("add_imm", "add", d, l, v, short)
    BY <1>3 DEF AddImm
  <2>. HIDE DEF short
  <2>3. Runs(short, c, start, start, flags)
    BY <2>1 DEF Runs
  <2>. QED BY <2>2, <2>3, Emitted
<1>. QED BY <1>2, <1>3

LEMMA ShiftKeeps ==
  ASSUME RegsAssumption, Inv, phase = "emit",
         NEW d \in Regs, NEW l \in Regs, NEW r \in Regs, Shift("shl", d, l, r)
  PROVE  Inv'
<1>. DEFINE c == [name |-> "binary", f |-> "shl", dest |-> d, lhs |-> l, rhs |-> r]
            k == Copy(RCX, r) \o <<Ins("alu", "shl", l, RCX)>> \o Copy(d, l)
<1>1. CASE r # RCX /\ l = RCX
  BY <1>1, Panicked DEF Shift
<1>2. CASE r = RCX \/ l # RCX
  <2>1. start \in [Regs -> Values]
    BY DEF Inv
  <2>2. Runs(k, c, start, start, flags)
    BY <1>2, <2>1, ShiftRuns
  <2>3. Emit("binary", "shl", d, l, r, k)
    BY <1>2 DEF Shift
  <2>. HIDE DEF k
  <2>. QED BY <2>2, <2>3, Emitted
<1>. QED BY <1>1, <1>2

LEMMA DivKeeps ==
  ASSUME RegsAssumption, Inv, phase = "emit", NEW result \in {RAX, RDX},
         NEW d \in Regs, NEW l \in Regs, NEW r \in Regs, DivCommon(result, d, l, r)
  PROVE  Inv'
<1>. DEFINE c == [name |-> "div", f |-> result, dest |-> d, lhs |-> l, rhs |-> r]
            k == Copy(RAX, l) \o <<Ins("cqo", "", RDX, RAX), Ins("idiv", "", RAX, r)>>
                   \o Copy(d, result)
<1>1. CASE l # RAX /\ r = RAX
  BY <1>1, Panicked DEF DivCommon
<1>2. CASE l = RAX \/ r # RAX
  <2>1. start \in [Regs -> Values]
    BY DEF Inv
  <2>2. Runs(k, c, start, start, flags)
    BY <1>2, <2>1, DivRuns
  <2>3. Emit("div", result, d, l, r, k)
    BY <1>2 DEF DivCommon
  <2>. HIDE DEF k
  <2>. QED BY <2>2, <2>3, Emitted
<1>. QED BY <1>1, <1>2

LEMMA CmpSetKeeps ==
  ASSUME ByteAssumption, Inv, phase = "emit", NEW cond \in Conds,
         NEW d \in Regs, NEW l \in Regs, NEW r \in Regs, CmpSet(cond, d, l, r)
  PROVE  Inv'
<1>. DEFINE c == [name |-> "cmp_set", f |-> cond, dest |-> d, lhs |-> l, rhs |-> r]
            k == <<Ins("cmp", "", l, r), Ins("set", cond, d, d), Ins("un", "zext", d, d)>>
<1>1. start \in [Regs -> Values]
  BY DEF Inv
<1>2. Runs3(k, c, start, start, flags)
  BY <1>1, CmpSetRuns
<1>3. Emit("cmp_set", cond, d, l, r, k)
  BY DEF CmpSet
<1>. HIDE DEF k
<1>4. Runs(k, c, start, start, flags)
  BY <1>2 DEF Runs
<1>. QED BY <1>3, <1>4, Emitted

LEMMA FloatCmpKeeps ==
  ASSUME RegsAssumption, ByteAssumption, ArithmeticAssumption, Inv, phase = "emit",
         NEW cond \in Conds, NEW d \in GP, NEW x \in XMM, NEW y \in XMM, FloatCmp(cond, d, x, y)
  PROVE  Inv'
<1>. DEFINE c == [name |-> "float_cmp", f |-> cond, dest |-> d, lhs |-> x, rhs |-> y]
            rel == FRel(start[x], start[y])
            v == IF cond = "Equal" THEN 0 ELSE 1
            p == IF cond = "Equal" THEN "NoParity" ELSE "Parity"
            eq == <<Ins("imm", "", R11, v), Ins("imm", "", d, 0), Ins("ucomis", "", x, y),
                    Ins("set", p, d, d), Ins("cmov", "NotEqual", d, R11)>>
            above == <<Ins("imm", "", d, 0), Ins("ucomis", "", x, y),
                       Ins("set", Above(cond), d, d)>>
            below == <<Ins("imm", "", d, 0), Ins("ucomis", "", y, x),
                       Ins("set", Above(cond), d, d)>>
<1>1. /\ start \in [Regs -> Values] /\ x \in Regs /\ y \in Regs
      /\ start[x] \in Values /\ start[y] \in Values
  BY RegsHold DEF Inv
<1>2. c.dest = d /\ c.lhs = x /\ c.rhs = y /\ c.f = cond /\ c.name = "float_cmp"
  OBVIOUS
<1>3. Above(cond) \in Conds
  BY DEF Above, Conds
<1>4. /\ rel \in {"lt", "eq", "gt", "un"}
      /\ FRel(start[y], start[x]) = "gt" <=> rel = "lt"
      /\ FRel(start[y], start[x]) = "eq" <=> rel = "eq"
      /\ FRel(start[y], start[x]) \in {"lt", "eq", "gt", "un"}
  BY <1>1, ArithmeticAssumption
<1>5. CASE cond \in {"Equal", "NotEqual"}
  <2>1. Runs5(eq, c, start, start, flags)
    BY <1>1, <1>5, FloatEqRuns
  <2>2. Emit("float_cmp", cond, d, x, y, eq)
    BY <1>5 DEF FloatCmp
  <2>. HIDE DEF eq
  <2>3. Runs(eq, c, start, start, flags)
    BY <2>1 DEF Runs
  <2>. QED BY <2>2, <2>3, Emitted
<1>6. CASE cond \in {"Greater", "GreaterEq"}
  <2>1. ~Clash(c) /\ Meaning(c, start) = Bit(Relation(cond, rel))
    BY <1>2, <1>6 DEF Clash, Meaning
  <2>2. Relation(cond, rel) <=> Holds(Above(cond), UcomisFlags(rel))
    BY <1>4, <1>6 DEF Relation, Holds, Above, UcomisFlags
  <2>3. Meaning(c, start) = Bit(Holds(Above(cond), UcomisFlags(FRel(start[x], start[y]))))
    BY <2>1, <2>2 DEF Bit
  <2>. HIDE DEF c
  <2>4. Runs3(above, c, start, start, flags)
    <3>. DEFINE a == Above(cond)
    <3>1. a \in Conds \cup {"Parity", "NoParity"} /\ c.dest = d /\ c.name # "bool_not"
      BY <1>2, <1>3
    <3>2. Meaning(c, start) = Bit(Holds(a, UcomisFlags(FRel(start[x], start[y]))))
      BY <2>3
    <3>. HIDE DEF a
    <3>. QED BY <1>1, <2>1, <3>1, <3>2, FloatSetRuns DEF a
  <2>5. Emit("float_cmp", cond, d, x, y, above)
    BY <1>6 DEF FloatCmp
  <2>. HIDE DEF above
  <2>6. Runs(above, c, start, start, flags)
    BY <2>4 DEF Runs
  <2>. QED BY <2>5, <2>6, Emitted DEF c
<1>7. CASE cond \in {"Less", "LessEq"}
  <2>1. ~Clash(c) /\ Meaning(c, start) = Bit(Relation(cond, rel))
    BY <1>2, <1>7 DEF Clash, Meaning
  <2>2. Relation(cond, rel) <=> Holds(Above(cond), UcomisFlags(FRel(start[y], start[x])))
    BY <1>4, <1>7 DEF Relation, Holds, Above, UcomisFlags
  <2>3. Meaning(c, start) = Bit(Holds(Above(cond), UcomisFlags(FRel(start[y], start[x]))))
    BY <2>1, <2>2 DEF Bit
  <2>. HIDE DEF c
  <2>4. Runs3(below, c, start, start, flags)
    <3>. DEFINE a == Above(cond)
    <3>1. a \in Conds \cup {"Parity", "NoParity"} /\ c.dest = d /\ c.name # "bool_not"
      BY <1>2, <1>3
    <3>2. Meaning(c, start) = Bit(Holds(a, UcomisFlags(FRel(start[y], start[x]))))
      BY <2>3
    <3>. HIDE DEF a
    <3>. QED BY <1>1, <2>1, <3>1, <3>2, FloatSetRuns DEF a
  <2>5. Emit("float_cmp", cond, d, x, y, below)
    BY <1>7 DEF FloatCmp
  <2>. HIDE DEF below
  <2>6. Runs(below, c, start, start, flags)
    BY <2>4 DEF Runs
  <2>. QED BY <2>5, <2>6, Emitted DEF c
<1>. QED BY <1>5, <1>6, <1>7 DEF FloatCmp

LEMMA FloatCmpNanKeeps ==
  ASSUME RegsAssumption, ByteAssumption, Inv, phase = "emit",
         NEW d \in GP, NEW x \in XMM, FloatCmpNan(d, x)
  PROVE  Inv'
<1>. DEFINE c == [name |-> "float_cmp_nan", f |-> "", dest |-> d, lhs |-> x, rhs |-> x]
            k == <<Ins("imm", "", d, 0), Ins("ucomis", "", x, x), Ins("set", "Parity", d, d)>>
<1>1. start \in [Regs -> Values]
  BY DEF Inv
<1>2. c.dest = d /\ c.lhs = x /\ c.name = "float_cmp_nan"
  OBVIOUS
<1>3. ~Clash(c)
  BY <1>2 DEF Clash
<1>4. Meaning(c, start) = Bit(Holds("Parity", UcomisFlags(FRel(start[x], start[x]))))
  BY <1>2 DEF Meaning, Holds, UcomisFlags, Bit
<1>. HIDE DEF c
<1>5. Runs3(k, c, start, start, flags)
  <2>. DEFINE a == "Parity"
  <2>1. a \in Conds \cup {"Parity", "NoParity"} /\ c.dest = d /\ c.name # "bool_not"
    BY <1>2
  <2>2. Meaning(c, start) = Bit(Holds(a, UcomisFlags(FRel(start[x], start[x]))))
    BY <1>4
  <2>. HIDE DEF a
  <2>. QED BY <1>1, <1>3, <2>1, <2>2, FloatSetRuns DEF a
<1>6. Emit("float_cmp_nan", "", d, x, x, k)
  BY DEF FloatCmpNan
<1>. HIDE DEF k
<1>7. Runs(k, c, start, start, flags)
  BY <1>5 DEF Runs
<1>. QED BY <1>6, <1>7, Emitted DEF c

LEMMA GenerateKeeps ==
  ASSUME RegsAssumption, ByteAssumption, ArithmeticAssumption, Inv, Generate
  PROVE  Inv'
<1>1. phase = "emit" /\ GP \subseteq Regs /\ XMM \subseteq Regs
  BY RegsHold DEF Generate
<1>2. ASSUME NEW d \in Regs, NEW l \in Regs, NEW r \in Regs, NEW f \in {"add", "sub"},
             Accumulate(f, d, l, r)
      PROVE  Inv'
  BY <1>1, <1>2, AccumulateKeeps
<1>3. ASSUME NEW d \in Regs, NEW l \in Regs,
             InPlace("neg", d, l) \/ BoolNot(d, l) \/ Convert("id", d, l)
               \/ Convert("cvttsi", d, l)
      PROVE  Inv'
  BY <1>1, <1>3, InPlaceKeeps, BoolNotKeeps, ConvertKeeps
<1>4. ASSUME NEW d \in XMM, NEW l \in GP, IntToFloat(d, l)
      PROVE  Inv'
  BY <1>1, <1>4, IntToFloatKeeps
<1>5. ASSUME NEW d \in Regs, NEW l \in Regs, NEW v \in {1, BigImm}, AddImm(d, l, v)
      PROVE  Inv'
  BY <1>1, <1>5, AddImmKeeps
<1>6. ASSUME NEW d \in Regs, NEW l \in Regs, NEW r \in Regs, Shift("shl", d, l, r)
      PROVE  Inv'
  BY <1>1, <1>6, ShiftKeeps
<1>7. ASSUME NEW result \in {RAX, RDX}, NEW d \in Regs, NEW l \in Regs, NEW r \in Regs,
             DivCommon(result, d, l, r)
      PROVE  Inv'
  BY <1>1, <1>7, DivKeeps
<1>8. ASSUME NEW d \in Regs, NEW l \in Regs, NEW r \in Regs, NEW cond \in Conds,
             CmpSet(cond, d, l, r)
      PROVE  Inv'
  BY <1>1, <1>8, CmpSetKeeps
<1>9. ASSUME NEW d \in GP, NEW x \in XMM, NEW y \in XMM, NEW cond \in Conds,
             FloatCmp(cond, d, x, y)
      PROVE  Inv'
  BY <1>1, <1>9, FloatCmpKeeps
<1>10. ASSUME NEW d \in GP, NEW x \in XMM, FloatCmpNan(d, x)
       PROVE  Inv'
  BY <1>1, <1>10, FloatCmpNanKeeps
<1>. QED BY <1>1, <1>2, <1>3, <1>4, <1>5, <1>6, <1>7, <1>8, <1>9, <1>10 DEF Generate

(***************************************************************************)
(* Types.                                                                   *)
(***************************************************************************)

\* The instructions the operations emit: which take registers, which an immediate.
Sound ==
  [op : {"alu"}, f : {"add", "sub", "xor", "shl"}, dst : Regs, src : Regs]
    \cup [op : {"alu_imm"}, f : {"add"}, dst : Regs, src : Values]
    \cup [op : {"un"}, f : {"neg", "xor1", "and1", "id", "zext", "cvtsi", "cvttsi"},
          dst : Regs, src : Regs]
    \cup [op : {"mov", "set", "cmov", "cqo", "cmp", "ucomis", "idiv"}, f : Variants,
          dst : Regs, src : Regs]
    \cup [op : {"imm"}, f : Variants, dst : Regs, src : Values]

TypeInv == TypeOK /\ code \in Seq(Sound)

LEMMA Joined ==
  ASSUME NEW S, NEW p \in Seq(S), NEW q \in Seq(S)
  PROVE  p \o q \in Seq(S) /\ Len(p \o q) = Len(p) + Len(q)
OBVIOUS

LEMMA JoinedShort ==
  ASSUME NEW S, NEW p \in Seq(S), NEW q \in Seq(S), Len(p) \in 0..1, Len(q) \in 1..2
  PROVE  p \o q \in Seq(S) /\ Len(p \o q) <= 4
<1>1. p \o q \in Seq(S) /\ Len(p \o q) = Len(p) + Len(q)
  BY Joined
<1>2. \A m \in 0..1, n \in 1..2 : m + n <= 4
  OBVIOUS
<1> QED BY <1>1, <1>2, Zenon

LEMMA Listed ==
  ASSUME NEW S, NEW a \in S
  PROVE  /\ <<a>> \in Seq(S) /\ Len(<<a>>) = 1
         /\ \A b \in S : /\ <<a, b>> \in Seq(S) /\ Len(<<a, b>>) = 2
                         /\ \A c \in S : <<a, b, c>> \in Seq(S) /\ Len(<<a, b, c>>) = 3
OBVIOUS

\* Each sort of instruction.
LEMMA SoundIns ==
  ASSUME NEW d \in Regs, NEW s \in Regs, NEW v \in Values
  PROVE  /\ \A f \in {"add", "sub", "xor", "shl"} : Ins("alu", f, d, s) \in Sound
         /\ Ins("alu_imm", "add", d, v) \in Sound
         /\ \A f \in {"neg", "xor1", "and1", "id", "zext", "cvtsi", "cvttsi"} :
              Ins("un", f, d, s) \in Sound
         /\ \A o \in {"mov", "set", "cmov", "cqo", "cmp", "ucomis", "idiv"}, f \in Variants :
              Ins(o, f, d, s) \in Sound
         /\ Ins("imm", "", d, v) \in Sound
BY Names DEF Sound, Ins

LEMMA SoundCopy ==
  ASSUME NEW d \in Regs, NEW s \in Regs
  PROVE  Copy(d, s) \in Seq(Sound) /\ Len(Copy(d, s)) \in 0..1
<1>1. CASE d = s
  BY <1>1 DEF Copy
<1>2. CASE d # s
  <2> DEFINE m == Ins("mov", "", d, s)
  <2>1. Copy(d, s) = <<m>>
    BY <1>2 DEF Copy
  <2>2. m \in Sound
    BY Names DEF Sound, Ins
  <2> HIDE DEF m
  <2> QED BY <2>1, <2>2, Listed
<1> QED BY <1>1, <1>2

\* Emitting code of at most five instructions.
LEMMA EmitTyped ==
  ASSUME TypeInv, NEW ins \in Seq(Sound), Len(ins) <= 5,
         phase' = "run", code' = ins, UNCHANGED <<regs, flags, start>>
  PROVE  TypeInv'
BY DEF TypeInv, TypeOK

LEMMA PanicTyped ==
  ASSUME TypeInv, NEW n, NEW f, NEW d, NEW l, NEW r, Panic(n, f, d, l, r)
  PROVE  TypeInv'
BY DEF TypeInv, TypeOK, Panic

\* An instruction or two, then the move to dest.
LEMMA EndTyped ==
  ASSUME TypeInv, NEW p \in Seq(Sound), Len(p) <= 4, NEW d \in Regs, NEW s \in Regs,
         phase' = "run", code' = p \o Copy(d, s), UNCHANGED <<regs, flags, start>>
  PROVE  TypeInv'
<1>1. Copy(d, s) \in Seq(Sound) /\ Len(Copy(d, s)) \in 0..1
  BY SoundCopy
<1>2. p \o Copy(d, s) \in Seq(Sound) /\ Len(p \o Copy(d, s)) = Len(p) + Len(Copy(d, s))
  BY <1>1, Joined
<1>3. Len(p \o Copy(d, s)) <= 5
  BY <1>1, <1>2
<1> QED BY <1>2, <1>3, EmitTyped

LEMMA ArithmeticTyped ==
  ASSUME RegsAssumption, TypeInv, NEW d \in Regs, NEW l \in Regs, NEW r \in Regs
  PROVE  /\ \A f \in {"add", "sub"} : Accumulate(f, d, l, r) => TypeInv'
         /\ InPlace("neg", d, l) => TypeInv'
         /\ BoolNot(d, l) => TypeInv'
         /\ \A f \in {"id", "cvttsi"} : Convert(f, d, l) => TypeInv'
         /\ IntToFloat(d, l) => TypeInv'
<1>1. ASSUME NEW f \in {"add", "sub"}, Accumulate(f, d, l, r) PROVE TypeInv'
  <2>1. Ins("alu", f, l, r) \in Sound
    BY SoundIns DEF RegsAssumption
  <2>2. <<Ins("alu", f, l, r)>> \in Seq(Sound) /\ Len(<<Ins("alu", f, l, r)>>) <= 4
    BY <2>1, Listed
  <2> QED BY <1>1, <2>2, EndTyped DEF Accumulate, Emit
<1>2. ASSUME InPlace("neg", d, l) PROVE TypeInv'
  <2>1. Ins("un", "neg", l, l) \in Sound
    BY SoundIns DEF RegsAssumption
  <2>2. <<Ins("un", "neg", l, l)>> \in Seq(Sound) /\ Len(<<Ins("un", "neg", l, l)>>) <= 4
    BY <2>1, Listed
  <2> QED BY <1>2, <2>2, EndTyped DEF InPlace, Emit
<1>3. ASSUME BoolNot(d, l) PROVE TypeInv'
  <2> DEFINE p == <<Ins("un", "xor1", l, l), Ins("un", "and1", l, l)>>
  <2>1. Ins("un", "xor1", l, l) \in Sound /\ Ins("un", "and1", l, l) \in Sound
    BY SoundIns DEF RegsAssumption
  <2>2. p \in Seq(Sound) /\ Len(p) <= 4
    BY <2>1, Listed
  <2> QED BY <1>3, <2>2, EndTyped DEF BoolNot, Emit
<1>4. ASSUME NEW f \in {"id", "cvttsi"}, Convert(f, d, l) PROVE TypeInv'
  <2>1. Ins("un", f, d, l) \in Sound
    BY SoundIns DEF RegsAssumption
  <2>2. <<Ins("un", f, d, l)>> \in Seq(Sound) /\ Len(<<Ins("un", f, d, l)>>) <= 5
    BY <2>1, Listed
  <2> QED BY <1>4, <2>2, EmitTyped DEF Convert, Emit
<1>5. ASSUME IntToFloat(d, l) PROVE TypeInv'
  <2> DEFINE p == <<Ins("alu", "xor", d, d), Ins("un", "cvtsi", d, l)>>
  <2>1. Ins("alu", "xor", d, d) \in Sound /\ Ins("un", "cvtsi", d, l) \in Sound
    BY SoundIns DEF RegsAssumption
  <2>2. p \in Seq(Sound) /\ Len(p) <= 5
    BY <2>1, Listed
  <2> QED BY <1>5, <2>2, EmitTyped DEF IntToFloat, Emit
<1> QED BY <1>1, <1>2, <1>3, <1>4, <1>5

LEMMA FixedTyped ==
  ASSUME RegsAssumption, TypeInv, NEW d \in Regs, NEW l \in Regs, NEW r \in Regs
  PROVE  /\ \A v \in {1, BigImm} : AddImm(d, l, v) => TypeInv'
         /\ Shift("shl", d, l, r) => TypeInv'
         /\ \A result \in {RAX, RDX} : DivCommon(result, d, l, r) => TypeInv'
<1>0. RAX \in Regs /\ RCX \in Regs /\ RDX \in Regs /\ R11 \in Regs
  BY DEF RegsAssumption, Regs
<1>1. ASSUME NEW v \in {1, BigImm}, AddImm(d, l, v) PROVE TypeInv'
  <2>1. /\ Ins("imm", "", R11, v) \in Sound /\ Ins("alu", "add", l, R11) \in Sound
        /\ Ins("alu_imm", "add", l, v) \in Sound
    BY <1>0, SoundIns DEF RegsAssumption
  <2> DEFINE p == <<Ins("imm", "", R11, v), Ins("alu", "add", l, R11)>>
             q == <<Ins("alu_imm", "add", l, v)>>
  <2>5. ASSUME NEW a \in Sound, NEW b \in Sound, NEW c \in Sound
        PROVE  <<a, b>> \in Seq(Sound) /\ Len(<<a, b>>) <= 4 /\ <<c>> \in Seq(Sound) /\ Len(<<c>>) <= 4
    OBVIOUS
  <2>2. p \in Seq(Sound) /\ Len(p) <= 4 /\ q \in Seq(Sound) /\ Len(q) <= 4
    BY <2>1, <2>5
  <2>3. code' = p \o Copy(d, l) \/ code' = q \o Copy(d, l)
    BY <1>1 DEF AddImm, Emit
  <2>4. phase' = "run" /\ UNCHANGED <<regs, flags, start>>
    BY <1>1 DEF AddImm, Emit
  <2> HIDE DEF p, q
  <2> QED BY <2>2, <2>3, <2>4, EndTyped
<1>2. ASSUME Shift("shl", d, l, r) PROVE TypeInv'
  <2>1. CASE Panic("binary", "shl", d, l, r)
    BY <2>1, PanicTyped
  <2>2. CASE ~Panic("binary", "shl", d, l, r)
    <3> DEFINE p == Copy(RCX, r) \o <<Ins("alu", "shl", l, RCX)>>
    <3>1. Ins("alu", "shl", l, RCX) \in Sound
      BY <1>0, SoundIns DEF RegsAssumption
    <3>2. <<Ins("alu", "shl", l, RCX)>> \in Seq(Sound) /\ Len(<<Ins("alu", "shl", l, RCX)>>) = 1
      BY <3>1, Listed
    <3>3. Copy(RCX, r) \in Seq(Sound) /\ Len(Copy(RCX, r)) \in 0..1
      BY <1>0, SoundCopy
    <3>4. p \in Seq(Sound) /\ Len(p) <= 4
      <4> DEFINE a == Copy(RCX, r)
                 b == <<Ins("alu", "shl", l, RCX)>>
      <4>1. a \in Seq(Sound) /\ b \in Seq(Sound) /\ Len(a) \in 0..1 /\ Len(b) \in 1..2
        BY <3>2, <3>3
      <4> HIDE DEF a, b
      <4>2. a \o b \in Seq(Sound) /\ Len(a \o b) <= 4
        BY <4>1, JoinedShort
      <4> QED BY <4>2 DEF a, b
    <3>5. code' = p \o Copy(d, l) /\ phase' = "run" /\ UNCHANGED <<regs, flags, start>>
      BY <1>2, <2>2 DEF Shift, Emit
    <3> HIDE DEF p
    <3> QED BY <3>4, <3>5, EndTyped
  <2> QED BY <2>1, <2>2
<1>3. ASSUME NEW result \in {RAX, RDX}, DivCommon(result, d, l, r) PROVE TypeInv'
  <2>1. CASE Panic("div", result, d, l, r)
    BY <2>1, PanicTyped
  <2>2. CASE ~Panic("div", result, d, l, r)
    <3> DEFINE q == <<Ins("cqo", "", RDX, RAX), Ins("idiv", "", RAX, r)>>
               p == Copy(RAX, l) \o q
    <3>1. Ins("cqo", "", RDX, RAX) \in Sound /\ Ins("idiv", "", RAX, r) \in Sound
      BY <1>0, SoundIns, Names DEF RegsAssumption
    <3>2. q \in Seq(Sound) /\ Len(q) = 2
      BY <3>1, Listed
    <3>3. Copy(RAX, l) \in Seq(Sound) /\ Len(Copy(RAX, l)) \in 0..1
      BY <1>0, SoundCopy
    <3>4. code' = p \o Copy(d, result) /\ phase' = "run" /\ UNCHANGED <<regs, flags, start>>
      BY <1>3, <2>2 DEF DivCommon, Emit
    <3> HIDE DEF q
    <3>5. p \in Seq(Sound) /\ Len(p) <= 4
      <4> DEFINE a == Copy(RAX, l)
      <4>1. a \in Seq(Sound) /\ Len(a) \in 0..1 /\ Len(q) \in 1..2
        BY <3>2, <3>3
      <4> HIDE DEF a
      <4>2. a \o q \in Seq(Sound) /\ Len(a \o q) <= 4
        BY <3>2, <4>1, JoinedShort
      <4> QED BY <4>2 DEF a
    <3>6. result \in Regs
      BY <1>0
    <3> HIDE DEF p
    <3> QED BY <3>4, <3>5, <3>6, EndTyped
  <2> QED BY <2>1, <2>2
<1> QED BY <1>1, <1>2, <1>3

LEMMA CompareTyped ==
  ASSUME RegsAssumption, TypeInv, NEW d \in Regs, NEW l \in Regs, NEW r \in Regs
  PROVE  /\ \A cond \in Conds : CmpSet(cond, d, l, r) => TypeInv'
         /\ \A cond \in Conds : FloatCmp(cond, d, l, r) => TypeInv'
         /\ FloatCmpNan(d, l) => TypeInv'
<1>0. R11 \in Regs /\ 0 \in Values /\ 1 \in Values
  BY DEF RegsAssumption, Regs
<1> DEFINE zero == Ins("imm", "", d, 0)
<1>1. zero \in Sound
  BY <1>0, SoundIns
<1>2. \A x, y \in Regs : Ins("ucomis", "", x, y) \in Sound /\ Ins("cmp", "", x, y) \in Sound
  BY <1>0, SoundIns, Names
<1>3. \A f \in Variants : Ins("set", f, d, d) \in Sound
  BY <1>0, SoundIns
<1> HIDE DEF zero
<1>4. ASSUME NEW a \in Sound, NEW b \in Sound, NEW c \in Sound, phase' = "run",
             code' = <<a, b, c>>, UNCHANGED <<regs, flags, start>>
      PROVE  TypeInv'
  <2>1. <<a, b, c>> \in Seq(Sound) /\ Len(<<a, b, c>>) <= 5
    OBVIOUS
  <2> QED BY <1>4, <2>1, EmitTyped
<1>5. ASSUME NEW cond \in Conds, CmpSet(cond, d, l, r) PROVE TypeInv'
  <2>1. Ins("un", "zext", d, d) \in Sound /\ Ins("set", cond, d, d) \in Sound
    BY <1>0, <1>3, SoundIns, Names
  <2> QED BY <1>2, <1>4, <1>5, <2>1 DEF CmpSet, Emit
<1>6. ASSUME NEW cond \in Conds, FloatCmp(cond, d, l, r) PROVE TypeInv'
  <2>1. Above(cond) \in Variants
    BY DEF Above, Variants, Conds
  <2>2. CASE cond \in {"Equal", "NotEqual"}
    <3> DEFINE v == IF cond = "Equal" THEN 0 ELSE 1
               p == <<Ins("imm", "", R11, v), zero, Ins("ucomis", "", l, r)>>
               t == IF cond = "Equal" THEN "NoParity" ELSE "Parity"
               q == <<Ins("set", t, d, d), Ins("cmov", "NotEqual", d, R11)>>
    <3>1. /\ Ins("imm", "", R11, v) \in Sound /\ Ins("cmov", "NotEqual", d, R11) \in Sound
      BY <1>0, SoundIns DEF Variants, Conds
    <3>2. Ins("set", t, d, d) \in Sound
      BY <1>3, Names
    <3>3. /\ phase' = "run" /\ UNCHANGED <<regs, flags, start>>
          /\ code' = <<Ins("imm", "", R11, v), zero, Ins("ucomis", "", l, r),
                       Ins("set", t, d, d), Ins("cmov", "NotEqual", d, R11)>>
      BY <1>6, <2>2 DEF FloatCmp, Emit, zero
    <3> HIDE DEF v, t
    <3>4. ASSUME NEW a \in Sound, NEW b \in Sound, NEW c \in Sound, NEW e \in Sound, NEW g \in Sound
          PROVE  <<a, b, c, e, g>> \in Seq(Sound) /\ Len(<<a, b, c, e, g>>) <= 5
      OBVIOUS
    <3> QED BY <1>1, <1>2, <3>1, <3>2, <3>3, <3>4, EmitTyped
  <2>3. CASE cond \notin {"Equal", "NotEqual"}
    <3>1. /\ phase' = "run" /\ UNCHANGED <<regs, flags, start>>
          /\ \E x, y \in Regs :
               code' = <<zero, Ins("ucomis", "", x, y), Ins("set", Above(cond), d, d)>>
      BY <1>6, <2>3 DEF FloatCmp, Emit, zero
    <3> QED BY <1>1, <1>2, <1>3, <1>4, <2>1, <3>1
  <2> QED BY <2>2, <2>3
<1>7. ASSUME FloatCmpNan(d, l) PROVE TypeInv'
  <2>1. Ins("set", "Parity", d, d) \in Sound
    BY <1>3, Names
  <2> QED BY <1>1, <1>2, <1>4, <1>7, <2>1 DEF FloatCmpNan, Emit, zero
<1> QED BY <1>5, <1>6, <1>7

LEMMA GenerateTyped ==
  ASSUME RegsAssumption, TypeInv, Generate
  PROVE  TypeInv'
<1>1. GP \subseteq Regs /\ XMM \subseteq Regs
  BY RegsHold
<1>2. CASE \/ \E d, l, r \in GP, f \in {"add", "sub"} : Accumulate(f, d, l, r)
           \/ \E d, l, r \in XMM : Accumulate("sub", d, l, r)
           \/ \E d, s \in GP : InPlace("neg", d, s)
           \/ \E d, s \in XMM : InPlace("neg", d, s)
           \/ \E d, s \in GP : BoolNot(d, s)
           \/ \E d, s \in GP : Convert("id", d, s)
           \/ \E d \in GP, s \in XMM : Convert("cvttsi", d, s)
           \/ \E d \in XMM, s \in GP : IntToFloat(d, s)
  BY <1>1, <1>2, ArithmeticTyped
<1>3. CASE \/ \E d, l \in GP, v \in {1, BigImm} : AddImm(d, l, v)
           \/ \E d, l, r \in GP : Shift("shl", d, l, r)
           \/ \E result \in {RAX, RDX}, d, l, r \in GP : DivCommon(result, d, l, r)
  BY <1>1, <1>3, FixedTyped
<1>4. CASE \/ \E d, l, r \in GP, cond \in Conds : CmpSet(cond, d, l, r)
           \/ \E d \in GP, l, r \in XMM, cond \in Conds : FloatCmp(cond, d, l, r)
           \/ \E d \in GP, s \in XMM : FloatCmpNan(d, s)
  BY <1>1, <1>4, CompareTyped
<1> QED BY <1>2, <1>3, <1>4 DEF Generate

\* Executing an instruction leaves contents in every register.
LEMMA RegsTyped ==
  ASSUME RegsAssumption, ByteAssumption, ArithmeticAssumption, ClosedAssumption,
         NEW i \in Sound, NEW g \in [Regs -> Values], NEW fl \in Flags, ~Traps(i, g)
  PROVE  NextRegs(i, g, fl) \in [Regs -> Values] /\ NextFlags(i, g, fl) \in Flags
<1>1. RAX \in Regs /\ RDX \in Regs /\ 0 \in Values /\ 1 \in Values
  BY DEF RegsAssumption, Regs
<1>2. CASE i.op = "alu"
  <2>1. i.f \in {"add", "sub", "xor", "shl"} /\ i.dst \in Regs /\ i.src \in Regs
    BY <1>2 DEF Sound
  <2>2. Alu(i.f, g[i.dst], g[i.src]) \in Values
    BY <2>1 DEF ClosedAssumption
  <2> QED BY <1>2, <2>1, <2>2 DEF NextRegs, NextFlags
<1>3. CASE i.op = "alu_imm"
  <2>1. i.f = "add" /\ i.dst \in Regs /\ i.src \in Values
    BY <1>3 DEF Sound
  <2>2. Alu(i.f, g[i.dst], i.src) \in Values
    BY <2>1 DEF ClosedAssumption
  <2> QED BY <1>3, <2>1, <2>2 DEF NextRegs, NextFlags
<1>4. CASE i.op = "un"
  <2>1. /\ i.f \in {"neg", "xor1", "and1", "id", "zext", "cvtsi", "cvttsi"}
        /\ i.dst \in Regs /\ i.src \in Regs
    BY <1>4 DEF Sound
  <2>2. Un(i.f, g[i.src]) \in Values
    BY <2>1 DEF ClosedAssumption
  <2> QED BY <1>4, <2>1, <2>2 DEF NextRegs, NextFlags
<1>5. CASE i.op = "imm"
  <2>1. i.dst \in Regs /\ i.src \in Values
    BY <1>5 DEF Sound
  <2> QED BY <1>5, <2>1 DEF NextRegs, NextFlags
<1>6. CASE i.op \in {"mov", "set", "cmov", "cqo", "cmp", "ucomis", "idiv"}
  <2>1. i.dst \in Regs /\ i.src \in Regs
    BY <1>6 DEF Sound
  <2>2. CASE i.op = "mov"
    BY <2>1, <2>2 DEF NextRegs, NextFlags
  <2>3. CASE i.op = "set"
    <3>1. Bit(Holds(i.f, fl)) \in {0, 1}
      BY DEF Bit
    <3>2. SetLow(g[i.dst], Bit(Holds(i.f, fl))) \in Values
      BY <2>1, <3>1 DEF ByteAssumption
    <3> QED BY <2>1, <2>3, <3>2 DEF NextRegs, NextFlags
  <2>4. CASE i.op = "cmov"
    <3>1. (IF Holds(i.f, fl) THEN g[i.src] ELSE g[i.dst]) \in Values
      BY <2>1
    <3> QED BY <2>1, <2>4, <3>1 DEF NextRegs, NextFlags
  <2>5. CASE i.op = "cqo"
    <3>1. Sign(g[RAX]) \in Values
      BY <1>1 DEF ClosedAssumption
    <3> QED BY <1>1, <2>5, <3>1 DEF NextRegs, NextFlags
  <2>6. CASE i.op = "cmp"
    <3>1. CmpFlags(g[i.dst], g[i.src]) \in Flags
      BY <2>1 DEF ClosedAssumption, CmpFlags, Flags
    <3> QED BY <2>6, <3>1 DEF NextRegs, NextFlags
  <2>7. CASE i.op = "ucomis"
    <3>1. UcomisFlags(FRel(g[i.dst], g[i.src])) \in Flags
      BY DEF UcomisFlags, Flags
    <3> QED BY <2>7, <3>1 DEF NextRegs, NextFlags
  <2>8. CASE i.op = "idiv"
    <3>1. ~DivTraps(g[RDX], g[RAX], g[i.src])
      BY <2>8 DEF Traps
    <3>2. /\ Quot(g[RDX], g[RAX], g[i.src]) \in Values
          /\ Rem(g[RDX], g[RAX], g[i.src]) \in Values
      BY <1>1, <2>1, <3>1 DEF ClosedAssumption
    <3> QED BY <1>1, <2>8, <3>2 DEF NextRegs, NextFlags
  <2> QED BY <1>6, <2>2, <2>3, <2>4, <2>5, <2>6, <2>7, <2>8
<1> QED BY <1>2, <1>3, <1>4, <1>5, <1>6 DEF Sound

LEMMA ExecuteTyped ==
  ASSUME RegsAssumption, ByteAssumption, ArithmeticAssumption, ClosedAssumption,
         TypeInv, Execute
  PROVE  TypeInv'
<1>1. /\ code \in Seq(Sound) /\ Len(code) <= 5 /\ regs \in [Regs -> Values] /\ flags \in Flags
      /\ start \in [Regs -> Values]
  BY DEF TypeInv, TypeOK
<1>2. code # <<>> /\ code' = Tail(code) /\ start' = start
  BY ExecuteIs
<1>3. Head(code) \in Sound /\ code' \in Seq(Sound) /\ Len(code') <= 5
  BY <1>1, <1>2
<1>4. phase' \in {"run", "trap"} /\ regs' \in [Regs -> Values] /\ flags' \in Flags
  <2>1. CASE Traps(Head(code), regs)
    <3>1. phase' = "trap" /\ regs' = regs
      BY <2>1, ExecuteIs
    <3>2. flags' = flags
      <4>1. Head(code).op = "idiv" /\ Step(Head(code))
        BY <2>1 DEF Traps, Execute
      <4> QED BY <4>1 DEF Step
    <3> QED BY <1>1, <3>1, <3>2
  <2>2. CASE ~Traps(Head(code), regs)
    BY <1>1, <1>3, <2>2, ExecuteIs, RegsTyped
  <2> QED BY <2>1, <2>2
<1> QED BY <1>1, <1>2, <1>3, <1>4 DEF TypeInv, TypeOK

(***************************************************************************)
(* The theorems.                                                            *)
(***************************************************************************)

LEMMA Invariant == Spec => []Inv
<1>. USE RegsAssumption, ByteAssumption, ArithmeticAssumption
<1>1. Init => Inv
  BY DEF Init, Inv
<1>2. Inv /\ [Next]_vars => Inv'
  <2>. SUFFICES ASSUME Inv, [Next]_vars PROVE Inv'
    OBVIOUS
  <2>1. CASE UNCHANGED vars
    BY <2>1 DEF Inv, vars, Runs, Runs0, Runs1, Runs2, Runs3, Runs4, Runs5
  <2>. QED BY <2>1, GenerateKeeps, ExecuteKeeps, ReturnKeeps DEF Next
<1>. QED BY <1>1, <1>2, PTL DEF Spec

\* Whatever the arithmetic and whichever registers coincide, an operation leaves in dest
\* what it means, but for the clashes, and traps only where the division is undefined
\* (assembler_x64.rs 64-217, 259-776).
THEOREM ResultsAreRight == Spec => []ResultRight
<1>1. Inv => ResultRight
  BY DEF Inv, ResultRight, Right, TrapRight, Boolean
<1>. QED BY <1>1, Invariant, PTL

\* At every instruction of an operation, all registers but dest, the operand it computes
\* in and its fixed ones hold what they held before it.
THEOREM OthersAreKept == Spec => []KeepsOthers
<1>1. Inv => KeepsOthers
  BY DEF Inv, KeepsOthers, Keeps, Runs, Runs0, Runs1, Runs2, Runs3, Runs4, Runs5
<1>. QED BY <1>1, Invariant, PTL

\* Registers and flags hold contents and flags, and no operation emits more than five
\* instructions (assembler_x64.rs 64-217, 259-776).
THEOREM TypesAreKept == Spec => []TypeOK
<1> USE RegsAssumption, ByteAssumption, ArithmeticAssumption, ClosedAssumption
<1>1. Init => TypeInv
  BY DEF Init, TypeInv, TypeOK, Flags, RegsAssumption
<1>2. TypeInv /\ [Next]_vars => TypeInv'
  <2> SUFFICES ASSUME TypeInv, [Next]_vars PROVE TypeInv'
    OBVIOUS
  <2>1. CASE Return \/ UNCHANGED vars
    BY <2>1 DEF Return, vars, TypeInv, TypeOK
  <2> QED BY <2>1, GenerateTyped, ExecuteTyped DEF Next
<1>3. TypeInv => TypeOK
  BY DEF TypeInv
<1> QED BY <1>1, <1>2, <1>3, PTL DEF Spec
=============================================================================
