-------------------------- MODULE CodeBufferProofs --------------------------
(***************************************************************************)
(* For every buffer, whatever its bounds: jumps land, patches and constants *)
(* do not touch one another, and loads miss their constants by no more than *)
(* the length of their instruction.                                         *)
(*                                                                          *)
(* Every field of a displacement ends at or before the end of the code, so  *)
(* the field of a new instruction is apart from all others, and what was    *)
(* written to them stays.  A jump is pending until fix_forward_jumps has     *)
(* passed it: its label is not bound yet, or bound after it.                *)
(***************************************************************************)
EXTENDS CodeBuffer, TLAPS

Field(l) == l.at + l.len - 4

Landed(j) == labels[j.to] # Unbound /\ j.at + 4 + rel[j.at] = labels[j.to]

CodeTypeOK ==
  /\ pos \in Positions
  /\ labels \in Seq(Positions \cup {Unbound}) /\ Len(labels) <= MaxLabels
  /\ jumps \in Seq(Sites)
  /\ rel \in [Positions -> Int]
  /\ sites \subseteq Sites
  /\ loads \subseteq [kind : {"float", "float4", "mask"}, at : Positions,
                      len : 7..9, disp : 1..MaxData]
  /\ fixed \in 0..Len(jumps)

SitesApart ==
  /\ \A j \in sites : j.to \in DOMAIN labels /\ j.at + 4 <= pos
  /\ \A i, j \in sites : i = j \/ i.at + 4 <= j.at \/ j.at + 4 <= i.at

LoadsApart ==
  /\ \A l \in loads : Field(l) + 4 <= pos
  /\ \A l, m \in loads : l = m \/ Field(l) + 4 <= Field(m) \/ Field(m) + 4 <= Field(l)
  /\ \A j \in sites, l \in loads : j.at + 4 <= Field(l) \/ Field(l) + 4 <= j.at

JumpsRecorded ==
  \A k \in DOMAIN jumps :
    /\ jumps[k] \in sites
    /\ labels[jumps[k].to] = Unbound \/ labels[jumps[k].to] >= jumps[k].at + 4

SitesLand ==
  \A j \in sites : Landed(j) \/ \E k \in (fixed + 1)..Len(jumps) : jumps[k] = j

CodeInv ==
  CodeTypeOK /\ SitesApart /\ LoadsApart /\ JumpsRecorded /\ SitesLand /\ LoadsReadTheirConstant

Entry == [disp : 1..MaxData, size : {4, 8, 16}]

DataInv ==
  /\ size \in 0..MaxData
  /\ entries \in Seq(Entry)
  /\ EntriesDisjoint

IInv == CodeInv /\ DataInv

code == <<pos, labels, jumps, rel, sites, loads, fixed>>

(***************************************************************************)
(* The code.                                                                *)
(***************************************************************************)

LEMMA FieldsInCode ==
  ASSUME BoundsAssumption, CodeInv
  PROVE  /\ pos \in Int
         /\ \A j \in sites : j.at \in Int /\ j.at \in Positions /\ j.at + 4 <= pos
         /\ \A l \in loads : Field(l) \in Int /\ Field(l) \in Positions /\ Field(l) + 4 <= pos
<1>1. pos \in Int /\ pos <= MaxPos /\ MaxPos \in Int
  BY BoundsAssumption DEF CodeInv, CodeTypeOK, Positions
<1>2. \A j \in sites : j.at \in Int /\ j.at \in Positions /\ j.at + 4 <= pos
  BY BoundsAssumption DEF CodeInv, CodeTypeOK, SitesApart, Sites, Positions
<1>3. ASSUME NEW l \in loads
      PROVE  Field(l) \in Int /\ Field(l) \in Positions /\ Field(l) + 4 <= pos
  <2>1. l.at \in 0..MaxPos /\ l.len \in 7..9
    BY DEF CodeInv, CodeTypeOK, Positions
  <2>2. Field(l) + 4 <= pos
    BY DEF CodeInv, LoadsApart
  <2>. QED BY <1>1, <2>1, <2>2 DEF Field, Positions
<1>. QED BY <1>1, <1>2, <1>3

LEMMA CodeStays == CodeInv /\ UNCHANGED code => CodeInv'
  BY DEF CodeInv, code, CodeTypeOK, SitesApart, LoadsApart, JumpsRecorded, SitesLand,
         LoadsReadTheirConstant, Field, Landed, Read

\* Code that has no displacement.
LEMMA EmitKeepsCode ==
  ASSUME BoundsAssumption, LensAssumption, CodeInv, NEW n \in InstrLens, Emit(n)
  PROVE  CodeInv'
<1>. n \in Nat
  BY LensAssumption
<1>1. CodeTypeOK'
  BY BoundsAssumption DEF CodeInv, CodeTypeOK, Emit, data, Positions, Sites
<1>2. SitesApart' /\ LoadsApart'
  <2>1. pos <= pos' /\ pos \in Int /\ pos' \in Int /\ UNCHANGED <<labels, sites, loads>>
    BY FieldsInCode DEF Emit, data
  <2>2. \A j \in sites : j.at + 4 <= pos'
    BY <2>1, FieldsInCode
  <2>3. \A l \in loads : Field(l) + 4 <= pos'
    BY <2>1, FieldsInCode
  <2>. QED BY <2>1, <2>2, <2>3 DEF CodeInv, SitesApart, LoadsApart, Field
<1>3. JumpsRecorded' /\ SitesLand' /\ LoadsReadTheirConstant'
  BY DEF CodeInv, JumpsRecorded, SitesLand, Landed, LoadsReadTheirConstant, Read, Emit, data
<1>. QED BY <1>1, <1>2, <1>3 DEF CodeInv

LEMMA CreateLabelKeepsCode ==
  ASSUME BoundsAssumption, CodeInv, CreateLabel
  PROVE  CodeInv'
<1>1. /\ labels' \in Seq(Positions \cup {Unbound}) /\ Len(labels') <= MaxLabels
      /\ DOMAIN labels \subseteq DOMAIN labels'
      /\ \A i \in DOMAIN labels : labels'[i] = labels[i]
  BY BoundsAssumption DEF CodeInv, CodeTypeOK, CreateLabel
<1>2. UNCHANGED <<pos, jumps, rel, sites, loads, fixed>>
  BY DEF CreateLabel, data
<1>3. \A j \in sites : j.to \in DOMAIN labels /\ labels'[j.to] = labels[j.to]
  BY <1>1 DEF CodeInv, SitesApart
<1>4. CodeTypeOK'
  BY <1>1, <1>2 DEF CodeInv, CodeTypeOK
<1>5. SitesApart' /\ LoadsApart'
  BY <1>1, <1>2, <1>3 DEF CodeInv, SitesApart, LoadsApart, Field
<1>6. JumpsRecorded' /\ SitesLand' /\ LoadsReadTheirConstant'
  BY <1>2, <1>3 DEF CodeInv, JumpsRecorded, SitesLand, Landed, LoadsReadTheirConstant, Read
<1>. QED BY <1>4, <1>5, <1>6 DEF CodeInv

\* A label that is bound was not: the jumps to it are recorded, and lie before it.
LEMMA BindLabelKeepsCode ==
  ASSUME BoundsAssumption, CodeInv, NEW lbl \in DOMAIN labels, BindLabel(lbl)
  PROVE  CodeInv'
<1>1. UNCHANGED <<pos, jumps, rel, sites, loads, fixed>>
  BY DEF BindLabel, data
<1>2. /\ labels' \in Seq(Positions \cup {Unbound}) /\ Len(labels') <= MaxLabels
      /\ DOMAIN labels' = DOMAIN labels
      /\ labels'[lbl] = pos
      /\ \A i \in DOMAIN labels : i # lbl => labels'[i] = labels[i]
  BY DEF CodeInv, CodeTypeOK, BindLabel
<1>3. CodeTypeOK'
  BY <1>1, <1>2 DEF CodeInv, CodeTypeOK
<1>4. SitesApart' /\ LoadsApart'
  BY <1>1, <1>2 DEF CodeInv, SitesApart, LoadsApart, Field
<1>5. JumpsRecorded'
  <2>. SUFFICES ASSUME NEW k \in DOMAIN jumps
                PROVE  \/ labels'[jumps[k].to] = Unbound
                       \/ labels'[jumps[k].to] >= jumps[k].at + 4
    BY <1>1 DEF CodeInv, JumpsRecorded
  <2>1. jumps[k] \in sites /\ jumps[k].to \in DOMAIN labels /\ jumps[k].at + 4 <= pos
    BY DEF CodeInv, JumpsRecorded, SitesApart
  <2>2. CASE jumps[k].to = lbl
    <3>1. jumps[k].at \in Int /\ pos \in Int
      BY <2>1 DEF CodeInv, CodeTypeOK, Sites, Positions
    <3>. QED BY <2>1, <2>2, <1>2, <3>1
  <2>3. CASE jumps[k].to # lbl
    BY <2>1, <2>3, <1>2 DEF CodeInv, JumpsRecorded
  <2>. QED BY <2>2, <2>3
<1>6. SitesLand'
  <2>. SUFFICES ASSUME NEW j \in sites, Landed(j)
                PROVE  labels'[j.to] # Unbound /\ j.at + 4 + rel[j.at] = labels'[j.to]
    BY <1>1 DEF CodeInv, SitesLand, Landed
  <2>. QED BY <1>2 DEF Landed, BindLabel, CodeInv, SitesApart
<1>7. LoadsReadTheirConstant'
  BY <1>1 DEF CodeInv, LoadsReadTheirConstant, Read
<1>. QED BY <1>3, <1>4, <1>5, <1>6, <1>7 DEF CodeInv

\* A jump emitted lands on its label or is recorded.
LEMMA JumpKeepsCode ==
  ASSUME BoundsAssumption, CodeInv, NEW opcode \in {1, 2}, NEW lbl \in DOMAIN labels,
         Jump(opcode, lbl)
  PROVE  CodeInv'
<1>. DEFINE at == pos + opcode
            new == [at |-> at, to |-> lbl]
<1>1. /\ at \in Positions /\ at + 4 <= MaxPos /\ at >= pos /\ pos' = at + 4
      /\ pos' \in Positions /\ pos \in Int
  BY BoundsAssumption DEF Jump, CodeInv, CodeTypeOK, Positions
<1>2. lbl \in 1..MaxLabels /\ labels[lbl] \in Positions \cup {Unbound}
  BY BoundsAssumption DEF CodeInv, CodeTypeOK
<1>3. new \in Sites /\ sites' = sites \cup {new} /\ UNCHANGED <<labels, loads, fixed>>
  BY <1>1, <1>2 DEF Jump, data, Sites
<1>4. PICK d \in Int :
        /\ rel' = [rel EXCEPT ![at] = d]
        /\ \/ /\ labels[lbl] # Unbound /\ at + 4 + d = labels[lbl] /\ jumps' = jumps
           \/ /\ labels[lbl] = Unbound /\ jumps' = Append(jumps, new)
  <2>1. CASE labels[lbl] # Unbound
    <3>1. labels[lbl] \in Int /\ at \in Int
      BY <1>1, <1>2, <2>1 DEF Positions
    <3>2. -((at + 4) - labels[lbl]) \in Int /\ at + 4 + (-((at + 4) - labels[lbl])) = labels[lbl]
      BY <3>1
    <3>. QED BY <2>1, <3>2 DEF Jump
  <2>2. CASE labels[lbl] = Unbound
    BY <2>2 DEF Jump
  <2>. QED BY <2>1, <2>2
<1>5. jumps \in Seq(Sites) /\ jumps' \in Seq(Sites) /\ Len(jumps) <= Len(jumps')
      /\ \A k \in DOMAIN jumps : k \in DOMAIN jumps' /\ jumps'[k] = jumps[k]
  <2>1. jumps \in Seq(Sites)
    BY DEF CodeInv, CodeTypeOK
  <2>2. CASE jumps' = jumps
    BY <2>1, <2>2
  <2>3. CASE jumps' = Append(jumps, new)
    <3>. HIDE DEF new
    <3>. QED BY <2>1, <2>3, <1>3
  <2>. QED BY <2>2, <2>3, <1>4
<1>6. CodeTypeOK'
  BY <1>1, <1>3, <1>4, <1>5 DEF CodeInv, CodeTypeOK
<1>7. \A j \in sites : j.at \in Int /\ j.at + 4 <= pos /\ j.at # at
  BY <1>1, FieldsInCode
<1>8. \A l \in loads : Field(l) \in Int /\ Field(l) + 4 <= pos /\ Field(l) # at /\ Field(l) \in Positions
  BY <1>1, FieldsInCode
<1>9. SitesApart'
  BY <1>1, <1>3, <1>7 DEF CodeInv, SitesApart
<1>10. LoadsApart'
  <2>1. \A l \in loads : Field(l) + 4 <= pos'
    BY <1>1, <1>8
  <2>2. \A l \in loads : Field(l) + 4 <= at
    BY <1>1, <1>8
  <2>. QED BY <2>1, <2>2, <1>3 DEF CodeInv, LoadsApart, Field
<1>11. JumpsRecorded'
  <2>. SUFFICES ASSUME NEW k \in DOMAIN jumps'
                PROVE  /\ jumps'[k] \in sites'
                       /\ \/ labels[jumps'[k].to] = Unbound
                          \/ labels[jumps'[k].to] >= jumps'[k].at + 4
    BY <1>3 DEF JumpsRecorded
  <2>1. CASE k \in DOMAIN jumps
    BY <2>1, <1>3, <1>5 DEF CodeInv, JumpsRecorded
  <2>2. CASE k \notin DOMAIN jumps
    <3>1. jumps' = Append(jumps, new) /\ labels[lbl] = Unbound
      BY <2>2, <1>4
    <3>2. jumps'[k] = new
      BY <2>2, <3>1, <1>5
    <3>. QED BY <3>1, <3>2, <1>3
  <2>. QED BY <2>1, <2>2
<1>12. SitesLand'
  <2>. SUFFICES ASSUME NEW j \in sites'
                PROVE  \/ labels[j.to] # Unbound /\ j.at + 4 + rel'[j.at] = labels[j.to]
                       \/ \E k \in (fixed + 1)..Len(jumps') : jumps'[k] = j
    BY <1>3 DEF SitesLand, Landed
  <2>1. CASE j \in sites
    <3>1. rel'[j.at] = rel[j.at]
      BY <2>1, <1>4, <1>7 DEF CodeInv, CodeTypeOK, Sites
    <3>2. CASE Landed(j)
      BY <3>1, <3>2 DEF Landed
    <3>3. CASE \E k \in (fixed + 1)..Len(jumps) : jumps[k] = j
      <4>1. PICK k \in (fixed + 1)..Len(jumps) : jumps[k] = j
        BY <3>3
      <4>2. k \in DOMAIN jumps /\ k \in (fixed + 1)..Len(jumps')
        BY <4>1, <1>5 DEF CodeInv, CodeTypeOK
      <4>. QED BY <4>1, <4>2, <1>5
    <3>. QED BY <2>1, <3>2, <3>3 DEF CodeInv, SitesLand
  <2>2. CASE j = new
    <3>1. CASE labels[lbl] # Unbound
      <4>1. rel'[at] = d /\ at + 4 + d = labels[lbl]
        BY <3>1, <1>1, <1>4 DEF CodeInv, CodeTypeOK
      <4>. QED BY <2>2, <3>1, <4>1
    <3>2. CASE labels[lbl] = Unbound
      <4>1. Len(jumps') = Len(jumps) + 1 /\ jumps'[Len(jumps) + 1] = new
        BY <3>2, <1>4, <1>5
      <4>2. Len(jumps) + 1 \in (fixed + 1)..Len(jumps')
        BY <4>1, <1>5 DEF CodeInv, CodeTypeOK
      <4>. QED BY <2>2, <4>1, <4>2
    <3>. QED BY <3>1, <3>2
  <2>. QED BY <2>1, <2>2, <1>3
<1>13. LoadsReadTheirConstant'
  <2>1. \A l \in loads : rel'[Field(l)] = rel[Field(l)]
    BY <1>4, <1>8 DEF CodeInv, CodeTypeOK
  <2>. QED BY <2>1, <1>3 DEF CodeInv, LoadsReadTheirConstant, Read, Field
<1>. QED BY <1>6, <1>9, <1>10, <1>11, <1>12, <1>13 DEF CodeInv

\* A displacement that is filled in is that of one jump only, and of no load.
LEMMA FixKeepsCode ==
  ASSUME BoundsAssumption, CodeInv, FixForwardJumps
  PROVE  CodeInv'
<1>1. UNCHANGED <<pos, labels, jumps, sites, loads>> /\ fixed' = Len(jumps)
  BY DEF FixForwardJumps, data
<1>2. \A k \in DOMAIN jumps :
        /\ jumps[k] \in sites /\ jumps[k].at \in Positions /\ jumps[k].at \in Int
        /\ labels[jumps[k].to] \in Int /\ labels[jumps[k].to] # Unbound
  <2>. SUFFICES ASSUME NEW k \in DOMAIN jumps
                PROVE  /\ jumps[k] \in sites /\ jumps[k].at \in Positions /\ jumps[k].at \in Int
                       /\ labels[jumps[k].to] \in Int /\ labels[jumps[k].to] # Unbound
    OBVIOUS
  <2>1. jumps[k] \in sites /\ jumps[k].to \in DOMAIN labels
    BY DEF CodeInv, JumpsRecorded, SitesApart
  <2>2. labels[jumps[k].to] \in Int
    BY <2>1, BoundsAssumption DEF CodeInv, CodeTypeOK, Positions, Unbound
  <2>. QED BY <2>1, <2>2, FieldsInCode DEF FixForwardJumps
<1>3. \A k, m \in DOMAIN jumps : jumps[k].at = jumps[m].at => jumps[k] = jumps[m]
  BY <1>2 DEF CodeInv, SitesApart
<1>4. \A k \in DOMAIN jumps : rel'[jumps[k].at] = Distance(jumps[k])
  <2>. SUFFICES ASSUME NEW k \in DOMAIN jumps
                PROVE  rel'[jumps[k].at] = Distance(jumps[k])
    OBVIOUS
  <2>. DEFINE p == jumps[k].at
              m == CHOOSE m \in DOMAIN jumps : jumps[m].at = p
  <2>1. m \in DOMAIN jumps /\ jumps[m].at = p
    OBVIOUS
  <2>2. jumps[m] = jumps[k]
    BY <2>1, <1>3
  <2>3. rel'[p] = Distance(jumps[m])
    BY <1>2 DEF FixForwardJumps
  <2>. QED BY <2>2, <2>3
<1>5. \A p \in Positions : (\A k \in DOMAIN jumps : jumps[k].at # p) => rel'[p] = rel[p]
  BY DEF FixForwardJumps
<1>6. \A p \in Positions : rel'[p] \in Int
  <2>. SUFFICES ASSUME NEW p \in Positions PROVE rel'[p] \in Int
    OBVIOUS
  <2>1. CASE \A k \in DOMAIN jumps : jumps[k].at # p
    BY <2>1, <1>5 DEF CodeInv, CodeTypeOK
  <2>2. CASE \E k \in DOMAIN jumps : jumps[k].at = p
    BY <2>2, <1>2, <1>4 DEF Distance
  <2>. QED BY <2>1, <2>2
<1>7. CodeTypeOK'
  <2>1. rel' \in [Positions -> Int]
    BY <1>6 DEF FixForwardJumps
  <2>2. Len(jumps) \in 0..Len(jumps)
    BY DEF CodeInv, CodeTypeOK
  <2>. QED BY <1>1, <2>1, <2>2 DEF CodeInv, CodeTypeOK
<1>8. SitesApart' /\ LoadsApart' /\ JumpsRecorded'
  BY <1>1 DEF CodeInv, SitesApart, LoadsApart, JumpsRecorded, Field
<1>9. SitesLand'
  <2>. SUFFICES ASSUME NEW j \in sites
                PROVE  labels[j.to] # Unbound /\ j.at + 4 + rel'[j.at] = labels[j.to]
    BY <1>1 DEF SitesLand, Landed
  <2>1. CASE \E k \in DOMAIN jumps : jumps[k] = j
    BY <2>1, <1>2, <1>4 DEF Distance
  <2>2. CASE ~\E k \in DOMAIN jumps : jumps[k] = j
    <3>1. \A k \in DOMAIN jumps : jumps[k].at # j.at
      BY <2>2, <1>2, FieldsInCode DEF CodeInv, SitesApart
    <3>2. rel'[j.at] = rel[j.at]
      BY <3>1, <1>5, FieldsInCode
    <3>3. Landed(j)
      <4>1. (fixed + 1)..Len(jumps) \subseteq DOMAIN jumps
        BY DEF CodeInv, CodeTypeOK
      <4>. QED BY <4>1, <2>2 DEF CodeInv, SitesLand
    <3>. QED BY <3>2, <3>3 DEF Landed
  <2>. QED BY <2>1, <2>2
<1>10. LoadsReadTheirConstant'
  <2>1. ASSUME NEW l \in loads PROVE rel'[Field(l)] = rel[Field(l)]
    <3>1. \A k \in DOMAIN jumps : jumps[k].at # Field(l)
      BY <1>2, FieldsInCode DEF CodeInv, LoadsApart
    <3>. QED BY <3>1, <1>5, FieldsInCode
  <2>. QED BY <2>1, <1>1 DEF CodeInv, LoadsReadTheirConstant, Read, Field
<1>. QED BY <1>7, <1>8, <1>9, <1>10 DEF CodeInv

\* A load's field is new, and its displacement leads to its constant from wherever it
\* counts the end of the instruction.
LEMMA LoadKeepsCode ==
  ASSUME BoundsAssumption, CodeInv,
         NEW kind \in {"float", "float4", "mask"}, NEW len \in 7..9, NEW disp \in 1..MaxData,
         NEW d, d = -(disp + pos + (IF kind = "mask" THEN len ELSE AssumedLen)),
         Load(kind, len, disp, d)
  PROVE  CodeInv'
<1>. DEFINE at == pos + len - 4
            new == [kind |-> kind, at |-> pos, len |-> len, disp |-> disp]
<1>1. /\ pos \in Int /\ pos \in Positions /\ disp \in Int /\ d \in Int /\ pos' = pos + len
      /\ at \in Positions /\ pos' \in Positions /\ at > pos /\ at + 4 = pos'
  BY BoundsAssumption DEF Load, CodeInv, CodeTypeOK, Positions, AssumedLen
<1>2. /\ new \in [kind : {"float", "float4", "mask"}, at : Positions, len : 7..9, disp : 1..MaxData]
      /\ loads' = loads \cup {new} /\ rel' = [rel EXCEPT ![at] = d]
      /\ UNCHANGED <<labels, jumps, sites, fixed>>
  BY <1>1 DEF Load
<1>3. \A j \in sites : j.at # at /\ j.at + 4 <= at /\ rel'[j.at] = rel[j.at]
  <2>1. \A j \in sites : j.at # at /\ j.at + 4 <= at
    BY <1>1, FieldsInCode
  <2>. QED BY <2>1, <1>2, FieldsInCode DEF CodeInv, CodeTypeOK
<1>4. \A l \in loads : Field(l) # at /\ Field(l) + 4 <= at /\ rel'[Field(l)] = rel[Field(l)]
  <2>1. \A l \in loads : Field(l) # at /\ Field(l) + 4 <= at
    BY <1>1, FieldsInCode
  <2>. QED BY <2>1, <1>2, FieldsInCode DEF CodeInv, CodeTypeOK
<1>5. Field(new) = at /\ rel'[at] = d
  BY <1>1, <1>2 DEF Field, CodeInv, CodeTypeOK
<1>6. CodeTypeOK'
  BY <1>1, <1>2 DEF CodeInv, CodeTypeOK
<1>7. SitesApart'
  <2>1. \A j \in sites : j.at + 4 <= pos'
    BY <1>1, FieldsInCode
  <2>. QED BY <2>1, <1>2 DEF CodeInv, SitesApart
<1>8. LoadsApart'
  <2>. HIDE DEF new, at
  <2>1. \A l \in loads' : Field(l) + 4 <= pos'
    BY <1>1, <1>2, <1>5, FieldsInCode
  <2>2. \A l, m \in loads' : l = m \/ Field(l) + 4 <= Field(m) \/ Field(m) + 4 <= Field(l)
    BY <1>2, <1>4, <1>5 DEF CodeInv, LoadsApart
  <2>3. \A j \in sites', l \in loads' : j.at + 4 <= Field(l) \/ Field(l) + 4 <= j.at
    BY <1>2, <1>3, <1>5 DEF CodeInv, LoadsApart
  <2>. QED BY <2>1, <2>2, <2>3 DEF LoadsApart, Field
<1>9. JumpsRecorded' /\ SitesLand'
  BY <1>2, <1>3 DEF CodeInv, JumpsRecorded, SitesLand, Landed
<1>10. LoadsReadTheirConstant'
  <2>1. \A l \in loads : l.at + l.len + rel'[l.at + l.len - 4] = l.at + l.len + rel[l.at + l.len - 4]
    BY <1>4 DEF Field
  <2>2. -(new.at + new.len + rel'[new.at + new.len - 4]) =
          IF new.kind = "mask" THEN new.disp ELSE new.disp + AssumedLen - new.len
    BY <1>1, <1>5 DEF Field, AssumedLen
  <2>. HIDE DEF new, at
  <2>. QED BY <2>1, <2>2, <1>2 DEF CodeInv, LoadsReadTheirConstant, Read
<1>. QED BY <1>6, <1>7, <1>8, <1>9, <1>10 DEF CodeInv

(***************************************************************************)
(* The data segment.                                                        *)
(***************************************************************************)

LEMMA AlignGrows ==
  ASSUME NEW v \in Nat, NEW a \in {4, 8, 16}
  PROVE  Align(v, a) \in Nat /\ v <= Align(v, a)
<1>1. CASE a = 4
  BY <1>1 DEF Align
<1>2. CASE a = 8
  BY <1>2 DEF Align
<1>3. CASE a = 16
  BY <1>3 DEF Align
<1>. QED BY <1>1, <1>2, <1>3

LEMMA DataStays == DataInv /\ UNCHANGED <<size, entries>> => DataInv'
  BY DEF DataInv, EntriesDisjoint

\* The values es are apart and end at sz.
Apart(es, sz) ==
  /\ es \in Seq(Entry) /\ sz \in 0..MaxData
  /\ \A k \in DOMAIN es : es[k].size <= es[k].disp /\ es[k].disp <= sz
  /\ \A j, k \in DOMAIN es : j < k => es[j].disp + es[k].size <= es[k].disp

\* A value placed beyond the segment as it was.
LEMMA OneMore ==
  ASSUME BoundsAssumption, NEW es, NEW sz, Apart(es, sz),
         NEW d \in 1..MaxData, NEW s \in {4, 8, 16}, sz + s <= d
  PROVE  Apart(Append(es, [disp |-> d, size |-> s]), d)
<1>. DEFINE new == [disp |-> d, size |-> s]
            after == Append(es, new)
<1>1. new \in Entry /\ new.disp = d /\ new.size = s
  BY DEF Entry
<1>2. /\ sz \in Nat /\ d \in Nat /\ s \in Nat /\ d \in 0..MaxData /\ es \in Seq(Entry)
      /\ s <= d /\ sz <= d
  BY BoundsAssumption DEF Apart
<1>3. /\ after \in Seq(Entry)
      /\ DOMAIN after = DOMAIN es \cup {Len(es) + 1}
      /\ \A k \in DOMAIN es : k \in 1..Len(es) /\ after[k] = es[k]
      /\ after[Len(es) + 1] = new /\ Len(es) \in Nat
  <2>. HIDE DEF new
  <2>. QED BY <1>1, <1>2
<1>. HIDE DEF new, after
<1>4. \A k \in DOMAIN es : /\ es[k].size \in Nat /\ es[k].disp \in Nat
                           /\ es[k].size <= es[k].disp /\ es[k].disp <= sz
  <2>1. \A k \in DOMAIN es : es[k] \in Entry
    BY <1>2
  <2>2. \A e \in Entry : e.size \in Nat /\ e.disp \in Nat
    BY BoundsAssumption DEF Entry
  <2>. QED BY <2>1, <2>2 DEF Apart
<1>5. \A k \in DOMAIN after : after[k].size <= after[k].disp /\ after[k].disp <= d
  BY <1>1, <1>2, <1>3, <1>4
<1>6. ASSUME NEW j \in DOMAIN after, NEW k \in DOMAIN after, j < k
      PROVE  after[j].disp + after[k].size <= after[k].disp
  <2>1. j \in DOMAIN es
    BY <1>3, <1>6
  <2>2. CASE k \in DOMAIN es
    BY <1>3, <1>6, <2>1, <2>2 DEF Apart
  <2>3. CASE k = Len(es) + 1
    BY <1>1, <1>2, <1>3, <1>4, <2>1, <2>3
  <2>. QED BY <1>3, <2>2, <2>3
<1>7. Apart(after, d)
  BY <1>2, <1>3, <1>5, <1>6 DEF Apart
<1>. QED BY <1>7 DEF after, new

LEMMA ValueKeepsData ==
  ASSUME BoundsAssumption, DataInv, NEW s \in {4, 8, 16}, AddValue(s)
  PROVE  DataInv' /\ size' \in 1..MaxData
<1>1. /\ size \in Nat /\ size + s \in Nat /\ s \in Nat \ {0} /\ MaxData \in Nat
  BY BoundsAssumption DEF DataInv
<1>2. Align(size + s, s) \in Nat /\ size + s <= Align(size + s, s)
  BY <1>1, AlignGrows
<1>3. size' = Align(size + s, s) /\ size' <= MaxData
  BY DEF AddValue, SizeWith
<1>4. size' \in 1..MaxData /\ size + s <= size'
  BY <1>1, <1>2, <1>3
<1>5. Apart(entries, size)
  BY DEF DataInv, EntriesDisjoint, Apart
<1>6. Apart(Append(entries, [disp |-> size', size |-> s]), size')
  BY <1>4, <1>5, OneMore
<1>7. Apart(entries', size')
  BY <1>6 DEF AddValue
<1>. QED BY <1>4, <1>7 DEF DataInv, EntriesDisjoint, Apart

\* The four words of a mask, one after the other from where it is aligned.
LEMMA MaskKeepsData ==
  ASSUME BoundsAssumption, DataInv, NEW prefix \in {0, 1}, NEW rex \in {0, 1},
         FloatNeg(prefix, rex)
  PROVE  DataInv' /\ size' \in 1..MaxData
<1>. DEFINE b == MaskBase
            w1 == [disp |-> b + 4, size |-> 4]
            w2 == [disp |-> b + 8, size |-> 4]
            w3 == [disp |-> b + 12, size |-> 4]
            w4 == [disp |-> b + 16, size |-> 4]
            e1 == Append(entries, w1)
            e2 == Append(e1, w2)
            e3 == Append(e2, w3)
            e4 == Append(e3, w4)
<1>1. b \in Nat /\ size <= b /\ b + 16 <= MaxData /\ size' = b + 16 /\ MaxData \in Nat /\ size \in Nat
  <2>1. size \in Nat
    BY BoundsAssumption DEF DataInv
  <2>2. b \in Nat /\ size <= b
    BY <2>1, AlignGrows DEF MaskBase
  <2>. QED BY <2>1, <2>2, BoundsAssumption DEF FloatNeg
<1>2. entries' = entries \o <<w1, w2, w3, w4>>
  BY DEF FloatNeg
<1>3. entries \in Seq(Entry) /\ w1 \in Entry /\ w2 \in Entry /\ w3 \in Entry /\ w4 \in Entry
  BY <1>1 DEF DataInv, Entry
<1>4. entries' = e4
  <2>. HIDE DEF w1, w2, w3, w4
  <2>. QED BY <1>2, <1>3
<1>5. Apart(entries, size)
  BY DEF DataInv, EntriesDisjoint, Apart
<1>. HIDE DEF b
<1>0. /\ b + 4 \in 1..MaxData /\ b + 8 \in 1..MaxData /\ b + 12 \in 1..MaxData /\ b + 16 \in 1..MaxData
      /\ size + 4 <= b + 4 /\ (b + 4) + 4 <= b + 8 /\ (b + 8) + 4 <= b + 12 /\ (b + 12) + 4 <= b + 16
      /\ 4 \in {4, 8, 16}
  BY <1>1
<1>6. Apart(e1, b + 4)
  BY <1>0, <1>5, OneMore, Zenon
<1>7. Apart(e2, b + 8)
  <2>. HIDE DEF e1
  <2>. QED BY <1>0, <1>6, OneMore, Zenon
<1>8. Apart(e3, b + 12)
  <2>. HIDE DEF e2
  <2>. QED BY <1>0, <1>7, OneMore, Zenon
<1>9. Apart(e4, b + 16)
  <2>. HIDE DEF e3
  <2>. QED BY <1>0, <1>8, OneMore, Zenon
<1>. QED
  <2>. HIDE DEF e4
  <2>. QED BY <1>1, <1>4, <1>9 DEF DataInv, EntriesDisjoint, Apart

(***************************************************************************)
(* The whole buffer.                                                        *)
(***************************************************************************)

LEMMA InitInv ==
  ASSUME BoundsAssumption, Init
  PROVE  IInv
<1>1. CodeInv
  BY BoundsAssumption DEF Init, CodeInv, CodeTypeOK, SitesApart, LoadsApart, JumpsRecorded,
     SitesLand, LoadsReadTheirConstant, Positions, Sites, Read, Field
<1>2. DataInv
  BY BoundsAssumption DEF Init, DataInv, EntriesDisjoint
<1>. QED BY <1>1, <1>2 DEF IInv

LEMMA StepInv ==
  ASSUME BoundsAssumption, LensAssumption, IInv, [Next]_vars
  PROVE  IInv'
<1>. USE DEF IInv
<1>1. ASSUME NEW n \in InstrLens, Emit(n) PROVE IInv'
  <2>1. UNCHANGED <<size, entries>>
    BY <1>1 DEF Emit, data
  <2>. QED BY <1>1, <2>1, EmitKeepsCode, DataStays
<1>2. CASE CreateLabel
  <2>1. UNCHANGED <<size, entries>>
    BY <1>2 DEF CreateLabel, data
  <2>. QED BY <1>2, <2>1, CreateLabelKeepsCode, DataStays
<1>3. ASSUME NEW lbl \in DOMAIN labels, BindLabel(lbl) PROVE IInv'
  <2>1. UNCHANGED <<size, entries>>
    BY <1>3 DEF BindLabel, data
  <2>. QED BY <1>3, <2>1, BindLabelKeepsCode, DataStays
<1>4. ASSUME NEW lbl \in DOMAIN labels, NEW opcode \in {1, 2}, Jump(opcode, lbl) PROVE IInv'
  <2>1. UNCHANGED <<size, entries>>
    BY <1>4 DEF Jump, data
  <2>. QED BY <1>4, <2>1, JumpKeepsCode, DataStays
<1>5. CASE FixForwardJumps
  <2>1. UNCHANGED <<size, entries>>
    BY <1>5 DEF FixForwardJumps, data
  <2>. QED BY <1>5, <2>1, FixKeepsCode, DataStays
<1>6. ASSUME NEW s \in {4, 8}, AddConstant(s) PROVE IInv'
  <2>1. UNCHANGED code
    BY <1>6 DEF AddConstant, code
  <2>2. AddValue(s)
    BY <1>6 DEF AddConstant
  <2>. QED BY <2>1, <2>2, CodeStays, ValueKeepsData
<1>7. ASSUME NEW s \in {4, 8}, NEW rex \in {0, 1}, LoadFloatConst(s, rex) PROVE IInv'
  <2>1. DataInv' /\ size' \in 1..MaxData
    BY <1>7, ValueKeepsData DEF LoadFloatConst
  <2>2. 8 + rex \in 7..9 /\ Load("float", 8 + rex, size', -(size' + pos + AssumedLen))
    BY <1>7 DEF LoadFloatConst
  <2>. QED BY <2>1, <2>2, LoadKeepsCode
<1>8. ASSUME NEW rex \in {0, 1}, LoadFloat4Const(rex) PROVE IInv'
  <2>1. DataInv' /\ size' \in 1..MaxData
    BY <1>8, ValueKeepsData DEF LoadFloat4Const
  <2>2. 7 + rex \in 7..9 /\ Load("float4", 7 + rex, size', -(size' + pos + AssumedLen))
    BY <1>8 DEF LoadFloat4Const
  <2>. QED BY <2>1, <2>2, LoadKeepsCode
<1>9. ASSUME NEW prefix \in {0, 1}, NEW rex \in {0, 1}, FloatNeg(prefix, rex) PROVE IInv'
  <2>1. DataInv' /\ size' \in 1..MaxData
    BY <1>9, MaskKeepsData
  <2>2. /\ 7 + prefix + rex \in 7..9
        /\ Load("mask", 7 + prefix + rex, size', -(size' + pos + (7 + prefix + rex)))
    BY <1>9 DEF FloatNeg
  <2>. QED BY <2>1, <2>2, LoadKeepsCode
<1>10. CASE UNCHANGED vars
  <2>1. UNCHANGED code /\ UNCHANGED <<size, entries>>
    BY <1>10 DEF vars, code
  <2>. QED BY <2>1, CodeStays, DataStays
<1>. QED
  BY <1>1, <1>2, <1>3, <1>4, <1>5, <1>6, <1>7, <1>8, <1>9, <1>10 DEF Next

LEMMA BufferInvariant == Spec => []IInv
<1>1. Init => IInv
  BY BoundsAssumption, InitInv
<1>2. IInv /\ [Next]_vars => IInv'
  BY BoundsAssumption, LensAssumption, StepInv
<1>. QED BY <1>1, <1>2, PTL DEF Spec

\* Every variable of the buffer keeps its type, whatever the bounds are.
THEOREM BufferTypeOK == Spec => []TypeOK
<1>1. IInv => TypeOK
  BY DEF IInv, CodeInv, CodeTypeOK, DataInv, Entry, TypeOK
<1>. QED BY <1>1, BufferInvariant, PTL

\* Every jump lands on its label, however jumps, labels, fix-ups and constants are
\* interleaved, and no subtraction of fix_forward_jumps (assembler.rs 107) underflows.
THEOREM AllJumpsLand == Spec => []JumpsLand
<1>1. ASSUME IInv PROVE JumpsLand
  <2>1. ASSUME NEW j \in sites
        PROVE  \/ j.at + 4 + rel[j.at] = labels[j.to]
               \/ \E k \in (fixed + 1)..Len(jumps) : jumps[k] = j
    BY <1>1 DEF IInv, CodeInv, SitesLand, Landed
  <2>2. ASSUME NEW k \in DOMAIN jumps, labels[jumps[k].to] # Unbound
        PROVE  Distance(jumps[k]) >= 0
    <3>1. jumps[k] \in sites /\ labels[jumps[k].to] >= jumps[k].at + 4
      BY <1>1, <2>2 DEF IInv, CodeInv, JumpsRecorded
    <3>2. jumps[k].at \in Int /\ jumps[k].to \in DOMAIN labels
      BY <1>1, <3>1, FieldsInCode, BoundsAssumption DEF IInv, CodeInv, SitesApart
    <3>3. labels[jumps[k].to] \in Int
      BY <1>1, <3>2, BoundsAssumption DEF IInv, CodeInv, CodeTypeOK, Positions, Unbound
    <3>. QED BY <3>1, <3>2, <3>3 DEF Distance
  <2>. QED BY <2>1, <2>2 DEF JumpsLand
<1>. QED BY <1>1, BufferInvariant, PTL

\* The displacements of jumps and loads lie inside the code and apart from one another.
LEMMA FieldsApart ==
  ASSUME IInv
  PROVE  FieldsDisjoint
<1>. DEFINE fields == {j.at : j \in sites} \cup {l.at + l.len - 4 : l \in loads}
<1>1. \A p \in fields : p \in Int /\ p + 4 <= pos
  BY FieldsInCode, BoundsAssumption DEF IInv, Field
<1>2. \A p, q \in fields : p # q => p + 4 <= q \/ q + 4 <= p
  BY DEF IInv, CodeInv, SitesApart, LoadsApart, Field
<1>3. \A j \in sites, l \in loads : j.at # l.at + l.len - 4
  <2>. SUFFICES ASSUME NEW j \in sites, NEW l \in loads PROVE j.at # Field(l)
    BY DEF Field
  <2>1. j.at \in Int /\ Field(l) \in Int
    BY FieldsInCode, BoundsAssumption DEF IInv
  <2>. QED BY <2>1 DEF IInv, CodeInv, LoadsApart
<1>. QED BY <1>1, <1>2, <1>3 DEF FieldsDisjoint

\* No patch touches a field but its own, and finish writes every constant inside the
\* data segment and none over another.
THEOREM NothingEverOverlaps == Spec => []NothingOverlaps
<1>1. IInv => NothingOverlaps
  BY FieldsApart DEF IInv, DataInv, NothingOverlaps
<1>. QED BY <1>1, BufferInvariant, PTL

\* Every load misses its constant by exactly the difference between its length and the
\* eight bytes assumed, and that of a sign mask by nothing.
THEOREM LoadsMissByLength == Spec => []LoadsReadTheirConstant
<1>1. IInv => LoadsReadTheirConstant
  BY DEF IInv, CodeInv
<1>. QED BY <1>1, BufferInvariant, PTL
=============================================================================
