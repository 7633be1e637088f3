-------------------------- MODULE AssemblerProofs --------------------------
(***************************************************************************)
(* Theorems about the assembler and the bytecode file, for all lines, files*)
(* of any length and fields of any width.                                  *)
(***************************************************************************)
EXTENDS Assembler, KernelProofs, SequenceTheorems

-----------------------------------------------------------------------------
(* The fields: a value that fits is kept, and every value gives one that fits.*)
LEMMA Remainder ==
  ASSUME NEW a \in Int, NEW b \in Nat \ {0}
  PROVE  a % b \in 0 .. b - 1 /\ (a \in 0 .. b - 1 => a % b = a)
OBVIOUS

LEMMA RegFieldType ==
  ASSUME NEW r \in Nat
  PROVE  RegField(r) \in Reg
BY Remainder, RegistersAssumption DEF RegField, Reg

LEMMA ImmFieldType ==
  ASSUME NEW n \in Int
  PROVE  /\ ImmField(n) \in Int
         /\ n \in -HalfField .. HalfField - 1 => ImmField(n) = n
<1>1. HalfField \in Nat \ {0} /\ 2 * HalfField \in Nat \ {0} /\ n + HalfField \in Int
  BY WidthsAssumption
<1>2. (n + HalfField) % (2 * HalfField) \in 0 .. 2 * HalfField - 1
  BY <1>1, Remainder
<1>3. n + HalfField \in 0 .. 2 * HalfField - 1
        => (n + HalfField) % (2 * HalfField) = n + HalfField
  BY <1>1, Remainder
<1> QED
  BY <1>1, <1>2, <1>3 DEF ImmField

LEMMA WrappedBound ==
  ASSUME NEW n \in Nat
  PROVE  /\ Wrapped(n) \in Int /\ Wrapped(n) <= n
         /\ n < HalfCount => Wrapped(n) = n
<1>1. HalfCount \in Nat \ {0} /\ 2 * HalfCount \in Nat \ {0} /\ n + HalfCount \in Int
  BY WidthsAssumption
<1>2. (n + HalfCount) % (2 * HalfCount) \in 0 .. 2 * HalfCount - 1
  BY <1>1, Remainder
<1>3. n + HalfCount \in 0 .. 2 * HalfCount - 1
        => (n + HalfCount) % (2 * HalfCount) = n + HalfCount
  BY <1>1, Remainder
<1> QED
  BY <1>1, <1>2, <1>3 DEF Wrapped

-----------------------------------------------------------------------------
(* The inductive invariant.  Pass 1 has numbered the lines it has passed: as  *)
(* many instructions are collected as stand above the line it is at, and each *)
(* label has the number of those above its last definition.                   *)
Ordinary(line)   == line.op \notin {"LABEL", "BLANK"}
Above(n)         == Cardinality({k \in 1 .. n : Ordinary(lines[k])})
Defines(d, name) == lines[d].op = "LABEL" /\ lines[d].arg = name

LabelAt(name) ==
  \E d \in 1 .. at - 1 :
    /\ Defines(d, name) /\ labels[name] = Above(d)
    /\ \A e \in 1 .. at - 1 : Defines(e, name) => e <= d

LabelInv ==
  /\ stage = "read" => at = 1
  /\ stage \notin {"read", "labels"} => at = Len(lines) + 1
  /\ Len(parsed) = Above(at - 1)
  /\ \A k \in 1 .. Len(parsed) : Ordinary(parsed[k])
  /\ \A name \in DOMAIN labels : LabelAt(name)

(* Pass 2 has encoded each instruction from its line: a branch from the       *)
(* number of its label, and a LOADI with an index of its constant.            *)
EncodedAt(k) ==
  LET line == parsed[k]
  IN  /\ code[k].op = line.op
      /\ line.op \in JumpOps =>
           line.arg \in DOMAIN labels /\ code[k].imm = ImmField(labels[line.arg] - k)
      /\ line.op = "LOADI" =>
           /\ line.arg \in Double
           /\ Len(constants) <= HalfField =>
                /\ code[k].imm \in 0 .. Len(constants) - 1
                /\ line.arg # NaN => Loads(k) = line.arg

CodeInv ==
  /\ stage \in {"read", "labels"} => code = <<>> /\ constants = <<>>
  /\ Len(code) <= Len(parsed)
  /\ \A k \in 1 .. Len(code) : EncodedAt(k)

(* The file is written last, and only then loaded. *)
FileInv ==
  /\ IF stage = "done" THEN file = Written ELSE loaded = EmptyProgram
  /\ loaded = EmptyProgram \/ \E n \in 0 .. Len(file.words) : loaded = FromFile(n)

IInv == TypeOK /\ LabelInv /\ CodeInv /\ FileInv

LEMMA NothingAbove == Above(0) = 0
<1>1. {k \in 1 .. 0 : Ordinary(lines[k])} = {}
  OBVIOUS
<1> QED
  BY <1>1, FS_EmptySet DEF Above

LEMMA OneMoreAbove ==
  ASSUME NEW n \in Nat
  PROVE  /\ Above(n) \in Nat
         /\ Above(n + 1) = IF Ordinary(lines[n + 1]) THEN Above(n) + 1 ELSE Above(n)
<1> DEFINE S(m) == {k \in 1 .. m : Ordinary(lines[k])}
<1>1. IsFiniteSet(1 .. n)
  BY FS_Interval
<1>2. IsFiniteSet(S(n))
  BY <1>1, FS_Subset
<1>3. n + 1 \notin S(n)
  OBVIOUS
<1>4. S(n + 1) = IF Ordinary(lines[n + 1]) THEN S(n) \cup {n + 1} ELSE S(n)
  OBVIOUS
<1>5. Cardinality(S(n)) \in Nat /\ Cardinality(S(n) \cup {n + 1}) = Cardinality(S(n)) + 1
  BY <1>2, <1>3, FS_CardinalityType, FS_AddElement
<1> QED
  BY <1>4, <1>5 DEF Above

LEMMA InitInv == Init => IInv
<1> SUFFICES ASSUME Init PROVE IInv
  OBVIOUS
<1>1. /\ lines = <<>> /\ stage = "read" /\ at = 1 /\ parsed = <<>> /\ code = <<>>
      /\ constants = <<>> /\ loaded = EmptyProgram /\ DOMAIN labels = {}
  BY DEF Init
<1>2. TypeOK
  BY <1>1 DEF TypeOK, EmptyProgram
<1>3. LabelInv
  BY <1>1, NothingAbove DEF LabelInv
<1> QED
  BY <1>1, <1>2, <1>3 DEF IInv, CodeInv, FileInv

(* Reading, and the passage from one stage to the next. *)
LEMMA ReadInv ==
  ASSUME IInv, NEW line \in Lines, ReadLine(line)
  PROVE  IInv'
<1>1. /\ stage = "read" /\ at = 1 /\ lines' = Append(lines, line) /\ lines \in Seq(Lines)
      /\ UNCHANGED <<stage, at, labels, parsed, code, constants, file, loaded>>
  BY DEF ReadLine, IInv, LabelInv, TypeOK
<1>2. lines' \in Seq(Lines) /\ Len(lines') = Len(lines) + 1
  BY <1>1
<1>3. TypeOK'
  BY <1>1, <1>2 DEF IInv, TypeOK
<1>4. DOMAIN labels = {} /\ Len(parsed) = 0
  <2>1. at - 1 = 0 /\ LabelInv
    BY <1>1 DEF IInv
  <2>2. Len(parsed) = Above(0)
    BY <2>1 DEF LabelInv
  <2>3. \A name \in DOMAIN labels : FALSE
    BY <2>1 DEF LabelInv, LabelAt
  <2> QED
    BY <2>2, <2>3, NothingAbove
<1>5. Above(0)' = 0
  <2>1. {k \in 1 .. 0 : Ordinary(lines'[k])} = {}
    OBVIOUS
  <2> QED
    BY <2>1, FS_EmptySet DEF Above
<1>6. LabelInv'
  <2>1. at' = 1 /\ at' - 1 = 0
    BY <1>1
  <2> QED
    BY <1>1, <1>4, <1>5, <2>1 DEF LabelInv
<1>7. CodeInv' /\ FileInv'
  BY <1>1, <1>4 DEF IInv, CodeInv, FileInv
<1> QED
  BY <1>3, <1>6, <1>7 DEF IInv

LEMMA CollectInv == IInv /\ Collect => IInv'
<1> SUFFICES ASSUME IInv, Collect PROVE IInv'
  OBVIOUS
<1> DEFINE line == lines[at]
<1>1. /\ stage = "labels" /\ at <= Len(lines) /\ at' = at + 1
      /\ labels' = IF line.op = "LABEL"
                   THEN [name \in DOMAIN labels \cup {line.arg} |->
                           IF name = line.arg THEN Len(parsed) ELSE labels[name]]
                   ELSE labels
      /\ parsed' = IF line.op \in {"LABEL", "BLANK"} THEN parsed ELSE Append(parsed, line)
      /\ UNCHANGED <<lines, stage, code, constants, file, loaded>>
  BY DEF Collect
<1>2. /\ at \in 1 .. Len(lines) /\ lines \in Seq(Lines) /\ parsed \in Seq(Lines)
      /\ line \in Lines /\ at - 1 \in Nat
  BY <1>1 DEF IInv, TypeOK
<1>3. /\ Above(at - 1) = Len(parsed) /\ Above(at - 1) \in Nat
      /\ Above(at) = IF Ordinary(line) THEN Above(at - 1) + 1 ELSE Above(at - 1)
  <2>1. (at - 1) + 1 = at
    BY <1>2
  <2> QED
    BY <1>2, <2>1, OneMoreAbove DEF IInv, LabelInv
<1>4. line.op = "LABEL" => line.arg \in Labels
  BY <1>2, LinesAssumption DEF JumpOps, ControlOps, AluOps, MemoryOps, GraphOps, SystemOps
<1> HIDE DEF line
<1>5. Len(parsed') = Above(at) /\ \A k \in 1 .. Len(parsed') : Ordinary(parsed'[k])
  BY <1>1, <1>2, <1>3 DEF IInv, LabelInv, Ordinary
<1>6. parsed' \in Seq(Lines)
  BY <1>1, <1>2
<1>7. TypeOK'
  BY <1>1, <1>2, <1>3, <1>4, <1>6 DEF IInv, TypeOK
<1>8. \A n : Above(n)' = Above(n)
  BY <1>1 DEF Above
<1>9. \A d, name : Defines(d, name)' = Defines(d, name)
  BY <1>1 DEF Defines
<1>10. ASSUME NEW name \in DOMAIN labels' PROVE LabelAt(name)'
  <2> SUFFICES \E d \in 1 .. at : /\ Defines(d, name) /\ labels'[name] = Above(d)
                                  /\ \A e \in 1 .. at : Defines(e, name) => e <= d
    BY <1>1, <1>2, <1>8, <1>9 DEF LabelAt
  <2>1. CASE line.op = "LABEL" /\ name = line.arg
    <3>1. Defines(at, name)
      BY <2>1 DEF Defines, line
    <3>2. labels'[name] = Above(at)
      BY <1>1, <1>3, <2>1 DEF Ordinary
    <3> QED
      BY <1>2, <3>1, <3>2
  <2>2. CASE ~(line.op = "LABEL" /\ name = line.arg)
    <3>1. name \in DOMAIN labels /\ labels'[name] = labels[name] /\ ~Defines(at, name)
      BY <1>1, <2>2 DEF Defines, line
    <3>2. PICK d \in 1 .. at - 1 :
            /\ Defines(d, name) /\ labels[name] = Above(d)
            /\ \A e \in 1 .. at - 1 : Defines(e, name) => e <= d
      BY <3>1 DEF IInv, LabelInv, LabelAt
    <3>3. d \in 1 .. at /\ \A e \in 1 .. at : e # at => e \in 1 .. at - 1
      BY <1>2
    <3> QED
      BY <3>1, <3>2, <3>3
  <2> QED
    BY <2>1, <2>2
<1>11. LabelInv'
  <2>1. at' - 1 = at
    BY <1>1, <1>2
  <2> QED
    BY <1>1, <1>5, <1>8, <1>10, <2>1 DEF LabelInv
<1>12. CodeInv' /\ FileInv'
  <2>1. Len(parsed') \in Nat /\ code' = <<>> /\ constants' = <<>>
    BY <1>1, <1>6 DEF IInv, CodeInv
  <2> QED
    BY <1>1, <2>1 DEF IInv, CodeInv, FileInv
<1> QED
  BY <1>7, <1>11, <1>12 DEF IInv

(* The steps that only change the stage, from reading to labels to encoding.  *)
LEMMA StageInv ==
  ASSUME IInv, Assemble \/ BeginEncoding
  PROVE  IInv'
<1>1. /\ UNCHANGED <<lines, at, labels, parsed, code, constants, file, loaded>>
      /\ \/ stage = "read" /\ stage' = "labels"
         \/ stage = "labels" /\ stage' = "encode" /\ at > Len(lines)
  BY DEF Assemble, BeginEncoding
<1>2. TypeOK /\ LabelInv /\ CodeInv /\ FileInv
  BY DEF IInv
<1>3. TypeOK'
  BY <1>1, <1>2 DEF TypeOK
<1>4. \A n : Above(n)' = Above(n)
  BY <1>1 DEF Above
<1>5. \A name : LabelAt(name)' = LabelAt(name)
  BY <1>1, <1>4 DEF LabelAt, Defines
<1>6. stage' = "encode" => at = Len(lines) + 1
  BY <1>1, <1>2 DEF TypeOK
<1>7. LabelInv'
  BY <1>1, <1>2, <1>4, <1>5, <1>6 DEF LabelInv
<1>8. code = <<>> /\ constants = <<>>
  BY <1>1, <1>2 DEF CodeInv
<1>9. CodeInv'
  BY <1>1, <1>2, <1>8 DEF CodeInv, TypeOK
<1>10. FileInv'
  BY <1>1, <1>2 DEF FileInv, FromFile
<1> QED
  BY <1>3, <1>7, <1>9, <1>10 DEF IInv

(* The steps of pass 2 and the loads leave pass 1's work as it is. *)
LEMMA LabelsKept ==
  ASSUME LabelInv, UNCHANGED <<lines, at, labels, parsed>>,
         stage \notin {"read", "labels"}, stage' \notin {"read", "labels"}
  PROVE  LabelInv'
<1>1. \A n : Above(n)' = Above(n)
  BY DEF Above
<1>2. \A name : LabelAt(name)' = LabelAt(name)
  BY <1>1 DEF LabelAt, Defines
<1> QED
  BY <1>1, <1>2 DEF LabelInv

(* What is encoded of an instruction is one, with the immediate in its field. *)
LEMMA EncodedType ==
  ASSUME IInv, Encoding, ~Fault(Current), NEW n \in Int
  PROVE  /\ Current \in Lines /\ Current = parsed[Len(code) + 1]
         /\ Encoded(Current, n) \in Instruction
         /\ Encoded(Current, n).op = Current.op /\ Encoded(Current, n).imm = ImmField(n)
         /\ Current.op \in JumpOps => Current.arg \in DOMAIN labels
         /\ Current.op = "LOADI" => Current.arg \in Double
         /\ Current.op = "LOADV" => Current.arg \in Int
<1>1. Len(code) + 1 \in 1 .. Len(parsed) /\ parsed \in Seq(Lines) /\ code \in Seq(Instruction)
  BY DEF IInv, TypeOK, Encoding
<1>2. Current \in Lines /\ Ordinary(Current)
  BY <1>1 DEF Current, IInv, LabelInv
<1>3. Current.op # "MALFORMED" /\ Current.op # "BLANK" /\ Current.op # "LABEL"
      /\ (Current.op \in JumpOps => Current.arg \in DOMAIN labels)
  BY <1>2 DEF Fault, Ordinary
<1>4. /\ {Current.rd, Current.rs1, Current.rs2} \subseteq Nat
      /\ \/ Current.op \in JumpOps
         \/ Current.op = "LOADI" /\ Current.arg \in Double
         \/ Current.op = "LOADV" /\ Current.arg \in Int
         \/ Current.op \in (ControlOps \cup AluOps \cup MemoryOps \cup GraphOps \cup SystemOps)
                            \ (JumpOps \cup {"LOADI", "LOADV"})
  BY <1>2, <1>3, LinesAssumption
<1>5. Current.op \in ControlOps \cup AluOps \cup MemoryOps \cup GraphOps \cup SystemOps \cup UnknownOps
  BY <1>4 DEF JumpOps, ControlOps, AluOps, MemoryOps, GraphOps
<1>6. /\ RegField(Current.rd) \in Reg /\ RegField(Current.rs1) \in Reg
      /\ RegField(Current.rs2) \in Reg /\ ImmField(n) \in Int
  BY <1>4, RegFieldType, ImmFieldType
<1>7. Encoded(Current, n) \in Instruction
  BY <1>5, <1>6 DEF Encoded, Instruction
<1> QED
  BY <1>2, <1>3, <1>4, <1>7 DEF Encoded, Current, JumpOps

(* One instruction more is encoded, and one constant at most. *)
LEMMA AppendInv ==
  ASSUME IInv, Encoding, NEW inst \in Instruction, code' = Append(code, inst),
         UNCHANGED <<lines, stage, at, labels, parsed, file, loaded>>,
         constants' \in Seq(Double), Len(constants) <= Len(constants'),
         \A i \in 1 .. Len(constants) : constants'[i] = constants[i],
         LET line == Current
         IN  /\ inst.op = line.op
             /\ line.op \in JumpOps =>
                  line.arg \in DOMAIN labels /\ inst.imm = ImmField(labels[line.arg] - Len(code) - 1)
             /\ line.op = "LOADI" =>
                  /\ line.arg \in Double
                  /\ Len(constants') <= HalfField =>
                       /\ inst.imm \in 0 .. Len(constants') - 1
                       /\ line.arg # NaN => constants'[inst.imm + 1] = line.arg
  PROVE  IInv'
<1>1. /\ TypeOK /\ LabelInv /\ CodeInv /\ FileInv /\ stage = "encode" /\ Len(code) < Len(parsed)
      /\ code \in Seq(Instruction) /\ constants \in Seq(Double) /\ parsed \in Seq(Lines)
  BY DEF IInv, Encoding, TypeOK
<1>2. /\ code' \in Seq(Instruction) /\ Len(code') = Len(code) + 1 /\ code'[Len(code) + 1] = inst
      /\ \A k \in 1 .. Len(code) : code'[k] = code[k]
  BY <1>1
<1>3. TypeOK'
  BY <1>1, <1>2 DEF TypeOK
<1>4. LabelInv'
  BY <1>1, LabelsKept
<1>5. FileInv'
  BY <1>1 DEF FileInv, FromFile
<1>6. ASSUME NEW k \in 1 .. Len(code) PROVE EncodedAt(k)'
  <2>1. EncodedAt(k)
    BY <1>1 DEF CodeInv
  <2>2. Len(constants) \in Nat /\ Len(constants') \in Nat /\ HalfField \in Nat
    BY <1>1, WidthsAssumption
  <2> QED
    BY <1>2, <2>1, <2>2 DEF EncodedAt, Loads
<1>7. ASSUME NEW k \in Nat, k = Len(code) + 1 PROVE EncodedAt(k)'
  <2>1. \A name \in DOMAIN labels : labels[name] \in Nat
    BY <1>1 DEF TypeOK
  <2>2. \A name \in DOMAIN labels : labels[name] - Len(code) - 1 = labels[name] - k
    BY <1>1, <1>7, <2>1
  <2>3. parsed'[k] = Current /\ code'[k] = inst /\ labels' = labels
    BY <1>2, <1>7 DEF Current
  <2>4. Current.op \in JumpOps =>
          Current.arg \in DOMAIN labels /\ inst.imm = ImmField(labels[Current.arg] - k)
    BY <2>2
  <2> QED
    BY <2>3, <2>4 DEF EncodedAt, Loads
<1>8. CodeInv'
  <2>1. stage' = "encode" /\ Len(code') <= Len(parsed')
    BY <1>1, <1>2
  <2>2. \A k \in 1 .. Len(code') : k \in 1 .. Len(code) \/ (k \in Nat /\ k = Len(code) + 1)
    BY <1>1, <1>2
  <2>3. \A k \in 1 .. Len(code') : EncodedAt(k)'
    BY <1>6, <1>7, <2>2
  <2> QED
    BY <2>1, <2>3 DEF CodeInv
<1> QED
  BY <1>3, <1>4, <1>5, <1>8 DEF IInv

LEMMA EncodeJumpInv == IInv /\ EncodeJump => IInv'
<1> SUFFICES ASSUME IInv, EncodeJump PROVE IInv'
  OBVIOUS
<1> DEFINE n == labels[Current.arg] - Len(code) - 1
<1>1. /\ Encoding /\ ~Fault(Current) /\ Current.op \in JumpOps
      /\ code' = Append(code, Encoded(Current, n))
      /\ UNCHANGED <<lines, stage, at, labels, parsed, constants, file, loaded>>
  BY DEF EncodeJump
<1>2. Current.arg \in DOMAIN labels
  BY <1>1 DEF Fault
<1>3. n \in Int /\ constants \in Seq(Double)
  BY <1>2 DEF IInv, TypeOK
<1> HIDE DEF n
<1>4. /\ Encoded(Current, n) \in Instruction
      /\ Encoded(Current, n).op = Current.op /\ Encoded(Current, n).imm = ImmField(n)
      /\ Current.op # "LOADI"
  BY <1>1, <1>3, EncodedType DEF JumpOps
<1> QED
  BY <1>1, <1>2, <1>3, <1>4, AppendInv DEF n

(* The index of a number in a pool that holds it. *)
LEMMA PoolIndexFound ==
  ASSUME NEW pool \in Seq(Double), NEW x \in Double, pool # <<>>,
         x # NaN => \E k \in 1 .. Len(pool) : Same(pool[k], x)
  PROVE  /\ PoolIndex(pool, x) \in 0 .. Len(pool) - 1
         /\ x # NaN => pool[PoolIndex(pool, x) + 1] = x
<1>1. CASE x = NaN
  BY <1>1 DEF PoolIndex
<1>2. CASE x # NaN
  <2>1. PICK k \in 1 .. Len(pool) : Same(pool[k], x)
    BY <1>2
  <2>2. k - 1 \in 0 .. Len(pool) - 1 /\ Same(pool[(k - 1) + 1], x)
    BY <2>1
  <2>3. /\ PoolIndex(pool, x) \in 0 .. Len(pool) - 1
        /\ Same(pool[PoolIndex(pool, x) + 1], x)
    BY <1>2, <2>2 DEF PoolIndex
  <2> QED
    BY <2>3 DEF Same
<1> QED
  BY <1>1, <1>2

LEMMA EncodeLoadiInv == IInv /\ EncodeLoadi => IInv'
<1> SUFFICES ASSUME IInv, EncodeLoadi PROVE IInv'
  OBVIOUS
<1> DEFINE x == Current.arg
           n == PoolIndex(constants', x)
<1>1. /\ Encoding /\ ~Fault(Current) /\ Current.op = "LOADI"
      /\ constants' = IF Pooled(x) THEN constants ELSE Append(constants, x)
      /\ code' = Append(code, Encoded(Current, n))
      /\ UNCHANGED <<lines, stage, at, labels, parsed, file, loaded>>
  BY DEF EncodeLoadi
<1>2. x \in Double /\ constants \in Seq(Double)
  BY <1>1, 0 \in Int, EncodedType DEF IInv, TypeOK
<1>3. /\ constants' \in Seq(Double) /\ Len(constants) <= Len(constants')
      /\ \A k \in 1 .. Len(constants) : constants'[k] = constants[k]
  BY <1>1, <1>2
<1>4. constants' # <<>> /\ (x # NaN => \E k \in 1 .. Len(constants') : Same(constants'[k], x))
  <2>1. CASE Pooled(x)
    BY <1>1, <1>2, <2>1 DEF Pooled
  <2>2. CASE ~Pooled(x)
    <3>1. constants' = Append(constants, x)
      BY <1>1, <2>2
    <3>2. Len(constants) + 1 \in 1 .. Len(constants') /\ constants'[Len(constants) + 1] = x
      BY <1>2, <3>1
    <3> QED
      BY <3>2 DEF Same
  <2> QED
    BY <2>1, <2>2
<1>5. n \in 0 .. Len(constants') - 1 /\ (x # NaN => constants'[n + 1] = x)
  BY <1>2, <1>3, <1>4, PoolIndexFound
<1> HIDE DEF n
<1>6. Len(constants') <= HalfField => ImmField(n) = n
  BY <1>3, <1>5, ImmFieldType, WidthsAssumption
<1>7. /\ Encoded(Current, n) \in Instruction
      /\ Encoded(Current, n).op = Current.op /\ Encoded(Current, n).imm = ImmField(n)
  BY <1>1, <1>5, EncodedType
<1> QED
  BY <1>1, <1>2, <1>3, <1>5, <1>6, <1>7, AppendInv DEF JumpOps

LEMMA EncodeOtherInv == IInv /\ EncodeOther => IInv'
<1> SUFFICES ASSUME IInv, EncodeOther PROVE IInv'
  OBVIOUS
<1> DEFINE n == IF Current.op = "LOADV" THEN Current.arg ELSE 0
<1>1. /\ Encoding /\ ~Fault(Current) /\ Current.op \notin JumpOps \cup {"LOADI"}
      /\ code' = Append(code, Encoded(Current, n))
      /\ UNCHANGED <<lines, stage, at, labels, parsed, constants, file, loaded>>
  BY DEF EncodeOther
<1>2. n \in Int /\ constants \in Seq(Double)
  BY <1>1, 0 \in Int, EncodedType DEF IInv, TypeOK
<1> HIDE DEF n
<1>3. Encoded(Current, n) \in Instruction /\ Encoded(Current, n).op = Current.op
  BY <1>1, <1>2, EncodedType
<1> QED
  BY <1>1, <1>2, <1>3, AppendInv

LEMMA ThrowInv == IInv /\ Throw => IInv'
<1> SUFFICES ASSUME IInv, Throw PROVE IInv'
  OBVIOUS
<1>1. /\ stage = "encode" /\ stage' = "error"
      /\ UNCHANGED <<lines, at, labels, parsed, code, constants, file, loaded>>
  BY DEF Throw, Encoding
<1>2. LabelInv'
  BY <1>1, LabelsKept DEF IInv
<1>3. TypeOK' /\ CodeInv' /\ FileInv'
  BY <1>1 DEF IInv, TypeOK, CodeInv, EncodedAt, Loads, FileInv, FromFile
<1> QED
  BY <1>2, <1>3 DEF IInv

LEMMA FinishInv == IInv /\ Finish => IInv'
<1> SUFFICES ASSUME IInv, Finish PROVE IInv'
  OBVIOUS
<1>1. /\ stage = "encode" /\ stage' = "done" /\ file' = Written
      /\ UNCHANGED <<lines, at, labels, parsed, code, constants, loaded>>
  BY DEF Finish
<1>2. LabelInv'
  BY <1>1, LabelsKept DEF IInv
<1>3. TypeOK' /\ CodeInv'
  BY <1>1 DEF IInv, TypeOK, CodeInv, EncodedAt, Loads
<1>4. FileInv'
  BY <1>1 DEF IInv, FileInv, Written
<1> QED
  BY <1>2, <1>3, <1>4 DEF IInv

-----------------------------------------------------------------------------
(* What is read from a prefix of the file, n words of it, k of them constants.*)
LEMMA HalvesType ==
  ASSUME NEW pool \in Seq(Double)
  PROVE  /\ Len(Halves(pool)) = 2 * Len(pool)
         /\ \A w \in 1 .. 2 * Len(pool) :
              /\ Halves(pool)[w] = [constant |-> pool[(w + 1) \div 2]]
              /\ "constant" \in DOMAIN Halves(pool)[w]
         /\ \A k \in 1 .. Len(pool) : Halves(pool)[2 * k].constant = pool[k]
<1>1. Len(pool) \in Nat /\ 2 * Len(pool) \in Nat
  OBVIOUS
<1>2. Len(Halves(pool)) = 2 * Len(pool) /\ DOMAIN Halves(pool) = 1 .. 2 * Len(pool)
  BY <1>1 DEF Halves
<1>3. \A w \in 1 .. 2 * Len(pool) : Halves(pool)[w] = [constant |-> pool[(w + 1) \div 2]]
  BY DEF Halves
<1>4. \A k \in 1 .. Len(pool) : 2 * k \in 1 .. 2 * Len(pool) /\ (2 * k + 1) \div 2 = k
  BY <1>1
<1> QED
  BY <1>2, <1>3, <1>4

LEMMA WordsType ==
  ASSUME code \in Seq(Instruction), constants \in Seq(Double), file = Written
  PROVE  /\ Len(file.words) = 2 * Len(constants) + Len(code)
         /\ \A k \in 1 .. Len(constants) : file.words[2 * k].constant = constants[k]
         /\ \A w \in 1 .. Len(file.words) : Decoded(file.words[w]) \in Instruction
         /\ \A k \in 1 .. Len(code) : Decoded(file.words[2 * Len(constants) + k]) = code[k]
<1> DEFINE halves == Halves(constants)
           c      == Len(constants)
<1>1. c \in Nat /\ Len(code) \in Nat /\ file.words = halves \o code
  BY DEF Written
<1>2. /\ Len(halves) = 2 * c
      /\ \A w \in 1 .. 2 * c : "constant" \in DOMAIN halves[w]
      /\ \A k \in 1 .. c : halves[2 * k].constant = constants[k]
  BY HalvesType
<1>3. \A w \in 1 .. Len(code) : code[w] \in Instruction /\ "constant" \notin DOMAIN code[w]
  <2>1. \A w \in 1 .. Len(code) : code[w] \in Instruction
    BY <1>1
  <2>2. ASSUME NEW inst \in Instruction PROVE "constant" \notin DOMAIN inst
    <3>1. DOMAIN inst = {"op", "rd", "rs1", "rs2", "imm"}
      BY DEF Instruction
    <3> QED
      BY <3>1
  <2> QED
    BY <2>1, <2>2
<1> DEFINE T == {halves[w] : w \in 1 .. 2 * c} \cup Instruction
<1>4. halves \in Seq(T)
  <2>1. halves = [w \in 1 .. 2 * c |-> halves[w]]
    BY DEF Halves
  <2> HIDE DEF halves
  <2> QED
    BY <1>1, <2>1
<1>5. code \in Seq(T)
  BY <1>1
<1> HIDE DEF T, halves
<1>6. /\ Len(file.words) = 2 * c + Len(code)
      /\ \A w \in 1 .. 2 * c : file.words[w] = halves[w]
      /\ \A k \in 1 .. Len(code) : file.words[2 * c + k] = code[k]
  <2>1. /\ Len(halves \o code) = Len(halves) + Len(code)
        /\ \A w \in 1 .. Len(halves) + Len(code) :
             (halves \o code)[w] = IF w <= Len(halves) THEN halves[w] ELSE code[w - Len(halves)]
    BY <1>4, <1>5, ConcatProperties
  <2>2. \A w \in 1 .. 2 * c : w \in 1 .. 2 * c + Len(code) /\ w <= 2 * c
    BY <1>1
  <2>3. \A k \in 1 .. Len(code) :
          /\ 2 * c + k \in 1 .. 2 * c + Len(code) /\ ~(2 * c + k <= 2 * c)
          /\ (2 * c + k) - 2 * c = k
    BY <1>1
  <2> QED
    BY <1>1, <1>2, <2>1, <2>2, <2>3
<1>7. \A k \in 1 .. c : 2 * k \in 1 .. 2 * c
  BY <1>1
<1>8. \A w \in 1 .. Len(file.words) :
        w \in 1 .. 2 * c \/ (w - 2 * c \in 1 .. Len(code) /\ w = 2 * c + (w - 2 * c))
  BY <1>1, <1>6
<1>9. \A w \in 1 .. 2 * c : Decoded(file.words[w]) = Misread
  BY <1>2, <1>6 DEF Decoded
<1>10. \A k \in 1 .. Len(code) : Decoded(file.words[2 * c + k]) = code[k]
  BY <1>3, <1>6 DEF Decoded
<1>11. \A w \in 1 .. Len(file.words) : Decoded(file.words[w]) \in Instruction
  BY <1>3, <1>8, <1>9, <1>10, MisreadAssumption
<1> QED
  BY <1>2, <1>6, <1>7, <1>10, <1>11

LEMMA FrontIs ==
  ASSUME NEW S, NEW part \in Seq(S), NEW whole \in Seq(S), Len(part) <= Len(whole),
         \A k \in 1 .. Len(part) : part[k] = whole[k]
  PROVE  part = SubSeq(whole, 1, Len(part))
<1>1. Len(SubSeq(whole, 1, Len(part))) = Len(part)
      /\ \A k \in 1 .. Len(part) : SubSeq(whole, 1, Len(part))[k] = whole[k]
  OBVIOUS
<1>2. SubSeq(whole, 1, Len(part)) \in Seq(S)
  OBVIOUS
<1> QED
  BY <1>1, <1>2

LEMMA FromFileIs ==
  ASSUME code \in Seq(Instruction), constants \in Seq(Double), file = Written,
         NEW n \in 0 .. Len(file.words)
  PROVE  LET p == FromFile(n)
         IN  /\ p.code \in Seq(Instruction) /\ p.constants \in Seq(Double)
             /\ p = [code |-> p.code, constants |-> p.constants]
             /\ Len(p.constants) <= Len(constants)
             /\ \A k \in 1 .. Len(p.constants) : p.constants[k] = constants[k]
             /\ Fits =>
                  /\ Len(p.code) <= Len(code)
                  /\ \A k \in 1 .. Len(p.code) : p.code[k] = code[k]
                  /\ p.code # <<>> => p.constants = constants
                  /\ n = Len(file.words) => p = Program
<1> DEFINE c    == Len(constants)
           pool == IF file.count < 0 THEN 0 ELSE file.count
           read == IF 2 * pool <= n THEN pool ELSE n \div 2
           rest == IF read = pool THEN n - 2 * pool ELSE 0
           p    == FromFile(n)
<1>1. c \in Nat /\ Len(code) \in Nat /\ file.count = Wrapped(c)
  BY DEF Written
<1>2. pool \in 0 .. c /\ (Fits => pool = c)
  BY <1>1, WrappedBound DEF Fits
<1>3. Len(file.words) = 2 * c + Len(code) /\ n \in 0 .. 2 * c + Len(code)
  BY WordsType
<1> HIDE DEF pool
<1>4. read \in 0 .. pool /\ 2 * read <= n
  BY <1>1, <1>2, <1>3
<1>5. (rest \in Nat /\ 2 * pool + rest <= Len(file.words)) \/ rest = 0
  BY <1>1, <1>2, <1>3
<1>6. Fits => rest <= Len(code) /\ (rest # 0 => read = c) /\ (n = Len(file.words) => read = c /\ rest = Len(code))
  BY <1>1, <1>2, <1>3
<1> HIDE DEF read, rest
<1>7. p = [code      |-> [k \in 1 .. rest |-> Decoded(file.words[2 * pool + k])],
           constants |-> [k \in 1 .. read |-> file.words[2 * k].constant]]
  BY DEF FromFile, pool, read, rest
<1> HIDE DEF p
<1>8. /\ \A k \in 1 .. c : file.words[2 * k].constant = constants[k]
      /\ \A w \in 1 .. Len(file.words) : Decoded(file.words[w]) \in Instruction
      /\ \A k \in 1 .. Len(code) : Decoded(file.words[2 * c + k]) = code[k]
  BY WordsType
<1>9. /\ p.constants \in Seq(Double) /\ Len(p.constants) = read
      /\ \A k \in 1 .. read : p.constants[k] = constants[k]
  <2>1. read \in Nat /\ \A k \in 1 .. read : k \in 1 .. c
    BY <1>1, <1>2, <1>4
  <2>2. p.constants = [k \in 1 .. read |-> file.words[2 * k].constant]
    BY <1>7
  <2>3. \A k \in 1 .. read : p.constants[k] = constants[k] /\ constants[k] \in Double
    BY <1>8, <2>1, <2>2
  <2>4. p.constants \in [1 .. read -> Double]
    BY <2>2, <2>3
  <2>5. p.constants \in Seq(Double) /\ Len(p.constants) = read
    BY <2>1, <2>4
  <2> QED
    BY <2>3, <2>5
<1>10. rest \in Nat /\ \A k \in 1 .. rest : 2 * pool + k \in 1 .. Len(file.words)
  BY <1>1, <1>2, <1>3, <1>5
<1>11. /\ p.code \in Seq(Instruction) /\ Len(p.code) = rest
       /\ \A k \in 1 .. rest : p.code[k] = Decoded(file.words[2 * pool + k])
  BY <1>7, <1>8, <1>10
<1>12. ASSUME Fits
       PROVE  /\ rest <= Len(code) /\ \A k \in 1 .. rest : p.code[k] = code[k]
  <2>1. pool = c /\ rest <= Len(code) /\ \A k \in 1 .. rest : k \in 1 .. Len(code)
    BY <1>1, <1>2, <1>6, <1>10, <1>12
  <2> QED
    BY <1>8, <1>11, <2>1
<1>13. p = [code |-> p.code, constants |-> p.constants]
  BY <1>7
<1>14. read = c => p.constants = constants
  BY <1>9
<1>15. ASSUME Fits, n = Len(file.words) PROVE p = Program
  <2>1. p.constants = constants
    BY <1>6, <1>14, <1>15
  <2>2. p.code = code
    BY <1>6, <1>11, <1>12, <1>15
  <2> QED
    BY <1>13, <2>1, <2>2 DEF Program
<1>16. Fits /\ p.code # <<>> => p.constants = constants
  <2>1. rest = 0 => p.code = <<>>
    BY <1>11
  <2> QED
    BY <1>6, <1>14, <2>1
<1> QED
  BY <1>2, <1>4, <1>9, <1>11, <1>12, <1>13, <1>15, <1>16 DEF p

LEMMA LoadInv ==
  ASSUME IInv, (\E n \in 0 .. Len(file.words) : from_file(n)) \/ from_file_NoCount
  PROVE  IInv'
<1>1. /\ stage = "done" /\ UNCHANGED <<lines, stage, at, labels, parsed, code, constants, file>>
      /\ loaded' = EmptyProgram \/ \E n \in 0 .. Len(file.words) : loaded' = FromFile(n)
  BY DEF from_file, from_file_NoCount
<1>2. TypeOK /\ LabelInv /\ CodeInv /\ FileInv
  BY DEF IInv
<1>3. LabelInv'
  BY <1>1, <1>2, LabelsKept
<1>4. loaded' \in [code : Seq(Instruction), constants : Seq(Double)]
  <2>1. CASE loaded' = EmptyProgram
    BY <2>1 DEF EmptyProgram
  <2>2. ASSUME NEW n \in 0 .. Len(file.words), loaded' = FromFile(n)
        PROVE  loaded' \in [code : Seq(Instruction), constants : Seq(Double)]
    <3> DEFINE p == FromFile(n)
    <3>1. /\ p.code \in Seq(Instruction) /\ p.constants \in Seq(Double)
          /\ p = [code |-> p.code, constants |-> p.constants]
      BY <1>1, <1>2, FromFileIs DEF FileInv, TypeOK
    <3> HIDE DEF p
    <3>2. p \in [code : Seq(Instruction), constants : Seq(Double)]
      BY <3>1
    <3> QED
      BY <2>2, <3>2 DEF p
  <2> QED
    BY <1>1, <2>1, <2>2
<1>5. TypeOK'
  BY <1>1, <1>2, <1>4 DEF TypeOK
<1>6. CodeInv'
  BY <1>1, <1>2 DEF CodeInv, EncodedAt, Loads
<1>7. FileInv'
  BY <1>1, <1>2 DEF FileInv, Written, FromFile
<1> QED
  BY <1>3, <1>5, <1>6, <1>7 DEF IInv

(* The inductive invariant holds after every line of both passes and of every  *)
(* file written and read.                                                      *)
THEOREM Invariance == Spec => []IInv
<1>1. IInv /\ Next => IInv'
  BY ReadInv, StageInv, CollectInv, EncodeJumpInv, EncodeLoadiInv, EncodeOtherInv, ThrowInv,
     FinishInv, LoadInv DEF Next
<1>2. IInv /\ UNCHANGED vars => IInv'
  <2> SUFFICES ASSUME IInv, UNCHANGED vars PROVE IInv'
    OBVIOUS
  <2>1. \A n : Above(n)' = Above(n)
    BY DEF vars, Above
  <2>2. \A name : LabelAt(name)' = LabelAt(name)
    BY <2>1 DEF vars, LabelAt, Defines
  <2>3. LabelInv'
    BY <2>1, <2>2 DEF vars, IInv, LabelInv
  <2> QED
    BY <2>3 DEF vars, IInv, TypeOK, CodeInv, EncodedAt, Loads, FileInv, Written, FromFile
<1> QED
  BY <1>1, <1>2, InitInv, PTL DEF Spec

-----------------------------------------------------------------------------
(* The types of the assembler: every register and immediate encoded fits its  *)
(* field, and so does all that is read from a file cut off anywhere.          *)
THEOREM TypeCorrectness == Spec => []TypeOK
<1>1. IInv => TypeOK
  BY DEF IInv
<1> QED
  BY <1>1, Invariance, PTL

(* The constant a LOADI names is the number on its line, whatever was pooled  *)
(* before it and after it.                                                    *)
THEOREM ConstantsKept == Spec => []NumbersLoaded
<1>1. IInv => NumbersLoaded
  BY DEF IInv, CodeInv, EncodedAt, NumbersLoaded
<1> QED
  BY <1>1, Invariance, PTL

LEMMA AssembledProgram ==
  ASSUME IInv, Len(constants) <= HalfField
  PROVE  IsProgram(Program)
<1>1. code \in Seq(Instruction) /\ constants \in Seq(Double)
  BY DEF IInv, TypeOK
<1>2. \A k \in 1 .. Len(code) : code[k].op = "LOADI" => code[k].imm \in 0 .. Len(constants) - 1
  BY DEF IInv, CodeInv, EncodedAt
<1> QED
  BY <1>1, <1>2 DEF IsProgram, Program

(* What the runtime requires of a program holds of every assembled one.       *)
THEOREM AssembledRunnable == Spec => []ProgramRunnable
<1>1. IInv => ProgramRunnable
  BY AssembledProgram DEF ProgramRunnable
<1> QED
  BY <1>1, Invariance, PTL

LEMMA LoadedIs ==
  ASSUME IInv, stage = "done", Fits
  PROVE  /\ loaded.code \in Seq(Instruction) /\ loaded.constants \in Seq(Double)
         /\ Len(loaded.constants) <= Len(constants) /\ Len(loaded.code) <= Len(code)
         /\ \A k \in 1 .. Len(loaded.constants) : loaded.constants[k] = constants[k]
         /\ \A k \in 1 .. Len(loaded.code) : loaded.code[k] = code[k]
         /\ loaded.code # <<>> => loaded.constants = constants
<1>1. code \in Seq(Instruction) /\ constants \in Seq(Double) /\ file = Written
  BY DEF IInv, TypeOK, FileInv
<1>2. CASE loaded = EmptyProgram
  BY <1>1, <1>2 DEF EmptyProgram
<1>3. CASE \E n \in 0 .. Len(file.words) : loaded = FromFile(n)
  BY <1>1, <1>3, FromFileIs
<1> QED
  BY <1>2, <1>3 DEF IInv, FileInv

(* However the file is cut off, what is loaded of it is the front of what was *)
(* assembled, with instructions only if all the constants are there.          *)
THEOREM CutFiles == Spec => []LoadedFromFront
<1>1. IInv => LoadedFromFront
  <2> SUFFICES ASSUME IInv, stage = "done", Fits
               PROVE  /\ Len(loaded.constants) <= Len(constants)
                      /\ loaded.constants = SubSeq(constants, 1, Len(loaded.constants))
                      /\ Len(loaded.code) <= Len(code)
                      /\ loaded.code = SubSeq(code, 1, Len(loaded.code))
                      /\ loaded.code # <<>> => loaded.constants = constants
                      /\ FromFile(Len(file.words)) = Program
    BY DEF LoadedFromFront
  <2>1. code \in Seq(Instruction) /\ constants \in Seq(Double) /\ file = Written
    BY DEF IInv, TypeOK, FileInv
  <2>2. Len(file.words) \in 0 .. Len(file.words)
    BY <2>1, WordsType
  <2>3. FromFile(Len(file.words)) = Program
    BY <2>1, <2>2, FromFileIs
  <2>4. loaded.constants = SubSeq(constants, 1, Len(loaded.constants))
    BY <2>1, LoadedIs, FrontIs
  <2>5. loaded.code = SubSeq(code, 1, Len(loaded.code))
    BY <2>1, LoadedIs, FrontIs
  <2> QED
    BY <2>3, <2>4, <2>5, LoadedIs
<1> QED
  BY <1>1, Invariance, PTL

(* So what is loaded of a file cut off anywhere meets the runtime's           *)
(* requirements too.                                                          *)
THEOREM CutFilesRunnable == Spec => []CutFileRunnable
<1>1. IInv => CutFileRunnable
  <2> SUFFICES ASSUME IInv, stage = "done", Fits, Len(constants) <= HalfField
               PROVE  IsProgram(loaded)
    BY DEF CutFileRunnable
  <2>1. IsProgram(Program)
    BY AssembledProgram
  <2>2. CASE loaded.code = <<>>
    BY <2>2, LoadedIs DEF IsProgram
  <2>3. CASE loaded.code # <<>>
    BY <2>1, <2>3, LoadedIs DEF IsProgram, Program, IInv, TypeOK
  <2> QED
    BY <2>2, <2>3
<1> QED
  BY <1>1, Invariance, PTL

-----------------------------------------------------------------------------
(* The target of a name that pass 1 has collected is the number it got.       *)
LEMMA TargetIs ==
  ASSUME IInv, at = Len(lines) + 1, NEW name \in DOMAIN labels
  PROVE  Target(name) = labels[name]
<1>1. PICK d \in 1 .. Len(lines) :
        /\ Defines(d, name) /\ labels[name] = Above(d)
        /\ \A e \in 1 .. Len(lines) : Defines(e, name) => e <= d
  BY DEF IInv, LabelInv, LabelAt, TypeOK
<1> DEFINE defs == {k \in 1 .. Len(lines) : lines[k].op = "LABEL" /\ lines[k].arg = name}
           last == CHOOSE k \in defs : \A j \in defs : j <= k
<1>2. d \in defs /\ \A j \in defs : j <= d
  BY <1>1 DEF Defines
<1>3. last \in defs /\ \A j \in defs : j <= last
  BY <1>2
<1>4. last = d
  BY <1>2, <1>3
<1>5. Target(name) = Cardinality({k \in 1 .. last : lines[k].op \notin {"LABEL", "BLANK"}})
  BY DEF Target
<1> QED
  BY <1>1, <1>4, <1>5 DEF Above, Ordinary

(* A branch of an assembled program, executed, continues at the instruction   *)
(* its label stands before, wherever the label is but at the start.           *)
THEOREM BranchTargets == Spec => []BranchesLandPastStart
<1>1. IInv => BranchesLandPastStart
  <2> SUFFICES ASSUME IInv, stage = "done", NEW k \in 1 .. Len(code), IsBranch(k), Reachable(k),
                      Target(parsed[k].arg) # 0
               PROVE  Landing(k) = Target(parsed[k].arg)
    BY DEF BranchesLandPastStart
  <2> DEFINE name  == parsed[k].arg
             inst  == code[k]
             taken == [regs |-> [r \in Reg |-> IF inst.op = "JNZ" THEN 1 ELSE 0]]
  <2>1. /\ inst.op \in {"JMP", "JZ", "JNZ"} /\ inst.rs1 \in Reg
        /\ name \in DOMAIN labels /\ inst.imm = ImmField(labels[name] - k)
        /\ labels[name] \in Nat
    <3>1. inst \in Instruction /\ EncodedAt(k)
      BY DEF IInv, TypeOK, CodeInv
    <3>2. inst.op \in {"JMP", "JZ", "JNZ"} /\ inst.rs1 \in Reg
      BY <3>1 DEF IsBranch, Instruction
    <3>3. name \in DOMAIN labels /\ inst.imm = ImmField(labels[name] - k)
      BY <3>1, <3>2 DEF EncodedAt, JumpOps
    <3> QED
      BY <3>2, <3>3 DEF IInv, TypeOK
  <2>2. Target(name) = labels[name]
    BY <2>1, TargetIs DEF IInv, LabelInv
  <2>3. inst.imm = labels[name] - k
    <3>1. labels[name] - k \in Int
      BY <2>1
    <3>2. labels[name] - k \in -HalfField .. HalfField - 1
      BY <2>2 DEF Reachable
    <3> HIDE DEF inst, name, taken
    <3>3. ImmField(labels[name] - k) = labels[name] - k
      BY <3>1, <3>2, ImmFieldType
    <3> QED
      BY <2>1, <3>3
  <2>4. taken.regs[inst.rs1] = IF inst.op = "JNZ" THEN 1 ELSE 0
    BY <2>1
  <2> HIDE DEF inst, name, taken
  <2>5. exec_control(inst, taken, k - 1) = k - 1 + inst.imm
    <3>1. Same(0, 0) /\ ~Same(1, 0)
      BY DoublesAssumption DEF Same
    <3> QED
      BY <2>1, <2>4, <3>1 DEF exec_control
  <2>6. Landing(k) = Advance(labels[name] - 1)
    BY <2>1, <2>3, <2>5 DEF Landing, inst, taken
  <2>7. labels[name] \in Nat \ {0}
    BY <2>1, <2>2 DEF name
  <2> QED
    BY <2>2, <2>6, <2>7 DEF Advance, name
<1> QED
  BY <1>1, Invariance, PTL
=============================================================================
