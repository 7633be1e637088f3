------------------------------ MODULE Assembler -----------------------------
(***************************************************************************)
(* The assembler (assembler.h) as cmd_assemble of gcvm.cpp drives it: the  *)
(* lines of a file are read, the first pass numbers the instructions and   *)
(* collects the labels, the second encodes one instruction at a time into  *)
(* the 32-bit format of program.h.  The program is written to a bytecode   *)
(* file, which Program::from_file loads, whole or cut off anywhere.        *)
(***************************************************************************)
EXTENDS Kernel

CONSTANTS
  Labels,     \* the names of labels
  Lines,      \* the lines a file may hold
  MaxLines,   \* a bound on the length of a file
  HalfField,  \* an immediate is in -HalfField .. HalfField - 1: 2^13 in the code
  HalfCount,  \* the count of constants of a file likewise: 2^15 in the code
  Misread     \* what half a constant is as an instruction

ASSUME WidthsAssumption  == HalfField \in Nat \ {0} /\ HalfCount \in Nat \ {0}
ASSUME MisreadAssumption == Misread \in Instruction

(* A line, tokenized: a label definition, a blank or comment, a line encode   *)
(* throws on (an unknown mnemonic, a wrong number of operands, a register or  *)
(* number that does not parse), or an instruction and its operands.           *)
JumpOps == {"JMP", "JZ", "JNZ", "ITER_NEIGHBORS", "END_ITER"}

ASSUME LinesAssumption ==
  \A line \in Lines :
    \/ line.op \in {"BLANK", "MALFORMED"}
    \/ line.op = "LABEL" /\ line.arg \in Labels
    \/ /\ {line.rd, line.rs1, line.rs2} \subseteq Nat
       /\ \/ line.op \in JumpOps /\ line.arg \in Labels
          \/ line.op = "LOADI" /\ line.arg \in Double
          \/ line.op = "LOADV" /\ line.arg \in Int
          \/ line.op \in (ControlOps \cup AluOps \cup MemoryOps \cup GraphOps \cup SystemOps)
                           \ (JumpOps \cup {"LOADI", "LOADV"})

VARIABLES
  lines,       \* the lines of the file
  stage,       \* "read", "labels" (pass 1), "encode" (pass 2), "done", "error"
  at,          \* the line pass 1 is at
  labels,      \* the pc of each label collected
  parsed,      \* the instructions collected
  code,        \* program.code
  constants,   \* program.constants
  file,        \* the bytecode file, once it is written
  loaded       \* a Program that loads files

vars == <<lines, stage, at, labels, parsed, code, constants, file, loaded>>

Init ==
  /\ lines = <<>> /\ stage = "read" /\ at = 1
  /\ labels = [name \in {} |-> 0] /\ parsed = <<>>
  /\ code = <<>> /\ constants = <<>>
  /\ file = [count |-> 0, words |-> <<>>] /\ loaded = EmptyProgram

ReadLine(line) ==
  /\ stage = "read" /\ Len(lines) < MaxLines
  /\ lines' = Append(lines, line)
  /\ UNCHANGED <<stage, at, labels, parsed, code, constants, file, loaded>>

Assemble ==
  /\ stage = "read"
  /\ stage' = "labels"
  /\ UNCHANGED <<lines, at, labels, parsed, code, constants, file, loaded>>

-----------------------------------------------------------------------------
(* Pass 1: collect labels.  A label defined again moves. *)
Collect ==
  /\ stage = "labels" /\ at <= Len(lines)
  /\ at' = at + 1
  /\ LET line == lines[at]
     IN  /\ labels' = IF line.op = "LABEL"
                      THEN [name \in DOMAIN labels \cup {line.arg} |->
                              IF name = line.arg THEN Len(parsed) ELSE labels[name]]
                      ELSE labels
         /\ parsed' = IF line.op \in {"LABEL", "BLANK"} THEN parsed ELSE Append(parsed, line)
  /\ UNCHANGED <<lines, stage, code, constants, file, loaded>>

BeginEncoding ==
  /\ stage = "labels" /\ at > Len(lines)
  /\ stage' = "encode"
  /\ UNCHANGED <<lines, at, labels, parsed, code, constants, file, loaded>>

-----------------------------------------------------------------------------
(* Faulty variants: the whole register number is kept; a new constant is      *)
(* taken to be at the index past the end of the pool, or at its last index    *)
(* when it was found; a branch is relative to its own instruction.            *)
RegField_Unmasked(r) == r
PoolIndex_PastEnd(pool, value) == IF value = NaN THEN 0 ELSE Len(pool)
PoolIndex_Last(pool, value) == IF value = NaN THEN 0 ELSE Len(pool) - 1

(* The fields of an instruction word: a register keeps its low bits, and an   *)
(* immediate is read back with the sign of its highest bit (set_imm, imm).    *)
RegField(r) == r % R_COUNT

ImmField(n) == ((n + HalfField) % (2 * HalfField)) - HalfField

(* The index of a constant in the pool; a constant found there is shared.  A  *)
(* NaN is equal to no key of constant_map: it is never found, and the last    *)
(* look-up of it inserts an entry of its own, 0.                              *)
Pooled(value) == \E i \in 1 .. Len(constants) : Same(constants[i], value)
PoolIndex(pool, value) ==
  IF value = NaN THEN 0 ELSE CHOOSE i \in 0 .. Len(pool) - 1 : Same(pool[i + 1], value)

Encoded(line, imm) ==
  [op |-> line.op, rd |-> RegField(line.rd), rs1 |-> RegField(line.rs1),
   rs2 |-> RegField(line.rs2), imm |-> ImmField(imm)]

Fault(line) ==
  \/ line.op = "MALFORMED"
  \/ line.op \in JumpOps /\ line.arg \notin DOMAIN labels   \* unknown label

Encoding == stage = "encode" /\ Len(code) < Len(parsed)
Current  == parsed[Len(code) + 1]

EncodeJump_FromBranch ==
  /\ Encoding /\ ~Fault(Current) /\ Current.op \in JumpOps
  /\ code' = Append(code, Encoded(Current, labels[Current.arg] - Len(code)))
  /\ UNCHANGED <<lines, stage, at, labels, parsed, constants, file, loaded>>

EncodeJump ==
  /\ Encoding /\ ~Fault(Current) /\ Current.op \in JumpOps
  /\ code' = Append(code, Encoded(Current, labels[Current.arg] - Len(code) - 1))
  /\ UNCHANGED <<lines, stage, at, labels, parsed, constants, file, loaded>>

EncodeLoadi ==
  /\ Encoding /\ ~Fault(Current) /\ Current.op = "LOADI"
  /\ constants' = IF Pooled(Current.arg) THEN constants ELSE Append(constants, Current.arg)
  /\ code' = Append(code, Encoded(Current, PoolIndex(constants', Current.arg)))
  /\ UNCHANGED <<lines, stage, at, labels, parsed, file, loaded>>

EncodeOther ==
  /\ Encoding /\ ~Fault(Current) /\ Current.op \notin JumpOps \cup {"LOADI"}
  /\ code' = Append(code, Encoded(Current, IF Current.op = "LOADV" THEN Current.arg ELSE 0))
  /\ UNCHANGED <<lines, stage, at, labels, parsed, constants, file, loaded>>

Throw ==
  /\ Encoding /\ Fault(Current)
  /\ stage' = "error"
  /\ UNCHANGED <<lines, at, labels, parsed, code, constants, file, loaded>>

-----------------------------------------------------------------------------
(* The file: the number of constants as a signed integer, the constants, of   *)
(* two words each, and the instructions.                                      *)
Wrapped(n) == ((n + HalfCount) % (2 * HalfCount)) - HalfCount

Halves(pool) == [i \in 1 .. 2 * Len(pool) |-> [constant |-> pool[(i + 1) \div 2]]]

Written == [count |-> Wrapped(Len(constants)), words |-> Halves(constants) \o code]

(* The program is written only when every instruction has been encoded. *)
Finish ==
  /\ stage = "encode" /\ Len(code) = Len(parsed)
  /\ stage' = "done"
  /\ file' = Written
  /\ UNCHANGED <<lines, at, labels, parsed, code, constants, loaded>>

(* What from_file makes of the first n words of the file: as many constants as*)
(* the count says, or as there are, and what follows them as instructions.    *)
Decoded(word) == IF "constant" \in DOMAIN word THEN Misread ELSE word

FromFile(n) ==
  LET pool == IF file.count < 0 THEN 0 ELSE file.count
      read == IF 2 * pool <= n THEN pool ELSE n \div 2
  IN  [code      |-> [i \in 1 .. (IF read = pool THEN n - 2 * pool ELSE 0) |->
                        Decoded(file.words[2 * pool + i])],
       constants |-> [i \in 1 .. read |-> file.words[2 * i].constant]]

(* Faulty variants: the constants, or the instructions, of the program loaded *)
(* before are not cleared.                                                    *)
from_file_KeepingConstants(n) ==
  /\ stage = "done"
  /\ loaded' = [FromFile(n) EXCEPT !.constants = loaded.constants \o @]
  /\ UNCHANGED <<lines, stage, at, labels, parsed, code, constants, file>>

from_file_KeepingCode(n) ==
  /\ stage = "done"
  /\ loaded' = [FromFile(n) EXCEPT !.code = loaded.code \o @]
  /\ UNCHANGED <<lines, stage, at, labels, parsed, code, constants, file>>

(* Loading the file cut off after n words; one that ends within the count is  *)
(* read as an empty program.                                                  *)
from_file(n) ==
  /\ stage = "done"
  /\ loaded' = FromFile(n)
  /\ UNCHANGED <<lines, stage, at, labels, parsed, code, constants, file>>

from_file_NoCount ==
  /\ stage = "done"
  /\ loaded' = EmptyProgram
  /\ UNCHANGED <<lines, stage, at, labels, parsed, code, constants, file>>

Next ==
  \/ \E line \in Lines : ReadLine(line)
  \/ Assemble \/ Collect \/ BeginEncoding
  \/ EncodeJump \/ EncodeLoadi \/ EncodeOther \/ Throw \/ Finish
  \/ (\E n \in 0 .. Len(file.words) : from_file(n)) \/ from_file_NoCount

Spec == Init /\ [][Next]_vars

-----------------------------------------------------------------------------
Program == [code |-> code, constants |-> constants]

TypeOK ==
  /\ lines \in Seq(Lines) /\ parsed \in Seq(Lines)
  /\ stage \in {"read", "labels", "encode", "done", "error"}
  /\ at \in 1 .. Len(lines) + 1
  /\ DOMAIN labels \subseteq Labels /\ \A name \in DOMAIN labels : labels[name] \in Nat
  /\ code \in Seq(Instruction) /\ constants \in Seq(Double)
  /\ loaded \in [code : Seq(Instruction), constants : Seq(Double)]

(* Where the k-th instruction goes when its condition makes it jump. *)
Landing(k) ==
  LET taken == [regs |-> [r \in Reg |-> IF code[k].op = "JNZ" THEN 1 ELSE 0]]
  IN  Advance(exec_control(code[k], taken, k - 1))

(* The number of instructions above the last definition of a label. *)
Target(name) ==
  LET defs == {k \in 1 .. Len(lines) : lines[k].op = "LABEL" /\ lines[k].arg = name}
      last == CHOOSE k \in defs : \A j \in defs : j <= k
  IN  Cardinality({k \in 1 .. last : lines[k].op \notin {"LABEL", "BLANK"}})

IsBranch(k) == code[k].op \in {"JMP", "JZ", "JNZ"}
Reachable(k) == Target(parsed[k].arg) - k \in -HalfField .. HalfField - 1

(* isa.md line 73: "Unconditional jump by IMM".  A branch of an assembled      *)
(* program, executed, continues at the instruction its label stands before.    *)
BranchesLand ==
  stage = "done" =>
    \A k \in 1 .. Len(code) : IsBranch(k) /\ Reachable(k) => Landing(k) = Target(parsed[k].arg)

(* The same, but for a branch to the first instruction of the program: forward *)
(* and backward branches, to the end of the program too, within the reach of   *)
(* the immediate.                                                              *)
BranchesLandPastStart ==
  stage = "done" =>
    \A k \in 1 .. Len(code) :
      IsBranch(k) /\ Reachable(k) /\ Target(parsed[k].arg) # 0
        => Landing(k) = Target(parsed[k].arg)

(* Every LOADI of a number encoded so far names the constant of its line in    *)
(* the pool, as long as the pool is within the reach of the immediate; later   *)
(* entries do not move it.  (LOADI of a NaN names the first constant.)         *)
Loads(k) == constants[code[k].imm + 1]
NumbersLoaded ==
  \A k \in 1 .. Len(code) :
    code[k].op = "LOADI" /\ parsed[k].arg # NaN /\ Len(constants) <= HalfField
      => Loads(k) = parsed[k].arg

(* What the runtime requires of a program holds of an assembled one, the reach *)
(* of the immediate permitting: no LOADI reads outside the pool.               *)
ProgramRunnable == stage = "done" /\ Len(constants) <= HalfField => IsProgram(Program)

(* What the loader makes of a file that is cut off anywhere: constants and    *)
(* then instructions from the front of those assembled, and instructions only *)
(* if all the constants are there.  The whole file is the program, whatever   *)
(* was loaded before.  (The count must fit its field.)                        *)
Fits == Len(constants) < HalfCount

LoadedFromFront ==
  LET front(part, whole) == Len(part) <= Len(whole) /\ part = SubSeq(whole, 1, Len(part))
  IN  stage = "done" /\ Fits =>
        /\ front(loaded.constants, constants) /\ front(loaded.code, code)
        /\ loaded.code # <<>> => loaded.constants = constants
        /\ FromFile(Len(file.words)) = Program

(* So the runtime's requirements hold of what is loaded from a cut file too.  *)
CutFileRunnable ==
  stage = "done" /\ Fits /\ Len(constants) <= HalfField => IsProgram(loaded)
=============================================================================
