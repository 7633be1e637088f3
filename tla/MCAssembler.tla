---------------------------- MODULE MCAssembler -----------------------------
(* Values for Assembler: two labels, both kinds of branch, three constants. *)
EXTENDS Assembler

L(op, rd, rs1, rs2, arg) == [op |-> op, rd |-> rd, rs1 |-> rs1, rs2 |-> rs2, arg |-> arg]

MCLabels == {"a", "b"}
MCMisread == [op |-> "UNKNOWN", rd |-> 0, rs1 |-> 0, rs2 |-> 0, imm |-> 0]
MCLines ==
  {L("LABEL", 0, 0, 0, "a"), L("LABEL", 0, 0, 0, "b"), L("BLANK", 0, 0, 0, 0),
   L("JMP", 0, 0, 0, "a"), L("JZ", 0, 1, 0, "b"), L("JNZ", 0, 1, 0, "a"),
   L("LOADI", 1, 0, 0, 2), L("LOADI", 1, 0, 0, 1), L("LOADI", 0, 0, 0, NaN),
   L("ADD", 2, 1, 0, 0), L("MALFORMED", 0, 0, 0, 0)}
=============================================================================
