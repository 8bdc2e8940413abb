--------------------------- MODULE MCInstructions ---------------------------
(* Words of four bits, and cells of memory of one bit.                       *)
EXTENDS Instructions

Dest == {"zero", "a"}
Src == {"zero", "a", "b"}
Low == -2 .. 1

Instr(op, rd, rs1, rs2, imm, addr) ==
    [op |-> op, rd |-> rd, rs1 |-> rs1, rs2 |-> rs2, imm |-> imm, addr |-> addr]

\* x0 as the destination drops the result, whatever it is.
Computing ==
    {Instr(op, "a", rs1, rs2, 0, 0) : op \in ALUOps \cup MOps, rs1 \in Src, rs2 \in Src}
    \cup {Instr(op, "a", rs1, None, imm, 0) :
        op \in ALUOps \ {"sub"}, rs1 \in Src, imm \in Low}
    \cup {Instr(op, "zero", "a", "b", 0, 0) : op \in ALUOps \cup MOps}
    \cup {Instr(op, "zero", "a", None, 1, 0) : op \in ALUOps \ {"sub"}}
    \cup {Instr(op, "a", None, None, imm, addr) :
        op \in {"lui", "auipc"}, imm \in 0 .. 3, addr \in {0, 4}}

Copy == Instr("add", "b", "a", None, 0, 0)

Accessing ==
    {Instr(op, rd, rs1, None, imm, 0) :
        op \in {"lb", "lbu", "lh", "lhu", "lw"}, rd \in Dest, rs1 \in Src, imm \in Low}
    \cup {Instr(op, None, rs1, rs2, imm, 0) :
        op \in {"sb", "sh", "sw"}, rs1 \in Src, rs2 \in Src, imm \in Low}

Flagging ==
    {Instr(op, rd, rs1, None, 0, 0) :
        op \in {"csrrw", "csrrs", "csrrc"}, rd \in Dest, rs1 \in Src}
    \cup {Instr(op, rd, None, None, imm, 0) :
        op \in {"csrrw", "csrrs", "csrrc"}, rd \in Dest, imm \in 0 .. 3}

\* Magnitudes up to 3 are finite, 5 is a signaling NaN and 6 and 7 are quiet ones.
Floating ==
    {Instr(op, rd, rs1, rs2, 0, 0) : op \in {"fsgnj.s", "fsgnjn.s", "fsgnjx.s"},
        rd \in {"fa", "fb"}, rs1 \in {"fa", "fb"}, rs2 \in {"fa", "fb"}}
    \cup {Instr(op, rd, rs1, rs2, 0, 0) : op \in {"feq.s", "flt.s", "fle.s"},
        rd \in Dest, rs1 \in {"fa", "fb"}, rs2 \in {"fa", "fb"}}
    \cup {Instr("fmv.x.s", rd, rs1, None, 0, 0) : rd \in Dest, rs1 \in {"fa", "fb"}}
    \cup {Instr("fmv.s.x", rd, rs1, None, 0, 0) : rd \in {"fa", "fb"}, rs1 \in {"zero", "b"}}

InstrsOf(kind) ==
    CASE kind = "computing" -> Computing \cup {Copy}
      [] kind = "accessing" -> Accessing
      [] kind = "flagging" -> Flagging
      [] kind = "floating" -> Floating

Kinds == {"computing", "accessing", "flagging", "floating"}
=============================================================================
