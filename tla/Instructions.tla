---------------------------- MODULE Instructions ----------------------------
(***************************************************************************)
(* The host code that Instruction emits for the instructions that compute, *)
(* load and store, and access fflags: for each instruction the operations  *)
(* of llvm's IR, through Builder, on values of a fixed number of bits.     *)
(* A step fetches an instruction of the program and the next one runs its  *)
(* host code.  The state is that of the architecture (Isa), but for fcsr:  *)
(* the host code emulates it as far as csr instructions access fflags, and *)
(* if an option says so.                                                   *)
(***************************************************************************)
EXTENDS Integers, Bitwise

CONSTANTS
    XLen, LowBits, ByteBits, FlagBits, Infinity, Quiet,   \* see Isa
    Programs, Instrs(_), None

\* A word has four cells; its magnitude has room for infinity and a NaN.
ASSUME WordAssumption ==
    /\ XLen \in Nat /\ LowBits \in 1 .. XLen - 1 /\ FlagBits \in 1 .. XLen - 1
    /\ XLen = 4 * ByteBits
    /\ Infinity \in 1 .. 2 ^ (XLen - 1) - 2
    /\ Quiet \in Infinity + 1 .. 2 ^ (XLen - 1) - 1

VARIABLES
    program, instr, x, f, mem,
    fcsr,        \* rv_fcsr, the global of the host that stands for fcsr
    enableFCSR,  \* the option -enable-fcsr, which is off by default
    archFcsr     \* history variable: fcsr of the architecture

vars == <<program, instr, x, f, mem, fcsr, enableFCSR, archFcsr>>

\* fcsr of the architecture is no function of the host's state: what matters is
\* what a program reads.
Arch == INSTANCE Isa WITH fcsr <- archFcsr, hasFFlags <- enableFCSR

\* In the architecture comparisons raise flags, which the host code for them does
\* not: the programs are those that do not read fflags after a comparison.
ASSUME ProgramAssumption ==
    \A p \in Programs :
        \/ \A i \in Instrs(p) : i.op \notin Arch!CompareOps
        \/ \A i \in Instrs(p) : i.op \notin Arch!AccessOps

-----------------------------------------------------------------------------
(* Operations of llvm's IR on values of w bits, as numbers from 0.         *)

Trunc(v, w) == v % 2 ^ w
SExt(v, from, to) == IF v >= 2 ^ (from - 1) THEN v + 2 ^ to - 2 ^ from ELSE v
Shl(v, n, w) == (v * 2 ^ n) % 2 ^ w
LShr(v, n) == v \div 2 ^ n
\* The sign bit fills the bits that are shifted in.
AShr(v, n, w) ==
    LShr(v, n) + (IF v >= 2 ^ (w - 1) THEN (2 ^ n - 1) * 2 ^ (w - n) ELSE 0)
MulW(a, b, w) == (a * b) % 2 ^ w
ZExtBool(b) == IF b THEN 1 ELSE 0

Neg(v) == Trunc(-v, XLen)
Not32(v) == 2 ^ XLen - 1 - v
SignBit == 2 ^ (XLen - 1)
\* Signed order is the order of the values with their sign bits flipped.
Slt(a, b) == Trunc(a + SignBit, XLen) < Trunc(b + SignBit, XLen)

\* sdiv and srem of values that do not overflow: magnitudes and signs apart.
Negative(v) == v >= SignBit
Abs(v) == IF Negative(v) THEN Neg(v) ELSE v
SDiv(a, b) ==
    LET q == Abs(a) \div Abs(b) IN IF Negative(a) # Negative(b) THEN Neg(q) ELSE q
SRem(a, b) ==
    LET r == Abs(a) % Abs(b) IN IF Negative(a) THEN Neg(r) ELSE r

\* The ordered comparisons of floats; a value is known by its bits.
Ordered(a, b) == a % SignBit <= Infinity /\ b % SignBit <= Infinity
FCmpOEQ(a, b) == Ordered(a, b) /\ (a = b \/ {a % SignBit, b % SignBit} = {0})
FCmpOLT(a, b) ==
    /\ Ordered(a, b)
    /\ ~FCmpOEQ(a, b)
    /\ \/ a >= SignBit /\ (b < SignBit \/ b < a)
       \/ b < SignBit /\ a < b
FNeg(a) == IF a >= SignBit THEN a - SignBit ELSE a + SignBit
FAbs(a) == a % SignBit
CopySign(a, b) == FAbs(a) + (IF b >= SignBit THEN SignBit ELSE 0)
-----------------------------------------------------------------------------
(* Builder.                                                                *)

\* getReg and Builder::store of a register: x0 is the constant zero.
Reg(r) == IF r = "zero" THEN 0 ELSE x[r]
StoreReg(r, v) == IF r = "zero" THEN x ELSE [x EXCEPT ![r] = v]
Imm(i) == Trunc(i.imm, XLen)

Mulh(a, b) ==
    LET v == MulW(SExt(a, XLen, 2 * XLen), SExt(b, XLen, 2 * XLen), 2 * XLen)
    IN Trunc(AShr(v, XLen, 2 * XLen), XLen)
Mulhu(a, b) == Trunc(LShr(MulW(a, b, 2 * XLen), XLen), XLen)
\* Mutation: the unsigned operand is sign-extended.
MulhsuSigned(a, b) == Mulh(a, b)

Mulhsu(a, b) ==
    LET v == MulW(SExt(a, XLen, 2 * XLen), b, 2 * XLen)
    IN Trunc(AShr(v, XLen, 2 * XLen), XLen)

\* Only the low bits of a shift amount are valid: v & 0x1F.
ShiftAmount(v) == v & (XLen - 1)

\* fsgnjx works on the bits as integers.
Fsgnjx(a, b) == (a & (SignBit - 1)) | ((a ^^ b) & SignBit)
-----------------------------------------------------------------------------
(* Instruction: the operations for each kind of instruction.               *)

\* translateALUOp, the aliases: addi with 0 copies, sub from x0 negates, xori
\* with -1 complements.
Alias(i) ==
    CASE i.op = "add" /\ i.rs2 = None /\ Imm(i) = 0 -> "A_MV"
      [] i.op = "sub" /\ i.rs1 = "zero" -> "A_NEG"
      [] i.op = "xor" /\ i.rs2 = None /\ i.imm = -1 -> "A_NOT"
      [] OTHER -> "A_NONE"

ALUOps == {"add", "sub", "sll", "srl", "sra", "slt", "sltu", "and", "or", "xor"}

ALUValue(i) ==
    LET o1 == Reg(i.rs1)
        o2 == IF i.rs2 = None THEN Imm(i) ELSE Reg(i.rs2)
    IN CASE Alias(i) = "A_MV" -> o1
         [] Alias(i) = "A_NEG" -> Neg(o2)
         [] Alias(i) = "A_NOT" -> Not32(o1)
         [] OTHER ->
            CASE i.op = "add" -> Trunc(o1 + o2, XLen)
              [] i.op = "sub" -> Trunc(o1 - o2, XLen)
              [] i.op = "and" -> o1 & o2
              [] i.op = "or" -> o1 | o2
              [] i.op = "xor" -> o1 ^^ o2
              [] i.op = "sll" -> Shl(o1, ShiftAmount(o2), XLen)
              [] i.op = "srl" -> LShr(o1, ShiftAmount(o2))
              [] i.op = "sra" -> AShr(o1, ShiftAmount(o2), XLen)
              [] i.op = "slt" -> ZExtBool(Slt(o1, o2))
              [] i.op = "sltu" -> ZExtBool(o1 < o2)

TranslateALUOp(i) ==
    /\ i.op \in ALUOps
    /\ x' = StoreReg(i.rd, ALUValue(i))
    /\ UNCHANGED <<f, mem, fcsr>>

MOps == {"mul", "mulh", "mulhsu", "mulhu", "div", "divu", "rem", "remu"}

MValue(op, o1, o2) ==
    CASE op = "mul" -> MulW(o1, o2, XLen)
      [] op = "mulh" -> Mulh(o1, o2)
      [] op = "mulhsu" -> Mulhsu(o1, o2)
      [] op = "mulhu" -> Mulhu(o1, o2)
      [] op = "div" -> SDiv(o1, o2)
      [] op = "divu" -> o1 \div o2
      [] op = "rem" -> SRem(o1, o2)
      [] op = "remu" -> o1 % o2

TranslateM(i) ==
    /\ i.op \in MOps
    /\ x' = StoreReg(i.rd, MValue(i.op, Reg(i.rs1), Reg(i.rs2)))
    /\ UNCHANGED <<f, mem, fcsr>>

TranslateUI(i) ==
    /\ i.op \in {"lui", "auipc"}
    /\ LET upper == Shl(Imm(i), LowBits, XLen)
       IN x' = StoreReg(i.rd, IF i.op = "auipc" THEN Trunc(upper + i.addr, XLen)
                                                ELSE upper)
    /\ UNCHANGED <<f, mem, fcsr>>

\* getLLVMTy: the cells of an integer type.
Cells(op) ==
    CASE op \in {"lb", "lbu", "sb"} -> 1
      [] op \in {"lh", "lhu", "sh"} -> 2
      [] op \in {"lw", "sw"} -> 4

\* The gep of a byte pointer.
Pointer(i) == Trunc(Reg(i.rs1) + Imm(i), XLen)

\* The number that n cells from p on hold, the first one lowest.
LoadCells(p, n) ==
    LET upTo[k \in 0 .. n] ==
            IF k = 0 THEN 0
            ELSE upTo[k - 1] + mem[p + k - 1] * 2 ^ (ByteBits * (k - 1))
    IN upTo[n]

TranslateLoad(i) ==
    /\ i.op \in {"lb", "lbu", "lh", "lhu", "lw"}
    /\ LET n == Cells(i.op)
           v == LoadCells(Pointer(i), n)
       IN x' = StoreReg(i.rd, IF i.op \in {"lb", "lh"} THEN SExt(v, n * ByteBits, XLen)
                                                       ELSE v)
    /\ UNCHANGED <<f, mem, fcsr>>

TranslateStore(i) ==
    /\ i.op \in {"sb", "sh", "sw"}
    /\ LET v == Trunc(Reg(i.rs2), Cells(i.op) * ByteBits)
           p == Pointer(i)
       IN mem' = [c \in DOMAIN mem |->
                     IF c - p \in 0 .. Cells(i.op) - 1
                     THEN Trunc(LShr(v, ByteBits * (c - p)), ByteBits)
                     ELSE mem[c]]
    /\ UNCHANGED <<x, f, fcsr>>

\* getCSRValue and setCSRValue of fflags: without the option it reads as zero
\* and a write is left out.
FlagMask == 2 ^ FlagBits - 1
GetFFlags == IF enableFCSR THEN fcsr & FlagMask ELSE 0
SetFFlags(v) == fcsr' = IF enableFCSR THEN v & FlagMask ELSE fcsr

TranslateCSR(i) ==
    /\ i.op \in {"csrrw", "csrrs", "csrrc"}
    /\ LET srcval == IF i.rs1 = None THEN Imm(i) ELSE Reg(i.rs1)
           noSrc == IF i.rs1 = None THEN i.imm = 0 ELSE i.rs1 = "zero"
       IN CASE i.op = "csrrw" -> SetFFlags(srcval)
            [] i.op # "csrrw" /\ noSrc -> UNCHANGED fcsr
            [] i.op = "csrrs" /\ ~noSrc -> SetFFlags(GetFFlags | srcval)
            [] i.op = "csrrc" /\ ~noSrc -> SetFFlags(GetFFlags & Not32(srcval))
    /\ x' = StoreReg(i.rd, GetFFlags)
    /\ UNCHANGED <<f, mem>>

\* translateFPUOp, sign injection: with one operand twice it is a copy, the
\* negation or the absolute value.
TranslateSgnj(i) ==
    /\ i.op \in {"fsgnj.s", "fsgnjn.s", "fsgnjx.s"}
    /\ LET o1 == f[i.rs1]
           o2 == f[i.rs2]
           alias == i.rs1 = i.rs2
           v == CASE i.op = "fsgnj.s" -> IF alias THEN o1 ELSE CopySign(o1, o2)
                  [] i.op = "fsgnjn.s" -> IF alias THEN FNeg(o1) ELSE CopySign(o1, FNeg(o2))
                  [] i.op = "fsgnjx.s" -> IF alias THEN FAbs(o1) ELSE Fsgnjx(o1, o2)
       IN f' = [f EXCEPT ![i.rd] = v]
    /\ UNCHANGED <<x, mem, fcsr>>

TranslateFCmp(i) ==
    /\ i.op \in {"feq.s", "flt.s", "fle.s"}
    /\ LET o1 == f[i.rs1]
           o2 == f[i.rs2]
           v == CASE i.op = "feq.s" -> FCmpOEQ(o1, o2)
                  [] i.op = "flt.s" -> FCmpOLT(o1, o2)
                  [] i.op = "fle.s" -> FCmpOEQ(o1, o2) \/ FCmpOLT(o1, o2)
       IN x' = StoreReg(i.rd, ZExtBool(v))
    /\ UNCHANGED <<f, mem, fcsr>>

TranslateFMV(i) ==
    /\ \/ i.op = "fmv.x.s" /\ x' = StoreReg(i.rd, f[i.rs1]) /\ UNCHANGED f
       \/ i.op = "fmv.s.x" /\ f' = [f EXCEPT ![i.rd] = Reg(i.rs1)] /\ UNCHANGED x
    /\ UNCHANGED <<mem, fcsr>>
-----------------------------------------------------------------------------
Fetch ==
    /\ instr = None
    /\ \E i \in Instrs(program) : Arch!Legal(i) /\ instr' = i
    /\ UNCHANGED <<program, x, f, mem, fcsr, enableFCSR, archFcsr>>

\* Any instruction that the program holds may come next.  fcsr starts at zero
\* (Translator::start), the rest holds anything.
Init ==
    /\ program \in Programs
    /\ instr = None
    /\ x \in [{"zero", "a", "b"} -> 0 .. 2 ^ XLen - 1]
    /\ x["zero"] = 0
    /\ f = [r \in {"fa", "fb"} |-> 0]
    /\ mem = [c \in 0 .. 3 |-> 0]
    /\ fcsr = 0
    /\ enableFCSR \in BOOLEAN
    /\ archFcsr = 0

Run(i) ==
    \/ TranslateALUOp(i) \/ TranslateM(i) \/ TranslateUI(i)
    \/ TranslateLoad(i) \/ TranslateStore(i) \/ TranslateCSR(i)
    \/ TranslateSgnj(i) \/ TranslateFCmp(i) \/ TranslateFMV(i)

Step ==
    /\ instr # None
    /\ Run(instr)
    /\ archFcsr' = Arch!FCSRAfter(instr)
    /\ instr' = None
    /\ UNCHANGED <<program, enableFCSR>>

Next == Fetch \/ Step

Spec == Init /\ [][Next]_vars

\* Every instruction leaves the integer and the floating-point registers and the
\* memory as the architecture says, for all values of its operands: the aliases,
\* the widths and signs of the high multiplications, shift amounts beyond the
\* word, sign extensions, x0 as source and destination, comparisons of NaNs and of
\* zeros of either sign.  With -enable-fcsr a csr instruction reads from fflags
\* what the ones before have left in it; without, the claim is that fflags reads
\* as zero, which is not what the architecture says of it.  That comparisons raise
\* flags is not claimed, because they do not: ProgramAssumption.
ImplementsIsa == Arch!Spec
=============================================================================
