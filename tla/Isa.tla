--------------------------------- MODULE Isa ---------------------------------
(***************************************************************************)
(* The RISC-V instructions that compute, load and store, and read and      *)
(* write fflags, as the architecture defines them, for words of XLen bits: *)
(* one step fetches any legal instruction of the program, the next one     *)
(* executes it.  A single-precision float is a word with a sign, and a     *)
(* magnitude that orders as an integer: infinity is the greatest but the   *)
(* NaNs, of which the lower ones are signaling.                            *)
(***************************************************************************)
EXTENDS Integers, Bitwise

CONSTANTS
    XLen,       \* bits of a word
    LowBits,    \* bits of the immediate of addi; lui sets the others
    ByteBits,   \* bits of a cell of memory; a word has four cells
    FlagBits,   \* bits of fflags, the low bits of fcsr
    Infinity,   \* the magnitude of an infinite float
    Quiet,      \* the least magnitude of a quiet NaN
    Programs,   \* kinds of programs
    Instrs(_),  \* the instructions of a program of a kind:
                \* [op, rd, rs1, rs2 (or None), imm, addr]
    None

VARIABLES
    program,    \* the kind of the program
    instr,      \* the instruction that was fetched, or None
    x,          \* integer registers, "zero" among them
    f,          \* floating-point registers
    mem,        \* memory: cell -> byte
    fcsr,       \* the floating-point control and status register
    hasFFlags   \* TRUE in the architecture; FALSE: a machine like it whose
                \* fflags reads as zero, whatever is written

vars == <<program, instr, x, f, mem, fcsr, hasFFlags>>

Words == 2 ^ XLen
ToWord(n) == n % Words
Signed(w) == IF w >= Words \div 2 THEN w - Words ELSE w

Float(w) == [sign |-> w \div (Words \div 2), mag |-> w % (Words \div 2)]
IsNaN(w) == Float(w).mag > Infinity
IsSignaling(w) == IsNaN(w) /\ Float(w).mag < Quiet
Real(w) == IF Float(w).sign = 1 THEN -Float(w).mag ELSE Float(w).mag

Bool(b) == IF b THEN 1 ELSE 0
-----------------------------------------------------------------------------
LoadSize == [lb |-> 1, lbu |-> 1, lh |-> 2, lhu |-> 2, lw |-> 4]
StoreSize == [sb |-> 1, sh |-> 2, sw |-> 4]

Address(i) == ToWord(x[i.rs1] + i.imm)
InMemory(i, size) ==
    /\ Address(i) % size = 0
    /\ \A k \in 0 .. size - 1 : Address(i) + k \in DOMAIN mem

Legal(i) ==
    /\ i.op \in DOMAIN LoadSize => InMemory(i, LoadSize[i.op])
    /\ i.op \in DOMAIN StoreSize => InMemory(i, StoreSize[i.op])
    \* The divisions that C leaves undefined, which a compiler does not emit.
    /\ i.op \in {"div", "divu", "rem", "remu"} => x[i.rs2] # 0
    /\ i.op \in {"div", "rem"} =>
          ~(Signed(x[i.rs1]) = -(Words \div 2) /\ Signed(x[i.rs2]) = -1)

Fetch ==
    /\ instr = None
    /\ \E i \in Instrs(program) : Legal(i) /\ instr' = i
    /\ UNCHANGED <<program, x, f, mem, fcsr, hasFFlags>>
-----------------------------------------------------------------------------
Magnitude(n) == IF n < 0 THEN -n ELSE n

\* Division that truncates, of integers.
Quotient(a, b) ==
    (IF (a < 0) = (b < 0) THEN 1 ELSE -1) * (Magnitude(a) \div Magnitude(b))

\* The result of an operation on two words.
Result(op, a, b) ==
    LET n == b % XLen
    IN CASE op = "add" -> a + b
         [] op = "sub" -> a - b
         [] op = "sll" -> a * 2 ^ n
         [] op = "srl" -> a \div 2 ^ n
         [] op = "sra" -> Signed(a) \div 2 ^ n
         [] op = "slt" -> Bool(Signed(a) < Signed(b))
         [] op = "sltu" -> Bool(a < b)
         [] op = "and" -> a & b
         [] op = "or" -> a | b
         [] op = "xor" -> a ^^ b
         [] op = "mul" -> a * b
         [] op = "mulh" -> (Signed(a) * Signed(b)) \div Words
         [] op = "mulhsu" -> (Signed(a) * b) \div Words
         [] op = "mulhu" -> (a * b) \div Words
         [] op = "div" -> Quotient(Signed(a), Signed(b))
         [] op = "divu" -> a \div b
         [] op = "rem" -> Signed(a) - Signed(b) * Quotient(Signed(a), Signed(b))
         [] op = "remu" -> a % b

ComputeOps == {"add", "sub", "sll", "srl", "sra", "slt", "sltu", "and", "or", "xor",
               "mul", "mulh", "mulhsu", "mulhu", "div", "divu", "rem", "remu"}

Set(reg, value) == IF reg = "zero" THEN x ELSE [x EXCEPT ![reg] = ToWord(value)]

Compute(i) ==
    /\ i.op \in ComputeOps
    /\ x' = Set(i.rd, Result(i.op, x[i.rs1],
                             IF i.rs2 = None THEN ToWord(i.imm) ELSE x[i.rs2]))
    /\ UNCHANGED <<f, mem>>

UpperImmediate(i) ==
    /\ i.op \in {"lui", "auipc"}
    /\ x' = Set(i.rd, i.imm * 2 ^ LowBits + (IF i.op = "auipc" THEN i.addr ELSE 0))
    /\ UNCHANGED <<f, mem>>

Load(i) ==
    /\ i.op \in DOMAIN LoadSize
    /\ LET bits == LoadSize[i.op] * ByteBits
           cell(k) == mem[Address(i) + k] * 2 ^ (k * ByteBits)
           value == CASE LoadSize[i.op] = 1 -> cell(0)
                      [] LoadSize[i.op] = 2 -> cell(0) + cell(1)
                      [] OTHER -> cell(0) + cell(1) + cell(2) + cell(3)
       IN x' = Set(i.rd, IF i.op \in {"lb", "lh"} /\ value >= 2 ^ (bits - 1)
                         THEN value - 2 ^ bits ELSE value)
    /\ UNCHANGED <<f, mem>>

Store(i) ==
    /\ i.op \in DOMAIN StoreSize
    /\ mem' = [c \in DOMAIN mem |->
                  IF c \in Address(i) .. Address(i) + StoreSize[i.op] - 1
                  THEN (x[i.rs2] \div 2 ^ ((c - Address(i)) * ByteBits)) % 2 ^ ByteBits
                  ELSE mem[c]]
    /\ UNCHANGED <<x, f>>

AccessOps == {"csrrw", "csrrs", "csrrc"}

Flags == fcsr % 2 ^ FlagBits

\* A csr instruction on fflags reads it.
AccessFlags(i) ==
    /\ i.op \in AccessOps
    /\ x' = Set(i.rd, IF hasFFlags THEN Flags ELSE 0)
    /\ UNCHANGED <<f, mem>>

InjectSign(i) ==
    /\ i.op \in {"fsgnj.s", "fsgnjn.s", "fsgnjx.s"}
    /\ LET a == Float(f[i.rs1])
           b == Float(f[i.rs2])
           sign == CASE i.op = "fsgnj.s" -> b.sign
                     [] i.op = "fsgnjn.s" -> 1 - b.sign
                     [] OTHER -> Bool(a.sign # b.sign)
       IN f' = [f EXCEPT ![i.rd] = sign * (Words \div 2) + a.mag]
    /\ UNCHANGED <<x, mem>>

CompareOps == {"feq.s", "flt.s", "fle.s"}

CompareFloats(i) ==
    /\ i.op \in CompareOps
    /\ LET a == f[i.rs1]
           b == f[i.rs2]
       IN x' = Set(i.rd, Bool(/\ ~IsNaN(a) /\ ~IsNaN(b)
                              /\ CASE i.op = "feq.s" -> Real(a) = Real(b)
                                   [] i.op = "flt.s" -> Real(a) < Real(b)
                                   [] OTHER -> Real(a) <= Real(b)))
    /\ UNCHANGED <<f, mem>>

MoveBits(i) ==
    /\ UNCHANGED mem
    /\ \/ i.op = "fmv.x.s" /\ x' = Set(i.rd, f[i.rs1]) /\ UNCHANGED f
       \/ i.op = "fmv.s.x" /\ f' = [f EXCEPT ![i.rd] = x[i.rs1]] /\ UNCHANGED x

\* The invalid-operation flag is the highest of fflags.
NV == 2 ^ (FlagBits - 1)

\* flt and fle signal any NaN, feq the signaling ones only.
Invalid(i) ==
    \E r \in {i.rs1, i.rs2} :
        IF i.op = "feq.s" THEN IsSignaling(f[r]) ELSE IsNaN(f[r])

\* What an instruction leaves in fcsr: the flags that a csr instruction writes,
\* with frm, the bits above, unchanged; or those raised so far and another one.
FCSRAfter(i) ==
    LET src == (IF i.rs1 = None THEN i.imm ELSE x[i.rs1]) % 2 ^ FlagBits
    IN CASE i.op = "csrrw" -> fcsr - Flags + src
         [] i.op = "csrrs" -> fcsr | src
         [] i.op = "csrrc" -> fcsr - (Flags & src)
         [] i.op \in CompareOps -> IF Invalid(i) THEN fcsr | NV ELSE fcsr
         [] OTHER -> fcsr

Execute ==
    /\ instr # None
    /\ \/ Compute(instr) \/ UpperImmediate(instr) \/ Load(instr) \/ Store(instr)
       \/ AccessFlags(instr) \/ InjectSign(instr) \/ CompareFloats(instr) \/ MoveBits(instr)
    /\ fcsr' = FCSRAfter(instr)
    /\ instr' = None
    /\ UNCHANGED <<program, hasFFlags>>

Init ==
    /\ program \in Programs
    /\ instr = None
    /\ x["zero"] = 0
    /\ fcsr = 0
    /\ hasFFlags \in BOOLEAN

Spec == Init /\ [][Fetch \/ Execute]_vars
=============================================================================
