----------------------------- MODULE GuestRegs -----------------------------
(***************************************************************************)
(* The register file of the guest, as the guest's functions see it: what   *)
(* the translated program promises about registers, whatever copies of     *)
(* them it keeps.  abi tells which guest code is run: code that relies on  *)
(* no more than the RISC-V calling convention, or any code, for which      *)
(* there is one register file and a call leaves it alone.                  *)
(***************************************************************************)
EXTENDS Integers, Sequences, SequencesExt

CONSTANT Val   \* the values that registers hold

VARIABLES
    reg,    \* the registers followed, by their ABI names
    abi,    \* the guest code follows the calling convention
    file,   \* the value of each register
    calls,  \* suspended functions, the oldest first
    ext     \* argument and result of the last call of an external function

\* The calling convention.
ArgRegs   == {"a0", "a1", "a2", "a3", "a4", "a5", "a6", "a7",
              "fa0", "fa1", "fa2", "fa3", "fa4", "fa5", "fa6", "fa7"}
RetRegs   == {"a0", "a1", "fa0", "fa1"}
SavedRegs == {"sp", "s0", "s1", "s2", "s3", "s4", "s5", "s6", "s7", "s8", "s9",
              "s10", "s11", "fs0", "fs1", "fs2", "fs3", "fs4", "fs5", "fs6",
              "fs7", "fs8", "fs9", "fs10", "fs11"}

\* What a callee may find, what it hands back, and what its caller finds again.
Passed    == IF abi THEN reg \cap (ArgRegs \cup {"ra", "sp"}) ELSE reg
Returned  == IF abi THEN reg \cap RetRegs ELSE reg
Preserved == IF abi THEN reg \cap SavedRegs ELSE {}

File == [reg -> Val]
Agree(f, g, R) == \A r \in R : f[r] = g[r]

GuestInit == abi \in BOOLEAN /\ file \in File /\ calls = << >>

GuestWrite == /\ \E r \in reg, v \in Val : file' = [file EXCEPT ![r] = v]
              /\ UNCHANGED <<reg, abi, calls, ext>>

\* A call, after the link register was written; a tail call is the last thing
\* its function does but for returning.
GuestCall ==
    \E linked \in File, tail \in BOOLEAN :
        /\ Agree(linked, file, reg \ {"ra"})
        /\ calls' = Append(calls, [saved |-> [r \in Preserved |-> linked[r]],
                                   tail  |-> tail])
        /\ file' \in File /\ Agree(file', linked, Passed)
        /\ UNCHANGED <<reg, abi, ext>>

GuestReturn ==
    /\ calls # << >>
    /\ file' \in File /\ Agree(file', file, Returned)
    /\ ~Last(calls).tail => Agree(file', Last(calls).saved, Preserved)
    /\ calls' = Front(calls)
    /\ UNCHANGED <<reg, abi, ext>>

\* An external function follows the convention whoever calls it: it finds its
\* argument and leaves its result in a0.
GuestExternal ==
    /\ file' \in File
    /\ ext' = [arg |-> file["a0"], res |-> file'["a0"]]
    /\ Agree(file', file, reg \cap SavedRegs)
    /\ UNCHANGED <<reg, abi, calls>>

GuestNext == GuestWrite \/ GuestCall \/ GuestReturn \/ GuestExternal
GuestSpec == GuestInit /\ [][GuestNext]_<<reg, abi, file, calls, ext>>
=============================================================================
