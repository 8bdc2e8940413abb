----------------------------- MODULE MCRegSync -----------------------------
(***************************************************************************)
(* Model-checking instances of RegSync.  The sync code moves no value from *)
(* one register to another, so a run follows a few registers at a time.    *)
(***************************************************************************)
EXTENDS RegSync

Vals == {0, 1}

\* Synchronizing the registers on external calls goes wrong unless they are
\* global (see the run external_results).
GoodOptions == {o \in Options : o.regs # "globals" => ~o.syncOnExternalCalls}
AllOptions  == Options
ABIOptions  == {o \in GoodOptions : o.regs = "abi"}

\* a0, in which external functions take their argument and leave their result,
\* with one of each other kind.
Pairs == {{"a0", r} : r \in {"ra", "sp", "a1", "a2", "s1", "fa0"}}
StackPointer == {{"a0", "sp"}}

SPUsed == {"sp"}
NoneUsed == {}
=============================================================================
