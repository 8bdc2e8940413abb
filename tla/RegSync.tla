------------------------------ MODULE RegSync ------------------------------
(***************************************************************************)
(* The registers of a translated program while it runs.  There is one      *)
(* global copy of each register and, unless the register mode is GLOBALS,  *)
(* each function keeps a local copy of every register that its code        *)
(* accesses.  Around calls and at the entry and exit of a function the     *)
(* code that loadRegisters and storeRegisters emit moves values between    *)
(* the two.  The program implements the guest's one register file          *)
(* (GuestRegs).                                                            *)
(***************************************************************************)
EXTENDS Integers, Sequences, SequencesExt

CONSTANTS
    RegSets,      \* sets of registers, by their ABI names
    Val,          \* the values they hold
    OptionSets,   \* the options that programs are translated with
    MaxDepth,     \* bound on the depth of calls
    TailCalls,    \* whether calls are tail calls
    UsedByCallers \* registers that every function with a call accesses

\* Options::regs and Options::syncOnExternalCalls.
Options == [regs : {"globals", "locals", "abi"}, syncOnExternalCalls : BOOLEAN]

ASSUME RegAssumption == /\ \A R \in RegSets : "a0" \in R
                        /\ OptionSets \subseteq Options
                        /\ 0 \in Val /\ TailCalls \subseteq BOOLEAN
                        /\ MaxDepth \in Nat \ {0}

VARIABLES
    reg,            \* the registers followed: the code that moves them never
                    \* takes a value from one to another
    opts,           \* the options
    x,              \* the global registers
    frames,         \* the active functions, main first
    ext             \* argument and result of the last external call

vars == <<reg, opts, x, frames, ext>>

\* acc: the registers with a local copy (cleanRegs erases those that no
\* instruction accesses; there are none in GLOBALS mode).
\* tail: the function is in a tail call and returns after it.
\* saved: history of the registers at the call the function is in.
Frame(acc, regs) == [acc |-> acc, regs |-> regs, tail |-> FALSE, saved |-> << >>]

Top == Last(frames)
WithTop(f) == [frames EXCEPT ![Len(frames)] = f]

\* What an instruction of a function reads: Function::getReg.
GetReg(f, globals, r) == IF r \in f.acc THEN f.regs[r] ELSE globals[r]
View(f, globals) == [r \in reg |-> GetReg(f, globals, r)]

-----------------------------------------------------------------------------
(* Which registers are moved, and when.                                    *)

mode == opts.regs

\* Mutations: calls store and load every register; returns hand back no second
\* word.
SyncRegCallAll(r) == TRUE
SyncRegRetFirst(r) == r \in {"a0", "fa0"}

SyncRegCall(r) == r \in {"ra", "sp", "a0", "a1", "a2", "a3", "a4", "a5", "a6",
                         "a7", "fa0", "fa1", "fa2", "fa3", "fa4", "fa5", "fa6",
                         "fa7"}
SyncRegRet(r) == r \in {"a0", "a1", "fa0", "fa1"}

SyncReg(r, point) ==
    IF mode # "abi" THEN point = "ret_regs" => SyncRegRet(r)
    ELSE IF point \in {"call", "func_start"} THEN SyncRegCall(r)
    ELSE SyncRegRet(r)

LoadRegisters(f, globals, point) ==
    [f EXCEPT !.regs = [r \in f.acc |-> IF SyncReg(r, point) THEN globals[r]
                                                             ELSE f.regs[r]]]

StoreRegisters(f, globals, point) ==
    [r \in reg |-> IF r \in f.acc /\ SyncReg(r, point) THEN f.regs[r]
                                                       ELSE globals[r]]

\* The local copies of a function before anything is stored in them: allocas.
Uninitialized(acc) == [acc -> Val]

\* A function may access any registers.
Accesses == IF mode = "globals" THEN {{}} ELSE SUBSET reg

-----------------------------------------------------------------------------
\* Function::startMain: main loads no registers, but sets its stack pointer.
Init ==
    /\ reg \in RegSets
    /\ opts \in OptionSets
    /\ x = [r \in reg |-> 0]
    /\ \E acc \in Accesses :
          /\ mode # "globals" => {"sp"} \cap reg \subseteq acc
          /\ \E regs \in Uninitialized(acc) : frames = <<Frame(acc, regs)>>
    /\ ext = [arg |-> 0, res |-> 0]

CanAccess(r) == mode = "globals" \/ r \in Top.acc

\* A store to the copy of r that the function has, local or global.
PutLocal(f, r, v) == IF r \in f.acc THEN [f EXCEPT !.regs[r] = v] ELSE f
PutGlobal(f, globals, r, v) ==
    IF r \in f.acc THEN globals ELSE [globals EXCEPT ![r] = v]

\* An instruction of the function that runs writes a register.
Write ==
    /\ ~Top.tail
    /\ \E r \in reg, v \in Val :
          /\ CanAccess(r)
          /\ frames' = WithTop(PutLocal(Top, r, v))
          /\ x' = PutGlobal(Top, x, r, v)
    /\ UNCHANGED <<reg, opts, ext>>

-----------------------------------------------------------------------------
(* Calls.                                                                  *)

\* Instruction::link: the return address, in a call that is not a tail call.
Links(tail) == ~tail /\ "ra" \in reg
CanLink(tail) == Links(tail) => CanAccess("ra")
LinkLocal(tail, v) == IF Links(tail) THEN PutLocal(Top, "ra", v) ELSE Top
LinkGlobal(tail, v) == IF Links(tail) THEN PutGlobal(Top, x, "ra", v) ELSE x

Guest == INSTANCE GuestRegs WITH
    abi   <- mode = "abi",
    file  <- View(Top, x),
    calls <- [i \in 1 .. Len(frames) - 1 |->
                [saved |-> frames[i].saved, tail |-> frames[i].tail]]

\* handleCall and handleICall of a translated function: link and store,
CallGlobals(tail, v) ==
    StoreRegisters(LinkLocal(tail, v), LinkGlobal(tail, v), "call")

CallerFrame(tail, v) ==
    [acc   |-> Top.acc,
     regs  |-> LinkLocal(tail, v).regs,
     tail  |-> tail,
     saved |-> [r \in Guest!Preserved |->
                   View(LinkLocal(tail, v), CallGlobals(tail, v))[r]]]

\* and, in the function called, Function::start.
CalleeFrame(acc, regs, globals) ==
    LoadRegisters(Frame(acc, regs), globals, "func_start")

Call ==
    \E tail \in TailCalls, v \in Val, acc \in Accesses :
        /\ ~Top.tail /\ Len(frames) < MaxDepth
        /\ CanLink(tail)
        /\ ~tail /\ mode = "abi" => UsedByCallers \cap reg \subseteq Top.acc
        /\ x' = CallGlobals(tail, v)
        /\ \E regs \in Uninitialized(acc) :
              frames' = Append(WithTop(CallerFrame(tail, v)),
                               CalleeFrame(acc, regs, CallGlobals(tail, v)))
        /\ UNCHANGED <<reg, opts, ext>>

\* freturn, and the registers that the caller loads when it is back.
Return ==
    LET globals == StoreRegisters(Top, x, "func_return")
        caller  == Len(frames) - 1
    IN  /\ Len(frames) > 1
        /\ x' = globals
        /\ frames' = [Front(frames) EXCEPT
                        ![caller] = LoadRegisters(@, globals, "call_returned")]
        /\ UNCHANGED <<reg, opts, ext>>

\* What is stored before a call of an external function: nothing, unless the
\* option says so.
StoreForExternal(f, globals) ==
    IF opts.syncOnExternalCalls THEN StoreRegisters(f, globals, "call") ELSE globals

\* handleCall of an external function: Caller takes the argument from the
\* function's own copy and leaves the result there; the option then loads the
\* registers that calls return.
LoadAfterCaller(f, globals) ==
    IF opts.syncOnExternalCalls THEN LoadRegisters(f, globals, "call_returned") ELSE f

CallExternal ==
    \E tail \in TailCalls, v, res \in Val :
        LET f       == LinkLocal(tail, v)
            globals == StoreForExternal(f, LinkGlobal(tail, v))
            back    == [PutLocal(f, "a0", res) EXCEPT !.tail = tail]
        IN  /\ ~Top.tail
            /\ CanLink(tail) /\ CanAccess("a0")
            /\ ext' = [arg |-> GetReg(f, globals, "a0"), res |-> res]
            /\ x' = PutGlobal(f, globals, "a0", res)
            /\ frames' = WithTop(LoadAfterCaller(back, x'))
            /\ UNCHANGED <<reg, opts>>

\* enterFunction after a call of an external function.
LoadAfterICaller(f, globals) ==
    LoadRegisters(f, globals,
        IF opts.syncOnExternalCalls THEN "call_returned" ELSE "ret_regs")

\* handleICall of an external function, through icaller: the arguments come
\* from the function's own copies and the result is left in the global a0.
ICallExternal ==
    \E v, res \in Val :
        LET f       == LinkLocal(FALSE, v)
            globals == StoreForExternal(f, LinkGlobal(FALSE, v))
        IN  /\ ~Top.tail
            /\ CanLink(FALSE)
            /\ \A r \in reg \cap Guest!ArgRegs : CanAccess(r)
            /\ ext' = [arg |-> GetReg(f, globals, "a0"), res |-> res]
            /\ x' = [globals EXCEPT !["a0"] = res]
            /\ frames' = WithTop(LoadAfterICaller(f, x'))
            /\ UNCHANGED <<reg, opts>>

Next == Write \/ Call \/ Return \/ CallExternal \/ ICallExternal
Spec == Init /\ [][Next]_vars

-----------------------------------------------------------------------------
(* Type invariant: a function has a local copy of each register that it    *)
(* accesses and of no other, and none in GLOBALS mode.                     *)
FrameOf(acc) == [acc   : {acc},
                 regs  : [acc -> Val],
                 tail  : BOOLEAN,
                 saved : [Guest!Preserved -> Val] \cup {<< >>}]

TypeOK ==
    /\ reg \in RegSets
    /\ opts \in OptionSets
    /\ x \in [reg -> Val]
    /\ ext \in [arg : Val, res : Val]
    /\ frames \in Seq(UNION {FrameOf(acc) : acc \in Accesses})
    /\ Len(frames) \in 1 .. MaxDepth

\* A function that waits for a call finds the registers that the callee must
\* preserve as they were when it made the call, in its own copies or, for those
\* it does not access, in the global ones.
CallersKeepRegisters ==
    \A i \in 1 .. Len(frames) - 1 : ~frames[i].tail =>
        \A r \in Guest!Preserved : GetReg(frames[i], x, r) = frames[i].saved[r]

\* What the guest's convention lets the model assume of such a function.
CallersUseTheirOwn ==
    \A i \in 1 .. Len(frames) - 1 :
        /\ frames[i].saved \in [Guest!Preserved -> Val]
        /\ mode = "abi" /\ ~frames[i].tail
              => UsedByCallers \cap reg \subseteq frames[i].acc

(* Safety: whatever the functions that it called have done, a function has *)
(* not lost a register that they must preserve: neither in its own copies  *)
(* nor in the global ones, which all functions share.                      *)
RegInv == TypeOK /\ CallersKeepRegisters /\ CallersUseTheirOwn

(* Refinement: the copies that a translated program keeps amount to the    *)
(* one register file of the guest.  Every function finds its arguments,    *)
(* every caller its results and the registers that a callee must preserve, *)
(* and an external function its argument and its caller the result.        *)
ImplementsGuestRegs == Guest!GuestSpec

(* Option sync-on-external-calls: "Synchronize register file on calls to   *)
(* external (non-translated) functions".  The caller finds the result.     *)
ResultKept == [][ext' # ext => View(Top, x)'["a0"] = ext'.res]_vars

(* Comment in cleanRegs: "Since we do not really use it, we should delete  *)
(* the load and the store".  A function that does not use a register finds *)
(* it preserved by the functions it calls.                                 *)
UnusedRegistersKept ==
    [][Len(frames') < Len(frames) /\ ~Top'.tail
         => \A r \in Guest!Preserved \ Top'.acc : x'[r] = Top'.saved[r]]_vars
=============================================================================
