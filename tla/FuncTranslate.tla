--------------------------- MODULE FuncTranslate ---------------------------
(***************************************************************************)
(* Translation of one guest function: how Function::translate walks the    *)
(* instructions between two function symbols and builds the control-flow   *)
(* graph of the host function.  Blocks are created ahead of the walk by    *)
(* forward branches, behind it by splitting a finished block when a        *)
(* backward branch or a data-section label lands in its middle, and the    *)
(* walk may find that a new function starts inside the range (the target   *)
(* of a call that carries no symbol).                                      *)
(*                                                                         *)
(* One loop iteration of translateInstrs is three steps:                   *)
(*   "enter"  : the function-switch test and the choice of the block,      *)
(*   "instr"  : Instruction::translate,                                    *)
(*   "record" : BasicBlock::addInstr, ShadowImage::processPending and the  *)
(*              decision to open a new block after this instruction.       *)
(* Registers, memory and the instructions' data are not represented.       *)
(***************************************************************************)
EXTENDS GuestCode

CONSTANTS
    Codes,        \* the guest functions considered
    LabelSets(_)  \* for each, the sets of labels that data sections refer to

ASSUME CodeAssumption == /\ Codes \subseteq [Addr -> Instr]
                         /\ \A c \in Codes : LabelSets(c) \subseteq SUBSET Addr

BBAddr == 0 .. Size      \* a jump in the last instruction creates a BB at Size

\* A block is a tracked one, known by its address, or the untracked region
\* that the instruction at that address has created.
Block        == BBAddr \X BOOLEAN
Tracked(a)   == <<a, FALSE>>
Untracked(a) == <<a, TRUE>>
IsUntracked(b) == b[2]

Open == [kind |-> "none", succ |-> {}]
Term == [kind : {"none", "br", "condbr", "ret", "indbr", "region"},
         succ : SUBSET Block]

VARIABLES
    code,        \* the guest instructions
    labels,      \* addresses that a data section refers to (jump tables)
    pc,          \* where translate() is
    func,        \* start address of the function being translated
    bodies,      \* start addresses of the functions that received a body
    funcs,       \* Context::_funcByAddr, restricted to this range
    nextFunc,    \* SBTSection::_nextFuncAddr
    addr,        \* Context::addr
    bbMap,       \* keys of the _bbMap of every function of the range
    home,        \* llvm function in which a block was created
    instrMap,    \* the block whose _instrMap holds an instruction
    term,        \* llvm terminator of each block, Open if it has none
    insertBlock, \* Builder::_bb
    first,       \* block that holds Builder::first() of this instruction
    nextBB,      \* Function::_nextBB
    pending,     \* ShadowImage::_pendingRelocs
    indBBs,      \* Function::_indBBs
    erased       \* blocks removed by finish()

input == <<code, labels>>
funcVars == <<func, bodies, funcs, nextFunc>>
bbVars == <<bbMap, home, instrMap, term>>
vars == <<input, pc, funcVars, addr, bbVars, insertBlock, first, nextBB,
          pending, indBBs, erased>>

-----------------------------------------------------------------------------
(* Blocks.                                                                 *)

\* The function's own _bbMap.  Blocks below func belong to finished functions.
OwnMap == AtOrAfter(bbMap, func)

Terminated(b) == term[b].kind # "none"

BrTo(S)     == [kind |-> "br", succ |-> {Tracked(a) : a \in S}]
CondBrTo(S) == [kind |-> "condbr", succ |-> {Tracked(a) : a \in S}]
Ret         == [kind |-> "ret", succ |-> {}]
IndBr       == [kind |-> "indbr", succ |-> {}]
RegionOf(a) == [kind |-> "region", succ |-> {Untracked(a)}]

\* Mutation: the instruction at the split address stays in the top part.
SplitInstrsPastTarget(m, b, t) ==
    [a \in Addr |-> IF m[a] = b /\ a > t THEN t ELSE m[a]]

\* BasicBlock::splitMap: the instructions of b from t on move to block t.
SplitInstrs(m, b, t) ==
    [a \in Addr |-> IF m[a] = b /\ a >= t THEN t ELSE m[a]]

\* BasicBlock::split: the bottom part inherits the terminator, the top part
\* branches to it.
SplitTerm(tm, b, t) ==
    [tm EXCEPT ![Tracked(t)] = tm[Tracked(b)], ![Tracked(b)] = BrTo({t})]

\* Mutation: blocks are created in the first function of the range.
NewBBsInFirst(S) ==
    /\ bbMap' = bbMap \cup S
    /\ home' = [k \in BBAddr |-> IF k \in S \ bbMap THEN 0 ELSE home[k]]

\* Function::newBB: the blocks of S that do not exist yet are created in the
\* llvm function that is being translated.
NewBBs(S) ==
    /\ bbMap' = bbMap \cup S
    /\ home' = [k \in BBAddr |-> IF k \in S \ bbMap THEN func ELSE home[k]]

-----------------------------------------------------------------------------
Init ==
    /\ code \in Codes
    /\ labels \in LabelSets(code)
    /\ pending = labels
    /\ pc = "enter"
    /\ func = 0 /\ bodies = {0} /\ funcs = {0} /\ nextFunc = 0
    /\ addr = 0
    /\ bbMap = {0}
    /\ home = [k \in BBAddr |-> 0]
    /\ instrMap = [a \in Addr |-> None]
    /\ term = [b \in Block |-> Open]
    /\ insertBlock = Tracked(0)
    /\ first = 0
    /\ nextBB = 0
    /\ indBBs = {}
    /\ erased = {}

-----------------------------------------------------------------------------
(* "enter": choose the block of the instruction at addr.                   *)

\* Mutation: a function switches to itself.
AtNextFuncOrSelf == addr = nextFunc

\* A new function starts here: the current one ends.
AtNextFunc == addr # func /\ addr = nextFunc
AtEnd == addr = Size \/ AtNextFunc
AtNextBB == nextBB # 0 /\ addr = nextBB

\* Mutation: _nextBB is not moved on when a block is entered.
NextBBNotMoved == nextBB

\* _nextBB keeps its value when no block lies ahead.
NextBBAfterEntering ==
    LET next == NextBBAddr(OwnMap, addr)
    IN  IF next = None THEN nextBB ELSE next

StayInBlock ==
    /\ pc = "enter" /\ ~AtEnd /\ ~AtNextBB
    /\ pc' = "instr"
    /\ UNCHANGED <<input, funcVars, addr, bbVars, insertBlock, first, nextBB,
                   pending, indBBs, erased>>

\* Mutation: the block that is left gets no branch.
NothingClosed == term

\* The block that the walk leaves, if the last instruction did not close it,
\* branches to the one it enters.
CloseBehind ==
    IF Terminated(insertBlock)
    THEN term
    ELSE [term EXCEPT ![insertBlock] = BrTo({addr})]

EnterBlock ==
    /\ pc = "enter" /\ ~AtEnd /\ AtNextBB
    /\ addr \notin erased
    /\ NewBBs({addr})
    /\ term' = CloseBehind
    /\ insertBlock' = Tracked(addr)
    /\ nextBB' = NextBBAfterEntering
    /\ pc' = "instr"
    /\ UNCHANGED <<input, funcVars, addr, instrMap, first, pending, indBBs,
                   erased>>

\* The map still holds a block that finish() has erased: using it is undefined
\* behaviour, and nothing is said of what follows.
EnterErasedBlock ==
    /\ pc = "enter" /\ ~AtEnd /\ AtNextBB
    /\ addr \in erased
    /\ pc' = "undefined"
    /\ UNCHANGED <<input, funcVars, addr, bbVars, insertBlock, first, nextBB,
                   pending, indBBs, erased>>

-----------------------------------------------------------------------------
(* "instr": Instruction::translate, one action per kind of instruction.    *)

Op == code[addr].op
Target == code[addr].target

\* Function::updateNextBB, with the condition the code has.
UpdateNextBB(current, a) ==
    IF current <= a \/ a < current THEN a ELSE current

\* A disjunct of the translation of the instruction at addr.
Translating(ops) == pc = "instr" /\ Op \in ops /\ pc' = "record"

TranslatePlain ==
    /\ Translating({"plain"})
    /\ first' = insertBlock[1]
    /\ UNCHANGED <<input, funcVars, addr, bbVars, insertBlock, nextBB,
                   pending, indBBs, erased>>

\* An indirect call or a validated fcvt: the tracked block ends here, and the
\* insert point is left in the last untracked block of the region.
TranslateRegion ==
    /\ Translating({"region"})
    /\ term' = [term EXCEPT ![insertBlock] = RegionOf(addr)]
    /\ insertBlock' = Untracked(addr)
    /\ first' = insertBlock[1]
    /\ UNCHANGED <<input, funcVars, addr, bbMap, home, instrMap, nextBB,
                   pending, indBBs, erased>>

\* A return or a tail call, and an indirect jump: its destinations are added
\* by finish().
LeaveTerm == IF Op = "ret" THEN Ret ELSE IndBr

TranslateLeave ==
    /\ Translating({"ret", "ijump"})
    /\ term' = [term EXCEPT ![insertBlock] = LeaveTerm]
    /\ first' = insertBlock[1]
    /\ UNCHANGED <<input, funcVars, addr, bbMap, home, instrMap, insertBlock,
                   nextBB, pending, indBBs, erased>>

\* Mutation: the function found last is the next one.
LastFoundIsNext(next, fs, cur) ==
    LET nf == LowerBound(fs, next)
    IN  IF nf = None \/ nf < cur THEN nextFunc ELSE nf

\* SBTSection::updateNextFuncAddr, at address cur, with the functions fs.
UpdateNextFuncAddr(next, fs, cur) ==
    LET nf == LowerBound(fs, next)
    IN  IF nf = None \/ nf < cur \/ (nextFunc > cur /\ nextFunc < nf)
        THEN nextFunc
        ELSE nf

\* Function::getByAddr creates a function at a target it does not know.
TranslateCall ==
    /\ Translating({"call"})
    /\ funcs' = funcs \cup {Target}
    /\ nextFunc' = IF Target \in funcs
                   THEN nextFunc
                   ELSE UpdateNextFuncAddr(Target, funcs', addr)
    /\ first' = insertBlock[1]
    /\ UNCHANGED <<input, func, bodies, addr, bbVars, insertBlock, nextBB,
                   pending, indBBs, erased>>

(* Instruction::handleJump.                                                *)

\* "target basic block not found!", "instruction not found!": the block that
\* getBackBB returns does not hold the target.
BackTargetFound == instrMap[Target] = GetBackBB(OwnMap, Target)

\* The block wrapper of the target or of the next instruction was erased.
JumpUsesErased == {Target, addr + 1} \cap erased # {}

JumpTerm ==
    IF Op = "branch" THEN CondBrTo({Target, addr + 1}) ELSE BrTo({Target})

JumpForward ==
    /\ Translating(Jumps)
    /\ Target > addr
    /\ ~JumpUsesErased
    /\ NewBBs({Target, addr + 1})
    /\ nextBB' = LET afterTarget == IF Target \in bbMap
                                    THEN nextBB
                                    ELSE UpdateNextBB(nextBB, Target)
                 IN  UpdateNextBB(afterTarget, addr + 1)
    /\ term' = [term EXCEPT ![insertBlock] = JumpTerm]
    /\ first' = insertBlock[1]
    /\ UNCHANGED <<input, funcVars, addr, instrMap, insertBlock, pending,
                   indBBs, erased>>

\* The target starts a block.
JumpBack ==
    /\ Translating(Jumps)
    /\ Target < addr
    /\ BackTargetFound /\ ~JumpUsesErased
    /\ GetBackBB(OwnMap, Target) = Target
    /\ NewBBs({addr + 1})
    /\ nextBB' = UpdateNextBB(nextBB, addr + 1)
    /\ term' = [term EXCEPT ![insertBlock] = JumpTerm]
    /\ first' = insertBlock[1]
    /\ UNCHANGED <<input, funcVars, addr, instrMap, insertBlock, pending,
                   indBBs, erased>>

\* Mutation: the insert point stays in the top part of the split.
TopAfterSplit(b, t) == insertBlock

\* The insert point follows the instruction being translated to the bottom
\* part when the block that is split is the current one.
BlockAfterSplit(b, t) == IF insertBlock = Tracked(b) THEN Tracked(t)
                                                     ELSE insertBlock

\* The target is inside a block: split it there.
JumpBackSplit ==
    /\ Translating(Jumps)
    /\ Target < addr
    /\ BackTargetFound /\ ~JumpUsesErased
    /\ LET b == GetBackBB(OwnMap, Target)
       IN  /\ b # Target
           /\ bbMap' = bbMap \cup {Target, addr + 1}
           /\ home' = [k \in BBAddr |->
                        IF k = Target THEN home[b]
                        ELSE IF k \in {addr + 1} \ bbMap THEN func
                        ELSE home[k]]
           /\ instrMap' = SplitInstrs(instrMap, b, Target)
           /\ insertBlock' = BlockAfterSplit(b, Target)
           /\ term' = [SplitTerm(term, b, Target)
                         EXCEPT ![insertBlock'] = JumpTerm]
    /\ nextBB' = UpdateNextBB(nextBB, addr + 1)
    /\ first' = insertBlock'[1]
    /\ UNCHANGED <<input, funcVars, addr, pending, indBBs, erased>>

\* xassert of handleJump or split: a jump to itself, or a backward target that
\* the function's blocks do not hold.  The build without SBT_DEBUG goes on with
\* an iterator at the end of the map; neither outcome is followed further.
JumpAsserts ==
    /\ pc = "instr" /\ Op \in Jumps
    /\ Target = addr \/ (Target < addr /\ ~BackTargetFound)
    /\ pc' = "abort"
    /\ UNCHANGED <<input, funcVars, addr, bbVars, insertBlock, first, nextBB,
                   pending, indBBs, erased>>

JumpToErased ==
    /\ pc = "instr" /\ Op \in Jumps
    /\ Target > addr \/ (Target < addr /\ BackTargetFound)
    /\ JumpUsesErased
    /\ pc' = "undefined"
    /\ UNCHANGED <<input, funcVars, addr, bbVars, insertBlock, first, nextBB,
                   pending, indBBs, erased>>

-----------------------------------------------------------------------------
(* "record": bookkeeping after the instruction was translated.             *)

\* Mutations: a new block is opened in one of the two cases only.
NextBBIfUntracked(b, tm) ==
    IF IsUntracked(b) THEN UpdateNextBB(nextBB, addr + 1) ELSE nextBB
NextBBIfTerminated(b, tm) ==
    IF tm[b].kind # "none" THEN UpdateNextBB(nextBB, addr + 1) ELSE nextBB

\* When the instruction closed the block, or left the insert point in an
\* untracked one, the next instruction opens a block.
NextBBAfterRecording(b, tm) ==
    IF tm[b].kind # "none" \/ IsUntracked(b)
    THEN UpdateNextBB(nextBB, addr + 1)
    ELSE nextBB

Advance == pc = "record" /\ addr' = addr + 1 /\ pc' = "enter"

RecordInstr ==
    /\ Advance
    /\ addr \notin pending
    /\ instrMap' = [instrMap EXCEPT ![addr] = first]
    /\ nextBB' = NextBBAfterRecording(insertBlock, term)
    /\ UNCHANGED <<input, funcVars, bbMap, home, term, insertBlock, first,
                   pending, indBBs, erased>>

\* A data section refers to this instruction and it starts its block.
RecordLabel ==
    /\ Advance
    /\ addr \in pending
    /\ first = addr
    /\ instrMap' = [instrMap EXCEPT ![addr] = first]
    /\ pending' = pending \ {addr}
    /\ indBBs' = indBBs \cup {addr}
    /\ nextBB' = NextBBAfterRecording(insertBlock, term)
    /\ UNCHANGED <<input, funcVars, bbMap, home, term, insertBlock, first,
                   erased>>

\* A data section refers to this instruction and it does not start its block:
\* processPending splits the block and moves the insert point to the bottom
\* part, whichever block it was in.
RecordLabelSplit ==
    /\ Advance
    /\ addr \in pending
    /\ first # addr
    /\ bbMap' = bbMap \cup {addr}
    /\ home' = [home EXCEPT ![addr] = home[first]]
    /\ instrMap' = SplitInstrs([instrMap EXCEPT ![addr] = first], first, addr)
    /\ term' = SplitTerm(term, first, addr)
    /\ insertBlock' = Tracked(addr)
    /\ pending' = pending \ {addr}
    /\ indBBs' = indBBs \cup {addr}
    /\ nextBB' = NextBBAfterRecording(insertBlock', term')
    /\ UNCHANGED <<input, funcVars, first, erased>>

-----------------------------------------------------------------------------
(* Function::finish and the switch to a function found on the way.         *)

\* Mutation: the block that was left open gets no return.
FinishTermNoReturn ==
    [b \in Block |->
        IF term[b].kind = "indbr" /\ b[1] >= func
        THEN [kind |-> "indbr", succ |-> {Tracked(l) : l \in indBBs}]
        ELSE term[b]]

\* processIndirectBranches, and a return in the block that was left open.
FinishTerm ==
    [b \in Block |->
        IF term[b].kind = "indbr" /\ b[1] >= func
        THEN [kind |-> "indbr", succ |-> {Tracked(l) : l \in indBBs}]
        ELSE IF b = insertBlock /\ ~Terminated(b) THEN Ret ELSE term[b]]

IsEmptyBB(k, tm) ==
    /\ tm[Tracked(k)].kind = "none"
    /\ \A a \in Addr : instrMap[a] # k

\* Mutation: the last block is erased whatever it holds.
EraseLastBB(tm) == {Max(OwnMap)}

\* "last BB may be empty": its llvm block is erased, its map entry stays.
ErasedByFinish(tm) == {k \in {Max(OwnMap)} : IsEmptyBB(k, tm)}

Finish ==
    /\ pc = "enter" /\ AtEnd
    /\ term' = FinishTerm
    /\ erased' = erased \cup ErasedByFinish(term')
    /\ pc' = IF addr = Size THEN "done" ELSE "switch"
    /\ UNCHANGED <<input, funcVars, addr, bbMap, home, instrMap, insertBlock,
                   first, nextBB, pending, indBBs>>

\* transferBBs hands the blocks from addr on to the new function (they stay in
\* the llvm function that created them); SBTSection::translate looks for the
\* next function and Function::start takes or creates the first block.
StartNextFunction ==
    /\ pc = "switch"
    /\ func' = addr
    /\ bodies' = bodies \cup {addr}
    /\ nextFunc' = UpdateNextFuncAddr(addr + 1, funcs, addr)
    /\ nextBB' = LET next == NextBBAddr(bbMap, addr)
                 IN  IF next = None THEN 0 ELSE next
    /\ bbMap' = bbMap \cup {addr}
    /\ home' = [home EXCEPT ![addr] = IF addr \in bbMap THEN @ ELSE addr]
    /\ insertBlock' = Tracked(addr)
    /\ indBBs' = {}
    /\ pc' = IF addr \in erased THEN "undefined" ELSE "enter"
    /\ UNCHANGED <<input, funcs, addr, instrMap, term, first, pending, erased>>

-----------------------------------------------------------------------------
EnterStep == StayInBlock \/ EnterBlock \/ EnterErasedBlock
InstrStep ==
    \/ TranslatePlain \/ TranslateRegion \/ TranslateLeave \/ TranslateCall
    \/ JumpForward \/ JumpBack \/ JumpBackSplit \/ JumpAsserts \/ JumpToErased
RecordStep == RecordInstr \/ RecordLabel \/ RecordLabelSplit

Next == EnterStep \/ InstrStep \/ RecordStep \/ Finish \/ StartNextFunction

\* The translator is sequential and waits for nothing: a step that can be
\* taken is taken.
Spec == Init /\ [][Next]_vars
FairSpec == Spec /\ WF_vars(Next)

-----------------------------------------------------------------------------
(* Type invariant: every variable has the type the C++ member has, and the *)
(* walk never leaves the range.                                            *)
TypeOK ==
    /\ code \in [Addr -> Instr] /\ labels \subseteq Addr
    /\ pc \in {"enter", "instr", "record", "switch", "done",
               "abort", "undefined"}
    /\ func \in Addr /\ bodies \subseteq Addr /\ funcs \subseteq Addr
    /\ nextFunc \in Addr
    /\ addr \in BBAddr
    /\ bbMap \subseteq BBAddr
    /\ home \in [BBAddr -> Addr]
    /\ instrMap \in [Addr -> BBAddr \cup {None}]
    /\ term \in [Block -> Term]
    /\ insertBlock \in Block
    /\ first \in BBAddr
    /\ nextBB \in BBAddr
    /\ pending \subseteq Addr
    /\ indBBs \subseteq Addr
    /\ erased \subseteq BBAddr

(* Safety: each translated instruction is in the block of the nearest      *)
(* start at or below it.  So no block boundary is walked over, a split     *)
(* moves exactly the tail of a block, and a jump to a block start never    *)
(* executes an instruction before its target.                              *)
BlocksPartitionCode ==
    \A a \in Addr :
        IF a < addr THEN instrMap[a] = Max(AtOrBefore(bbMap, a))
                    ELSE instrMap[a] = None

(* Safety: an instruction is always translated into a tracked block that   *)
(* is still open and starts at or before it: IR never follows a terminator *)
(* and an untracked block, which could not be split, never holds code of   *)
(* two instructions.                                                       *)
InsertBlockOpen ==
    pc = "instr" => /\ ~IsUntracked(insertBlock)
                    /\ ~Terminated(insertBlock)
                    /\ insertBlock[1] = Max(AtOrBefore(OwnMap, addr))

(* Safety: the assertions of handleJump and split ("target basic block not *)
(* found!", "instruction not found!") can only fail for a jump to itself   *)
(* or to an instruction before the function.                               *)
BackTargetsFound ==
    pc = "abort" => Target = addr \/ Target < func

-----------------------------------------------------------------------------
(* The inductive invariant of the walk.                                    *)

\* k starts the nearest block at or below a.
Nearest(k, a) == /\ k \in bbMap /\ k <= a
                 /\ \A j \in bbMap : j <= a => j <= k

\* _nextBB is not past any block start from a on.
NextBBNotPast(a) == \A k \in bbMap : k >= a => nextBB >= a /\ nextBB <= k

\* Nothing was emitted into the blocks from a on.
OpenFrom(a) == \A k \in BBAddr : k >= a => term[Tracked(k)] = Open

CodeInv ==
    \A a \in Addr : IF a < addr THEN Nearest(instrMap[a], a)
                                ELSE instrMap[a] = None

LabelInv == \A l \in labels \ pending : l \in bbMap /\ l < addr

FuncInv ==
    /\ func \in bbMap /\ func <= addr
    /\ pc \in {"instr", "record", "switch"} => addr < Size
    /\ pc = "switch" => func < addr
    /\ pc = "abort" => Target = addr \/ Target < func

\* Before an instruction.  Right after Function::start nothing is known to be
\* ahead but the blocks that were handed over; later, either _nextBB is the
\* instruction at hand or the insert block goes on with it.
EnterInv ==
    pc = "enter" =>
        /\ OpenFrom(addr)
        /\ IF addr = func
           THEN /\ insertBlock = Tracked(func)
                /\ nextBB = 0 \/ nextBB > addr
                /\ NextBBNotPast(addr + 1)
           ELSE /\ insertBlock[1] < addr
                /\ NextBBNotPast(addr)
                /\ nextBB # addr => /\ ~IsUntracked(insertBlock)
                                   /\ ~Terminated(insertBlock)
                                   /\ insertBlock[1] >= func
                                   /\ Nearest(insertBlock[1], addr)

InstrInv ==
    pc = "instr" =>
        /\ OpenFrom(addr + 1)
        /\ NextBBNotPast(addr + 1)
        /\ ~IsUntracked(insertBlock)
        /\ ~Terminated(insertBlock)
        /\ insertBlock[1] >= func
        /\ Nearest(insertBlock[1], addr)

RecordInv ==
    pc = "record" =>
        /\ OpenFrom(addr + 1)
        /\ NextBBNotPast(addr + 1)
        /\ first >= func
        /\ Nearest(first, addr)
        /\ insertBlock \in {Tracked(first), Untracked(addr)}

SwitchInv == pc = "switch" => OpenFrom(addr)

(* Safety: the state of the walk between two steps.  Each conjunct is what *)
(* the next step needs to put the next instruction in the right block.     *)
WalkInv ==
    /\ TypeOK
    /\ CodeInv /\ LabelInv /\ FuncInv
    /\ EnterInv /\ InstrInv /\ RecordInv /\ SwitchInv

-----------------------------------------------------------------------------
(* The finished function against the guest's control flow.                 *)

\* The block in which control leaves instruction a.
ExitBlock(a) == IF code[a].op = "region" THEN Untracked(a)
                                         ELSE Tracked(instrMap[a])

GuestSucc(a) == SuccOf(code, labels, bodies, a)
EndsBlock(a) == a + 1 = Size \/ instrMap[a + 1] # instrMap[a]

(* Safety: when translation is done, the host control-flow graph is the    *)
(* guest's.  Where a block ends, its terminator leads exactly to the       *)
(* guest's successors (an indirect branch to every label of its function   *)
(* that data refers to); inside a block control falls through.             *)
EdgesFollowGuest ==
    pc = "done" =>
        \A a \in Addr :
            IF EndsBlock(a)
            THEN /\ Terminated(ExitBlock(a))
                 /\ term[ExitBlock(a)].succ =
                        {Tracked(s) : s \in GuestSucc(a)}
            ELSE code[a].op \in {"plain", "call"}

(* Safety: the blocks built on the fly, ahead of the walk and behind it,   *)
(* are the basic blocks of the guest code: no leader is missed and no      *)
(* block is cut that need not be.                                          *)
BlocksAreLeaders == pc = "done" => bbMap \cap Addr = LeadersOf(code, labels, bodies)

(* Comment in translateInstrs: "if last instruction did not terminate the   *)
(* BB, then branch from previous BB to current one".  When an instruction  *)
(* is translated into another block than the one before it, control of the *)
(* one before has somewhere to go.                                         *)
OpenBlocksAreBranchedFrom ==
    pc = "instr" /\ addr > func /\ insertBlock # Tracked(instrMap[addr - 1])
        => Terminated(ExitBlock(addr - 1))

(* Comment in Function::translate: "transfer unfinished BBs to new         *)
(* function".  The blocks that the new function goes on with exist.        *)
UnfinishedBlocksTransferred == pc # "undefined"

(* Safety: no block that finish() erased is used afterwards: neither       *)
(* entered, nor the target of a branch that stays in the module.           *)
NoUseOfErased ==
    /\ pc # "undefined"
    /\ pc = "done" => \A b \in Block : \A k \in erased :
                        Tracked(k) \notin term[b].succ

\* The llvm function of a block; a region belongs to its instruction's.
HomeOf(b) == IF IsUntracked(b) THEN home[instrMap[b[1]]] ELSE home[b[1]]

\* The region of the instruction being translated is in no block's map yet.
Homed == {b \in Block : IsUntracked(b) => b[1] \in Addr /\ instrMap[b[1]] # None}

(* Safety: a branch never leaves its llvm function.                        *)
BranchesStayHome ==
    \A b \in Homed : \A s \in term[b].succ \cap Homed : HomeOf(s) = HomeOf(b)

(* Safety: every function that a call has discovered ahead of it receives  *)
(* a body.                                                                 *)
DiscoveredFunctionsTranslated ==
    pc = "done" =>
        \A a \in Addr : code[a].op = "call" /\ code[a].target > a =>
            code[a].target \in bodies

(* Action: a split only refines the blocks: a block start stays one, so an *)
(* address a jump table was patched with remains the start of its label's  *)
(* block.                                                                  *)
LabelsStartBlocks ==
    \A l \in labels \ pending' : l \in bbMap' /\ instrMap'[l] = l

LabelsStayBlockStarts == [][LabelsStartBlocks]_vars

\* The part of an iteration that is still ahead, the switch to another function
\* included, which can only come before its first instruction.
PhasesLeft ==
    IF pc = "enter" THEN (IF addr = func THEN 3 ELSE 5)
    ELSE IF pc = "switch" THEN 4
    ELSE IF pc = "instr" THEN 2
    ELSE IF pc = "record" THEN 1 ELSE 0

\* A bound on the steps that translate still takes.
Remaining == 6 * (Size - addr) + PhasesLeft

(* Action: every step brings the walk nearer to its end.  No split takes   *)
(* the walk back, and no function is switched to twice, although calls     *)
(* find functions behind and ahead of the walk.                            *)
StepsApproachTheEnd == [][0 <= Remaining' /\ Remaining' < Remaining]_vars

(* Liveness: translation of a function comes to an end.                    *)
TranslationEnds == <>(pc \in {"done", "abort", "undefined"})
=============================================================================
