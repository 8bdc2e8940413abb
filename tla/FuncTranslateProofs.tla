------------------------ MODULE FuncTranslateProofs ------------------------
(***************************************************************************)
(* The walk of Function::translate, for every guest function and every set *)
(* of labels: WalkInv is inductive, and what follows from it.              *)
(***************************************************************************)
EXTENDS FuncTranslate, BBMapProofs

\* What a block's terminator and the blocks themselves are made of.
LEMMA BlockFacts ==
    /\ \A a \in BBAddr : Tracked(a) \in Block /\ Untracked(a) \in Block
    /\ \A b \in Block : b[1] \in BBAddr /\ b = <<b[1], b[2]>>
    /\ \A b \in Block : ~IsUntracked(b) => b = Tracked(b[1])
    /\ \A a \in BBAddr : Tracked(a)[1] = a /\ Untracked(a)[1] = a
    /\ \A a \in BBAddr : ~IsUntracked(Tracked(a)) /\ IsUntracked(Untracked(a))
<1>1. \A b \in Block : b \in BBAddr \X BOOLEAN
  BY DEF Block
<1>2. \A b \in Block : b[1] \in BBAddr /\ b[2] \in BOOLEAN /\ b = <<b[1], b[2]>>
  BY <1>1
<1>3. \A b \in Block : ~IsUntracked(b) => b = Tracked(b[1])
  BY <1>2 DEF Tracked, IsUntracked
<1> QED BY <1>2, <1>3 DEF Block, Tracked, Untracked, IsUntracked

\* The addresses of instructions and of block starts are integers of the range.
LEMMA AddrFacts ==
    /\ Size \in Nat /\ 0 \in Addr /\ Addr \subseteq BBAddr
    /\ BBAddr \subseteq Nat
    /\ \A a \in Addr : a + 1 \in BBAddr
    /\ \A a \in BBAddr : a # Size => a \in Addr
BY SizeAssumption DEF Addr, BBAddr

\* The terminators that the actions write.
LEMMA TermFacts ==
    /\ Open \in Term /\ Ret \in Term /\ IndBr \in Term
    /\ \A a \in BBAddr : RegionOf(a) \in Term
    /\ \A S \in SUBSET BBAddr : BrTo(S) \in Term /\ CondBrTo(S) \in Term
<1>1. \A S \in SUBSET BBAddr : {Tracked(a) : a \in S} \subseteq Block
  BY BlockFacts
<1>2. \A a \in BBAddr : {Untracked(a)} \subseteq Block
  BY BlockFacts
<1> QED BY <1>1, <1>2 DEF Open, Ret, IndBr, RegionOf, BrTo, CondBrTo, Term

\* The first state is that of Function::start.
LEMMA InitWalk == Init => WalkInv
<1> SUFFICES ASSUME Init PROVE WalkInv
  OBVIOUS
<1>1. code \in [Addr -> Instr] /\ labels \subseteq Addr
  BY CodeAssumption DEF Init
<1>2. TypeOK
  BY <1>1, AddrFacts, BlockFacts, TermFacts DEF Init, TypeOK
<1>3. CodeInv
  BY AddrFacts DEF Init, CodeInv, Addr
<1>4. LabelInv /\ FuncInv
  BY DEF Init, LabelInv, FuncInv
<1>5. EnterInv
  BY AddrFacts, BlockFacts
  DEF Init, EnterInv, OpenFrom, NextBBNotPast
<1>6. InstrInv /\ RecordInv /\ SwitchInv
  BY DEF Init, InstrInv, RecordInv, SwitchInv
<1> QED BY <1>2, <1>3, <1>4, <1>5, <1>6 DEF WalkInv

\* An instruction that goes on in the current block.
LEMMA StayInBlockWalk == WalkInv /\ StayInBlock => WalkInv'
<1> SUFFICES ASSUME WalkInv, StayInBlock PROVE WalkInv'
  OBVIOUS
<1> USE DEF input, funcVars, bbVars
<1>1. TypeOK'
  BY DEF WalkInv, StayInBlock, TypeOK
<1>2. CodeInv'
  BY DEF WalkInv, StayInBlock, CodeInv, Nearest
<1>3. LabelInv'
  BY DEF WalkInv, StayInBlock, LabelInv
<1>4. FuncInv'
  BY AddrFacts DEF WalkInv, StayInBlock, FuncInv, AtEnd, TypeOK, BBAddr
<1>5. InstrInv'
  <2>1. /\ OpenFrom(addr + 1) /\ NextBBNotPast(addr + 1)
        /\ ~IsUntracked(insertBlock) /\ ~Terminated(insertBlock)
        /\ insertBlock[1] >= func /\ Nearest(insertBlock[1], addr)
    <3>1. CASE addr = func
      <4>1. insertBlock = Tracked(addr) /\ term[insertBlock] = Open
        BY <3>1, AddrFacts, BlockFacts
        DEF WalkInv, StayInBlock, EnterInv, OpenFrom, TypeOK
      <4>2. Nearest(addr, addr)
        BY <3>1, AddrFacts DEF WalkInv, FuncInv, Nearest, TypeOK
      <4>3. OpenFrom(addr + 1) /\ NextBBNotPast(addr + 1)
        BY <3>1, AddrFacts
        DEF WalkInv, StayInBlock, EnterInv, OpenFrom, TypeOK
      <4>4. ~IsUntracked(insertBlock) /\ insertBlock[1] = addr
        BY <4>1, AddrFacts, BlockFacts DEF WalkInv, TypeOK
      <4>5. addr >= func
        BY <3>1, AddrFacts DEF WalkInv, TypeOK
      <4> QED
        BY <4>1, <4>2, <4>3, <4>4, <4>5 DEF Terminated, Open
    <3>2. CASE addr # func
      <4>1. addr # nextBB
        BY <3>2, AddrFacts DEF WalkInv, StayInBlock, AtNextBB, FuncInv, TypeOK
      <4>2. NextBBNotPast(addr + 1)
        BY <3>2, <4>1, AddrFacts
        DEF WalkInv, StayInBlock, EnterInv, NextBBNotPast, TypeOK
      <4> QED
        BY <3>2, <4>1, <4>2, AddrFacts
        DEF WalkInv, StayInBlock, EnterInv, OpenFrom, TypeOK
    <3> QED BY <3>1, <3>2
  <2> QED BY <2>1 DEF StayInBlock, InstrInv, OpenFrom, NextBBNotPast,
                      Terminated, Nearest
<1>6. EnterInv' /\ RecordInv' /\ SwitchInv'
  BY DEF StayInBlock, EnterInv, RecordInv, SwitchInv
<1> QED BY <1>1, <1>2, <1>3, <1>4, <1>5, <1>6 DEF WalkInv

\* newBB keeps the map and the home of the blocks well typed.
LEMMA NewBBsType ==
    ASSUME TypeOK, NEW S, S \subseteq BBAddr, NewBBs(S)
    PROVE  bbMap' \subseteq BBAddr /\ home' \in [BBAddr -> Addr]
BY DEF TypeOK, NewBBs

\* An instruction that opens the block that _nextBB announces.
LEMMA EnterBlockWalk == WalkInv /\ EnterBlock => WalkInv'
<1> SUFFICES ASSUME WalkInv, EnterBlock PROVE WalkInv'
  OBVIOUS
<1> USE DEF input, funcVars
<1>0. /\ TypeOK /\ addr \in Addr /\ addr \in Nat
      /\ addr # func /\ func <= addr /\ insertBlock[1] < addr
      /\ OpenFrom(addr) /\ bbMap \subseteq Nat /\ func \in Nat
  BY AddrFacts
  DEF WalkInv, EnterBlock, AtEnd, AtNextBB, EnterInv, FuncInv, TypeOK
<1>1. \/ nextBB' = nextBB /\ \A k \in bbMap : k <= addr
      \/ /\ nextBB' \in bbMap /\ nextBB' >= addr + 1
         /\ \A k \in bbMap : k >= addr + 1 => nextBB' <= k
  <2>1. OwnMap \subseteq bbMap
    BY DEF OwnMap, AtOrAfter
  <2>2. OwnMap \subseteq Nat /\ addr + 1 \in Nat
    BY <1>0, <2>1
  <2>3. \A k \in bbMap : k >= addr + 1 => k \in OwnMap
    BY <1>0 DEF OwnMap, AtOrAfter
  <2> DEFINE next == LowerBound(OwnMap, addr + 1)
  <2>4. nextBB' = IF next = None THEN nextBB ELSE next
    BY DEF EnterBlock, NextBBAfterEntering, NextBBAddr
  <2>5. \/ next = None /\ \A k \in OwnMap : k < addr + 1
        \/ /\ next \in OwnMap /\ next >= addr + 1
           /\ \A k \in OwnMap : k >= addr + 1 => next <= k
    BY <2>2, LowerBoundFound
  <2> HIDE DEF next
  <2>6. CASE next = None
    <3>1. \A k \in OwnMap : k < addr + 1
      BY <1>0, <2>2, <2>5, <2>6 DEF None
    <3>2. \A k \in bbMap : k <= addr
      BY <1>0, <2>2, <2>3, <3>1
    <3> QED BY <2>4, <2>6, <3>2
  <2>7. CASE next # None
    BY <2>1, <2>3, <2>4, <2>5, <2>7
  <2> QED BY <2>6, <2>7
<1>2. TypeOK'
  <2>1. bbMap' \subseteq BBAddr /\ home' \in [BBAddr -> Addr]
    BY <1>0, NewBBsType, AddrFacts DEF EnterBlock
  <2>2. term' \in [Block -> Term]
    BY <1>0, TermFacts, AddrFacts DEF EnterBlock, CloseBehind, TypeOK
  <2>3. nextBB' \in BBAddr /\ insertBlock' \in Block
    BY <1>0, <1>1, BlockFacts, AddrFacts DEF EnterBlock, TypeOK
  <2> QED BY <1>0, <2>1, <2>2, <2>3 DEF EnterBlock, TypeOK
<1>3. bbMap' = bbMap \cup {addr}
  BY DEF EnterBlock, NewBBs
<1>4. CodeInv'
  BY <1>0, <1>3, AddrFacts DEF WalkInv, EnterBlock, CodeInv, Nearest
<1>5. LabelInv'
  BY <1>3 DEF WalkInv, EnterBlock, LabelInv
<1>6. FuncInv'
  BY <1>0, <1>3, AddrFacts DEF WalkInv, EnterBlock, FuncInv, Addr
<1>7. InstrInv'
  <2>1. \A k \in BBAddr : k >= addr => term'[Tracked(k)] = Open
    <3>1. \A k \in BBAddr : k >= addr => Tracked(k) # insertBlock
      BY <1>0, BlockFacts, AddrFacts
    <3> QED BY <1>0, <3>1, BlockFacts
            DEF EnterBlock, CloseBehind, OpenFrom, TypeOK
  <2>2. OpenFrom(addr + 1)'
    BY <1>0, <2>1, AddrFacts DEF EnterBlock, OpenFrom
  <2>3. NextBBNotPast(addr + 1)'
    BY <1>0, <1>1, <1>3 DEF EnterBlock, NextBBNotPast
  <2>4. /\ ~IsUntracked(insertBlock') /\ insertBlock'[1] = addr
        /\ ~Terminated(insertBlock)'
    BY <1>0, <2>1, BlockFacts, AddrFacts DEF EnterBlock, Terminated, Open
  <2>5. Nearest(insertBlock[1], addr)'
    BY <1>0, <1>3, <2>4 DEF EnterBlock, Nearest
  <2>6. (insertBlock[1] >= func)'
    BY <1>0, <2>4 DEF EnterBlock
  <2> QED BY <2>2, <2>3, <2>4, <2>5, <2>6 DEF InstrInv, IsUntracked
<1>8. EnterInv' /\ RecordInv' /\ SwitchInv'
  BY DEF EnterBlock, EnterInv, RecordInv, SwitchInv
<1> QED BY <1>2, <1>4, <1>5, <1>6, <1>7, <1>8 DEF WalkInv

\* Entering an erased block: nothing is said of what follows.
LEMMA EnterErasedBlockWalk == WalkInv /\ EnterErasedBlock => WalkInv'
<1> SUFFICES ASSUME WalkInv, EnterErasedBlock PROVE WalkInv'
  OBVIOUS
<1> USE DEF input, funcVars, bbVars
<1>1. TypeOK'
  BY DEF WalkInv, EnterErasedBlock, TypeOK
<1>2. CodeInv' /\ LabelInv' /\ FuncInv'
  BY DEF WalkInv, EnterErasedBlock, CodeInv, Nearest, LabelInv, FuncInv
<1>3. EnterInv' /\ InstrInv' /\ RecordInv' /\ SwitchInv'
  BY DEF EnterErasedBlock, EnterInv, InstrInv, RecordInv, SwitchInv
<1> QED BY <1>1, <1>2, <1>3 DEF WalkInv

\* What every translated instruction relies on.
LEMMA InstrFacts ==
    ASSUME WalkInv, pc = "instr"
    PROVE  /\ TypeOK /\ addr \in Addr /\ addr \in Nat /\ func \in Nat
           /\ bbMap \subseteq Nat /\ func <= addr
           /\ insertBlock = Tracked(insertBlock[1])
           /\ insertBlock[1] \in BBAddr /\ insertBlock[1] >= func
           /\ Nearest(insertBlock[1], addr)
           /\ OpenFrom(addr + 1) /\ NextBBNotPast(addr + 1)
           /\ Target \in Addr
<1>1. TypeOK /\ addr < Size /\ func <= addr
  BY DEF WalkInv, FuncInv
<1>2. addr \in Addr /\ addr \in Nat /\ func \in Nat /\ bbMap \subseteq Nat
  BY <1>1, AddrFacts DEF TypeOK
<1>3. Target \in Addr
  BY <1>1, <1>2 DEF TypeOK, Target, Instr
<1>4. insertBlock = Tracked(insertBlock[1]) /\ insertBlock[1] \in BBAddr
  BY <1>1, BlockFacts DEF WalkInv, InstrInv, TypeOK
<1> QED BY <1>1, <1>2, <1>3, <1>4 DEF WalkInv, InstrInv

\* An instruction that stays in its block.
LEMMA TranslatePlainWalk == WalkInv /\ TranslatePlain => WalkInv'
<1> SUFFICES ASSUME WalkInv, TranslatePlain PROVE WalkInv'
  OBVIOUS
<1> USE DEF input, funcVars, bbVars, Translating
<1>0. pc = "instr"
  BY DEF TranslatePlain
<1>1. TypeOK'
  BY <1>0, InstrFacts DEF TranslatePlain, TypeOK
<1>2. CodeInv' /\ LabelInv'
  BY DEF WalkInv, TranslatePlain, CodeInv, Nearest, LabelInv
<1>3. FuncInv'
  BY <1>0 DEF WalkInv, TranslatePlain, FuncInv
<1>4. RecordInv'
  BY <1>0, InstrFacts
  DEF TranslatePlain, RecordInv, OpenFrom, NextBBNotPast, Nearest
<1>5. EnterInv' /\ InstrInv' /\ SwitchInv'
  BY DEF TranslatePlain, EnterInv, InstrInv, SwitchInv
<1> QED BY <1>1, <1>2, <1>3, <1>4, <1>5 DEF WalkInv

\* A call that creates a function changes nothing but the list of functions.
LEMMA TranslateCallWalk == WalkInv /\ TranslateCall => WalkInv'
<1> SUFFICES ASSUME WalkInv, TranslateCall PROVE WalkInv'
  OBVIOUS
<1> USE DEF input, bbVars, Translating
<1>0. pc = "instr"
  BY DEF TranslateCall
<1>1. funcs' \subseteq Addr /\ nextFunc' \in Addr
  <2>1. funcs' \subseteq Addr /\ funcs' \subseteq Nat /\ Target \in Nat
    BY <1>0, InstrFacts, AddrFacts DEF TranslateCall, TypeOK
  <2> DEFINE nf == LowerBound(funcs', Target)
  <2>2. nf = None \/ nf \in funcs'
    BY <2>1, LowerBoundFound
  <2>3. nextFunc' \in {nextFunc, nf} /\ (nf = None => nextFunc' = nextFunc)
    BY DEF TranslateCall, UpdateNextFuncAddr
  <2> HIDE DEF nf
  <2> QED BY <1>0, <2>1, <2>2, <2>3, InstrFacts DEF TypeOK
<1>2. TypeOK'
  BY <1>0, <1>1, InstrFacts DEF TranslateCall, TypeOK
<1>3. CodeInv' /\ LabelInv'
  BY DEF WalkInv, TranslateCall, CodeInv, Nearest, LabelInv
<1>4. FuncInv'
  BY <1>0 DEF WalkInv, TranslateCall, FuncInv
<1>5. RecordInv'
  BY <1>0, InstrFacts
  DEF TranslateCall, RecordInv, OpenFrom, NextBBNotPast, Nearest
<1>6. EnterInv' /\ InstrInv' /\ SwitchInv'
  BY DEF TranslateCall, EnterInv, InstrInv, SwitchInv
<1> QED BY <1>2, <1>3, <1>4, <1>5, <1>6 DEF WalkInv

\* Closing the insert block leaves the blocks ahead open.
LEMMA CloseKeepsOpen ==
    ASSUME WalkInv, pc = "instr", NEW t \in Term,
           term' = [term EXCEPT ![insertBlock] = t], addr' = addr
    PROVE  term' \in [Block -> Term] /\ OpenFrom(addr + 1)'
<1>1. \A k \in BBAddr : k >= addr + 1 => Tracked(k) # insertBlock
  BY InstrFacts, BlockFacts, AddrFacts DEF Nearest
<1> QED BY <1>1, InstrFacts, BlockFacts DEF OpenFrom, TypeOK

\* An instruction that leaves the insert point in an untracked block.
LEMMA TranslateRegionWalk == WalkInv /\ TranslateRegion => WalkInv'
<1> SUFFICES ASSUME WalkInv, TranslateRegion PROVE WalkInv'
  OBVIOUS
<1> USE DEF input, funcVars, Translating
<1>0. pc = "instr"
  BY DEF TranslateRegion
<1>1. term' \in [Block -> Term] /\ OpenFrom(addr + 1)'
  BY <1>0, InstrFacts, TermFacts, AddrFacts, CloseKeepsOpen
  DEF TranslateRegion
<1>2. TypeOK'
  BY <1>0, <1>1, InstrFacts, BlockFacts, AddrFacts
  DEF TranslateRegion, TypeOK
<1>3. CodeInv' /\ LabelInv'
  BY DEF WalkInv, TranslateRegion, CodeInv, Nearest, LabelInv
<1>4. FuncInv'
  BY <1>0 DEF WalkInv, TranslateRegion, FuncInv
<1>5. RecordInv'
  BY <1>0, <1>1, InstrFacts
  DEF TranslateRegion, RecordInv, NextBBNotPast, Nearest, Untracked
<1>6. EnterInv' /\ InstrInv' /\ SwitchInv'
  BY DEF TranslateRegion, EnterInv, InstrInv, SwitchInv
<1> QED BY <1>2, <1>3, <1>4, <1>5, <1>6 DEF WalkInv

\* A return or an indirect jump closes the block.
LEMMA TranslateLeaveWalk == WalkInv /\ TranslateLeave => WalkInv'
<1> SUFFICES ASSUME WalkInv, TranslateLeave PROVE WalkInv'
  OBVIOUS
<1> USE DEF input, funcVars, Translating
<1>0. pc = "instr"
  BY DEF TranslateLeave
<1>1. term' \in [Block -> Term] /\ OpenFrom(addr + 1)'
  BY <1>0, TermFacts, CloseKeepsOpen DEF TranslateLeave, LeaveTerm
<1>2. TypeOK'
  BY <1>0, <1>1, InstrFacts DEF TranslateLeave, TypeOK
<1>3. CodeInv' /\ LabelInv'
  BY DEF WalkInv, TranslateLeave, CodeInv, Nearest, LabelInv
<1>4. FuncInv'
  BY <1>0 DEF WalkInv, TranslateLeave, FuncInv
<1>5. RecordInv'
  BY <1>0, <1>1, InstrFacts
  DEF TranslateLeave, RecordInv, NextBBNotPast, Nearest
<1>6. EnterInv' /\ InstrInv' /\ SwitchInv'
  BY DEF TranslateLeave, EnterInv, InstrInv, SwitchInv
<1> QED BY <1>2, <1>3, <1>4, <1>5, <1>6 DEF WalkInv

\* The condition of updateNextBB is always true: it is an assignment.
LEMMA UpdateNextBBAssigns ==
    ASSUME NEW current \in Nat, NEW a \in Nat
    PROVE  UpdateNextBB(current, a) = a
BY DEF UpdateNextBB

\* getBackBB finds the block that holds a target inside the function.
LEMMA BackTargetInFunc ==
    ASSUME WalkInv, pc = "instr", Target < addr, Target >= func
    PROVE  BackTargetFound
<1>0. /\ Target \in Addr /\ Target \in Nat /\ func \in Nat
      /\ bbMap \subseteq Nat /\ func \in bbMap
  BY InstrFacts, AddrFacts DEF WalkInv, FuncInv
<1> DEFINE k == instrMap[Target]
<1>1. Nearest(k, Target)
  BY <1>0 DEF WalkInv, CodeInv
<1>2. k \in bbMap /\ k <= Target /\ \A j \in bbMap : j <= Target => j <= k
  BY <1>1 DEF Nearest
<1> HIDE DEF k
<1>3. OwnMap \subseteq bbMap /\ k \in OwnMap
  BY <1>0, <1>2 DEF OwnMap, AtOrAfter
<1>4. GetBackBB(OwnMap, Target) = k
  BY <1>0, <1>2, <1>3, GetBackBBIsNearest
<1> QED BY <1>4 DEF BackTargetFound, k

\* The assertions of handleJump fail for nothing but the two known targets.
LEMMA JumpAssertsWalk == WalkInv /\ JumpAsserts => WalkInv'
<1> SUFFICES ASSUME WalkInv, JumpAsserts PROVE WalkInv'
  OBVIOUS
<1> USE DEF input, funcVars, bbVars
<1>0. pc = "instr"
  BY DEF JumpAsserts
<1>1. TypeOK'
  BY DEF WalkInv, JumpAsserts, TypeOK
<1>2. CodeInv' /\ LabelInv'
  BY DEF WalkInv, JumpAsserts, CodeInv, Nearest, LabelInv
<1>3. FuncInv'
  <2>1. Target = addr \/ (Target < addr /\ ~BackTargetFound)
    BY DEF JumpAsserts
  <2>2. Target < addr /\ ~BackTargetFound => ~(Target >= func)
    BY <1>0, BackTargetInFunc
  <2>3. Target \in Nat /\ func \in Nat
    BY <1>0, InstrFacts, AddrFacts
  <2> QED BY <2>1, <2>2, <2>3 DEF WalkInv, JumpAsserts, FuncInv, Target
<1>4. EnterInv' /\ InstrInv' /\ RecordInv' /\ SwitchInv'
  BY DEF JumpAsserts, EnterInv, InstrInv, RecordInv, SwitchInv
<1> QED BY <1>1, <1>2, <1>3, <1>4 DEF WalkInv

\* A jump that uses an erased block: nothing is said of what follows.
LEMMA JumpToErasedWalk == WalkInv /\ JumpToErased => WalkInv'
<1> SUFFICES ASSUME WalkInv, JumpToErased PROVE WalkInv'
  OBVIOUS
<1> USE DEF input, funcVars, bbVars
<1>1. TypeOK'
  BY DEF WalkInv, JumpToErased, TypeOK
<1>2. CodeInv' /\ LabelInv' /\ FuncInv'
  BY DEF WalkInv, JumpToErased, CodeInv, Nearest, LabelInv, FuncInv
<1>3. EnterInv' /\ InstrInv' /\ RecordInv' /\ SwitchInv'
  BY DEF JumpToErased, EnterInv, InstrInv, RecordInv, SwitchInv
<1> QED BY <1>1, <1>2, <1>3 DEF WalkInv

\* The terminator of a jump leads to blocks of the range.
LEMMA JumpTermType ==
    ASSUME Target \in BBAddr, addr + 1 \in BBAddr PROVE JumpTerm \in Term
<1>1. {Target, addr + 1} \in SUBSET BBAddr /\ {Target} \in SUBSET BBAddr
  OBVIOUS
<1> QED BY <1>1, TermFacts DEF JumpTerm

\* Blocks that are created past a0 change no nearest start up to it.
LEMMA NewBBsAhead ==
    ASSUME bbMap \subseteq Nat, NEW a0 \in Nat,
           NEW S, S \subseteq Nat, \A k \in S : k > a0,
           bbMap' = bbMap \cup S
    PROVE  \A a \in Nat, k \in Nat :
              a <= a0 /\ Nearest(k, a) =>
                k \in bbMap' /\ k <= a /\ \A j \in bbMap' : j <= a => j <= k
<1> SUFFICES ASSUME NEW a \in Nat, NEW k \in Nat, a <= a0, Nearest(k, a),
                    NEW j \in bbMap', j <= a
             PROVE  j <= k
  BY DEF Nearest
<1>1. j \notin S
  OBVIOUS
<1> QED BY <1>1 DEF Nearest

\* The translated instructions stay in their blocks.
LEMMA NewBBsKeepCode ==
    ASSUME WalkInv, pc = "instr", addr' = addr, instrMap' = instrMap,
           NEW S, S \subseteq Nat, \A k \in S : k > addr,
           bbMap' = bbMap \cup S
    PROVE  CodeInv'
<1>0. bbMap \subseteq Nat /\ addr \in Nat /\ Addr \subseteq Nat
  BY InstrFacts, AddrFacts
<1> SUFFICES ASSUME NEW a \in Addr
             PROVE  IF a < addr THEN Nearest(instrMap[a], a)'
                                ELSE instrMap'[a] = None
  BY DEF CodeInv
<1>1. CASE a < addr
  <2>1. Nearest(instrMap[a], a) /\ instrMap[a] \in Nat
    BY <1>0, <1>1 DEF WalkInv, CodeInv, Nearest
  <2>2. a \in Nat /\ a <= addr
    BY <1>0, <1>1
  <2> DEFINE k == instrMap[a]
  <2> HIDE DEF k
  <2>3. k \in bbMap' /\ k <= a /\ \A j \in bbMap' : j <= a => j <= k
    BY <1>0, <2>1, <2>2, NewBBsAhead DEF k
  <2> QED BY <1>1, <2>3 DEF Nearest, k
<1>2. CASE ~(a < addr)
  BY <1>2 DEF WalkInv, CodeInv
<1> QED BY <1>1, <1>2

\* A forward jump creates blocks ahead and moves _nextBB to the first of them.
LEMMA JumpForwardWalk == WalkInv /\ JumpForward => WalkInv'
<1> SUFFICES ASSUME WalkInv, JumpForward PROVE WalkInv'
  OBVIOUS
<1> USE DEF input, funcVars, Translating
<1>0. /\ pc = "instr" /\ Target > addr
      /\ bbMap' = bbMap \cup {Target, addr + 1}
  BY DEF JumpForward, NewBBs
<1>1. /\ {Target, addr + 1} \subseteq BBAddr /\ {Target, addr + 1} \subseteq Nat
      /\ Target \in Nat /\ addr + 1 \in Nat /\ nextBB \in Nat
      /\ \A k \in {Target, addr + 1} : k > addr
  <2>1. Target \in BBAddr /\ addr + 1 \in BBAddr /\ nextBB \in BBAddr
    BY <1>0, InstrFacts, AddrFacts DEF TypeOK
  <2> QED BY <1>0, <2>1, InstrFacts, AddrFacts
<1>2. nextBB' = addr + 1
  BY <1>1, UpdateNextBBAssigns DEF JumpForward
<1>3. term' \in [Block -> Term] /\ OpenFrom(addr + 1)'
  BY <1>0, <1>1, JumpTermType, CloseKeepsOpen DEF JumpForward
<1>4. TypeOK'
  <2>1. bbMap' \subseteq BBAddr /\ home' \in [BBAddr -> Addr]
    BY <1>0, <1>1, InstrFacts, NewBBsType DEF JumpForward
  <2> QED BY <1>0, <1>1, <1>2, <1>3, <2>1, InstrFacts
          DEF JumpForward, TypeOK
<1>5. CodeInv'
  BY <1>0, <1>1, NewBBsKeepCode DEF JumpForward
<1>6. LabelInv'
  BY <1>0 DEF WalkInv, JumpForward, LabelInv
<1>7. FuncInv'
  BY <1>0 DEF WalkInv, JumpForward, FuncInv
<1>8. RecordInv'
  <2>1. NextBBNotPast(addr + 1)'
    BY <1>1, <1>2 DEF JumpForward, NextBBNotPast
  <2>2. Nearest(first, addr)' /\ first' >= func'
    <3> DEFINE k == insertBlock[1]
    <3>1. k \in Nat /\ Nearest(k, addr) /\ k >= func
      BY <1>0, InstrFacts, AddrFacts
    <3> HIDE DEF k
    <3>2. bbMap \subseteq Nat /\ addr \in Nat /\ addr <= addr
      BY <1>0, InstrFacts
    <3>3. \A a \in Nat, m \in Nat :
            a <= addr /\ Nearest(m, a) =>
              m \in bbMap' /\ m <= a /\ \A j \in bbMap' : j <= a => j <= m
      <4> DEFINE S == {Target, addr + 1}
      <4>1. S \subseteq Nat /\ (\A j \in S : j > addr) /\ bbMap' = bbMap \cup S
        BY <1>0, <1>1
      <4> HIDE DEF S
      <4> QED BY <3>2, <4>1, NewBBsAhead
    <3>4. k \in bbMap' /\ k <= addr /\ \A j \in bbMap' : j <= addr => j <= k
      BY <3>1, <3>2, <3>3
    <3> QED BY <3>1, <3>4 DEF JumpForward, Nearest, k
  <2> QED BY <1>0, <1>3, <2>1, <2>2, InstrFacts DEF JumpForward, RecordInv
<1>9. EnterInv' /\ InstrInv' /\ SwitchInv'
  BY DEF JumpForward, EnterInv, InstrInv, SwitchInv
<1> QED BY <1>4, <1>5, <1>6, <1>7, <1>8, <1>9 DEF WalkInv

\* A backward jump to a block start creates the block behind the jump only.
LEMMA JumpBackWalk == WalkInv /\ JumpBack => WalkInv'
<1> SUFFICES ASSUME WalkInv, JumpBack PROVE WalkInv'
  OBVIOUS
<1> USE DEF input, funcVars, Translating
<1>0. pc = "instr" /\ bbMap' = bbMap \cup {addr + 1}
  BY DEF JumpBack, NewBBs
<1>1. /\ {addr + 1} \subseteq BBAddr /\ {addr + 1} \subseteq Nat
      /\ Target \in BBAddr /\ addr + 1 \in Nat /\ nextBB \in Nat
      /\ \A k \in {addr + 1} : k > addr
  <2>1. Target \in BBAddr /\ addr + 1 \in BBAddr /\ nextBB \in BBAddr
    BY <1>0, InstrFacts, AddrFacts DEF TypeOK
  <2> QED BY <1>0, <2>1, InstrFacts, AddrFacts
<1>2. nextBB' = addr + 1
  BY <1>1, UpdateNextBBAssigns DEF JumpBack
<1>3. term' \in [Block -> Term] /\ OpenFrom(addr + 1)'
  BY <1>0, <1>1, JumpTermType, CloseKeepsOpen DEF JumpBack
<1>4. TypeOK'
  <2>1. bbMap' \subseteq BBAddr /\ home' \in [BBAddr -> Addr]
    BY <1>0, <1>1, InstrFacts, NewBBsType DEF JumpBack
  <2> QED BY <1>0, <1>1, <1>2, <1>3, <2>1, InstrFacts
          DEF JumpBack, TypeOK
<1>5. CodeInv'
  BY <1>0, <1>1, NewBBsKeepCode DEF JumpBack
<1>6. LabelInv'
  BY <1>0 DEF WalkInv, JumpBack, LabelInv
<1>7. FuncInv'
  BY <1>0 DEF WalkInv, JumpBack, FuncInv
<1>8. RecordInv'
  <2>1. NextBBNotPast(addr + 1)'
    BY <1>1, <1>2 DEF JumpBack, NextBBNotPast
  <2>2. Nearest(first, addr)' /\ first' >= func'
    <3> DEFINE k == insertBlock[1]
    <3>1. k \in Nat /\ Nearest(k, addr) /\ k >= func
      BY <1>0, InstrFacts, AddrFacts
    <3> HIDE DEF k
    <3>2. bbMap \subseteq Nat /\ addr \in Nat /\ addr <= addr
      BY <1>0, InstrFacts
    <3>3. \A a \in Nat, m \in Nat :
            a <= addr /\ Nearest(m, a) =>
              m \in bbMap' /\ m <= a /\ \A j \in bbMap' : j <= a => j <= m
      <4> DEFINE S == {addr + 1}
      <4>1. S \subseteq Nat /\ (\A j \in S : j > addr) /\ bbMap' = bbMap \cup S
        BY <1>0, <1>1
      <4> HIDE DEF S
      <4> QED BY <3>2, <4>1, NewBBsAhead
    <3>4. k \in bbMap' /\ k <= addr /\ \A j \in bbMap' : j <= addr => j <= k
      BY <3>1, <3>2, <3>3
    <3> QED BY <3>1, <3>4 DEF JumpBack, Nearest, k
  <2> QED BY <1>0, <1>3, <2>1, <2>2, InstrFacts DEF JumpBack, RecordInv
<1>9. EnterInv' /\ InstrInv' /\ SwitchInv'
  BY DEF JumpBack, EnterInv, InstrInv, SwitchInv
<1> QED BY <1>4, <1>5, <1>6, <1>7, <1>8, <1>9 DEF WalkInv

\* splitMap at t, inside the block b that holds t: the block starts that are
\* nearest to the translated instructions, with t among them.
LEMMA SplitKeepsNearest ==
    ASSUME bbMap \subseteq Nat, NEW b \in Nat, NEW t \in Nat, b # t,
           Nearest(b, t),
           NEW a0 \in Nat, bbMap' = bbMap \cup {t, a0 + 1}
    PROVE  \A a \in Nat, m \in Nat, n \in Nat :
              /\ a <= a0 /\ Nearest(m, a)
              /\ n = IF m = b /\ a >= t THEN t ELSE m
              => n \in bbMap' /\ n <= a /\ \A j \in bbMap' : j <= a => j <= n
<1> SUFFICES ASSUME NEW a \in Nat, NEW m \in Nat, NEW n \in Nat,
                    a <= a0, Nearest(m, a),
                    n = IF m = b /\ a >= t THEN t ELSE m
             PROVE  n \in bbMap' /\ n <= a /\ \A j \in bbMap' : j <= a => j <= n
  OBVIOUS
<1>1. b < t /\ b \in bbMap /\ m \in bbMap /\ m <= a
  BY DEF Nearest
<1>2. \A j \in bbMap' : j <= a => j \in bbMap \/ j = t
  OBVIOUS
<1>3. \A j \in bbMap : (j <= a => j <= m) /\ (j <= t => j <= b)
  BY DEF Nearest
<1>4. CASE m = b /\ a >= t
  BY <1>1, <1>2, <1>3, <1>4
<1>5. CASE ~(m = b /\ a >= t)
  <2>1. a >= t => m >= t
    BY <1>1, <1>3, <1>5
  <2> QED BY <1>1, <1>2, <1>3, <1>5, <2>1
<1> QED BY <1>4, <1>5

\* A backward jump into a block splits it, the current block included.
LEMMA JumpBackSplitWalk == WalkInv /\ JumpBackSplit => WalkInv'
<1> SUFFICES ASSUME WalkInv, JumpBackSplit PROVE WalkInv'
  OBVIOUS
<1> USE DEF input, funcVars, Translating
<1> DEFINE b == GetBackBB(OwnMap, Target)
<1>0. /\ pc = "instr" /\ Target < addr /\ b # Target
      /\ instrMap[Target] = b /\ addr' = addr /\ func' = func
      /\ bbMap' = bbMap \cup {Target, addr + 1}
      /\ instrMap' = SplitInstrs(instrMap, b, Target)
      /\ insertBlock' = BlockAfterSplit(b, Target)
      /\ term' = [SplitTerm(term, b, Target) EXCEPT ![insertBlock'] = JumpTerm]
      /\ home' = [k \in BBAddr |->
                     IF k = Target THEN home[b]
                     ELSE IF k \in {addr + 1} \ bbMap THEN func
                     ELSE home[k]]
  BY DEF JumpBackSplit, BackTargetFound
<1>1. /\ Target \in BBAddr /\ addr + 1 \in BBAddr /\ nextBB \in Nat
      /\ Target \in Nat /\ addr + 1 \in Nat /\ addr \in Nat /\ func \in Nat
      /\ bbMap \subseteq Nat
  BY <1>0, InstrFacts, AddrFacts DEF TypeOK
<1>2. Nearest(b, Target) /\ b \in BBAddr /\ b \in Nat /\ b < Target
  <2>1. Nearest(b, Target)
    BY <1>0, InstrFacts DEF WalkInv, CodeInv
  <2> HIDE DEF b
  <2>2. b \in bbMap /\ b <= Target
    BY <2>1 DEF Nearest
  <2>3. bbMap \subseteq BBAddr
    BY <1>0, InstrFacts DEF TypeOK
  <2> QED BY <1>0, <1>1, <2>1, <2>2, <2>3
<1>3. /\ insertBlock' \in {Tracked(Target), insertBlock}
      /\ insertBlock'[1] = IF insertBlock[1] = b THEN Target ELSE insertBlock[1]
  <2>1. insertBlock = Tracked(insertBlock[1]) /\ insertBlock[1] \in BBAddr
    BY <1>0, InstrFacts
  <2>2. insertBlock = Tracked(b) <=> insertBlock[1] = b
    BY <1>2, <2>1, BlockFacts
  <2> QED BY <1>0, <1>1, <2>2, BlockFacts DEF BlockAfterSplit
<1>4. nextBB' = addr + 1
  BY <1>1, UpdateNextBBAssigns DEF JumpBackSplit
<1>5. term' \in [Block -> Term] /\ OpenFrom(addr + 1)'
  <2>1. JumpTerm \in Term /\ BrTo({Target}) \in Term
    BY <1>1, JumpTermType, TermFacts
  <2>2. Tracked(b) \in Block /\ Tracked(Target) \in Block /\ insertBlock' \in Block
    BY <1>0, <1>1, <1>2, <1>3, InstrFacts, BlockFacts
  <2> DEFINE tm == SplitTerm(term, b, Target)
  <2>3. tm \in [Block -> Term]
    BY <1>0, <2>1, <2>2, InstrFacts DEF SplitTerm, TypeOK
  <2>4. \A k \in BBAddr : k >= addr + 1 =>
           /\ Tracked(k) # Tracked(b) /\ Tracked(k) # Tracked(Target)
           /\ Tracked(k) # insertBlock'
    <3>1. insertBlock'[1] <= addr
      BY <1>0, <1>1, <1>3, InstrFacts DEF Nearest
    <3> QED BY <1>0, <1>1, <1>2, <1>3, <3>1, BlockFacts, AddrFacts
  <2>5. \A k \in BBAddr : k >= addr + 1 => tm[Tracked(k)] = Open
    BY <1>0, <2>2, <2>4, InstrFacts, BlockFacts
    DEF SplitTerm, OpenFrom, TypeOK
  <2> HIDE DEF tm
  <2> QED BY <1>0, <2>1, <2>2, <2>3, <2>4, <2>5, BlockFacts DEF OpenFrom, tm
<1> HIDE DEF b
<1>6. \A a \in Nat, m \in Nat, n \in Nat :
          /\ a <= addr /\ Nearest(m, a)
          /\ n = IF m = b /\ a >= Target THEN Target ELSE m
          => n \in bbMap' /\ n <= a /\ \A j \in bbMap' : j <= a => j <= n
  <2>1. b # Target /\ bbMap' = bbMap \cup {Target, addr + 1}
    BY <1>0
  <2> QED BY <1>1, <1>2, <2>1, SplitKeepsNearest
<1>7. TypeOK'
  <2>1. bbMap' \subseteq BBAddr /\ home' \in [BBAddr -> Addr]
    BY <1>0, <1>1, <1>2, InstrFacts DEF TypeOK
  <2>2. instrMap' \in [Addr -> BBAddr \cup {None}]
    BY <1>0, <1>1, InstrFacts DEF SplitInstrs, TypeOK
  <2>3. insertBlock' \in Block /\ first' \in BBAddr /\ nextBB' \in BBAddr
    BY <1>0, <1>1, <1>3, <1>4, InstrFacts, BlockFacts
    DEF JumpBackSplit, TypeOK
  <2> QED BY <1>0, <1>5, <2>1, <2>2, <2>3, InstrFacts
          DEF JumpBackSplit, TypeOK
<1>8. CodeInv'
  <2> SUFFICES ASSUME NEW a \in Addr
               PROVE  IF a < addr THEN Nearest(instrMap[a], a)'
                                  ELSE instrMap'[a] = None
    BY <1>0 DEF CodeInv
  <2>0. a \in Nat
    BY AddrFacts
  <2>1. instrMap'[a] = IF instrMap[a] = b /\ a >= Target THEN Target
                                                       ELSE instrMap[a]
    BY <1>0 DEF SplitInstrs
  <2>2. CASE a < addr
    <3> DEFINE m == instrMap[a]
               n == instrMap'[a]
    <3>1. Nearest(m, a) /\ m \in Nat
      BY <1>1, <2>2 DEF WalkInv, CodeInv, Nearest
    <3>2. a <= addr
      BY <1>1, <2>0, <2>2
    <3>3. n \in Nat /\ n = IF m = b /\ a >= Target THEN Target ELSE m
      BY <1>1, <2>1, <3>1
    <3> HIDE DEF m, n
    <3>4. n \in bbMap' /\ n <= a /\ \A j \in bbMap' : j <= a => j <= n
      BY <1>6, <2>0, <3>1, <3>2, <3>3
    <3> QED BY <2>2, <3>4 DEF Nearest, n
  <2>3. CASE ~(a < addr)
    BY <1>2, <2>1, <2>3 DEF WalkInv, CodeInv, None
  <2> QED BY <2>2, <2>3
<1>9. LabelInv'
  BY <1>0 DEF WalkInv, JumpBackSplit, LabelInv
<1>10. FuncInv'
  BY <1>0 DEF WalkInv, JumpBackSplit, FuncInv
<1>11. RecordInv'
  <2> DEFINE m == insertBlock[1]
             n == insertBlock'[1]
  <2>1. m \in Nat /\ Nearest(m, addr) /\ m >= func
    BY <1>0, InstrFacts, AddrFacts
  <2>2. n \in Nat /\ n = IF m = b /\ addr >= Target THEN Target ELSE m
    BY <1>0, <1>1, <1>3, <2>1
  <2>3. insertBlock' = Tracked(n)
    BY <1>0, <1>1, <1>3, InstrFacts, BlockFacts
  <2> HIDE DEF m, n
  <2>4. n \in bbMap' /\ n <= addr /\ \A j \in bbMap' : j <= addr => j <= n
    BY <1>1, <1>6, <2>1, <2>2
  <2>5. n >= func
    BY <1>1, <1>2, <2>1, <2>2
  <2>6. first' = n /\ pc' = "record"
    BY DEF JumpBackSplit, n
  <2>7. NextBBNotPast(addr + 1)'
    BY <1>0, <1>1, <1>4 DEF NextBBNotPast
  <2> QED BY <1>0, <1>5, <2>3, <2>4, <2>5, <2>6, <2>7 DEF RecordInv, Nearest
<1>12. EnterInv' /\ InstrInv' /\ SwitchInv'
  BY DEF JumpBackSplit, EnterInv, InstrInv, SwitchInv
<1> QED BY <1>7, <1>8, <1>9, <1>10, <1>11, <1>12 DEF WalkInv

\* What the bookkeeping after an instruction relies on.
LEMMA RecordFacts ==
    ASSUME WalkInv, pc = "record"
    PROVE  /\ TypeOK /\ addr \in Addr /\ addr \in Nat /\ func \in Nat
           /\ bbMap \subseteq Nat /\ func <= addr /\ nextBB \in Nat
           /\ addr + 1 \in BBAddr
           /\ first \in Nat /\ first \in BBAddr /\ first >= func /\ first <= addr
           /\ Nearest(first, addr)
           /\ insertBlock \in {Tracked(first), Untracked(addr)}
           /\ OpenFrom(addr + 1) /\ NextBBNotPast(addr + 1)
<1>1. TypeOK /\ addr < Size /\ func <= addr
  BY DEF WalkInv, FuncInv
<1>2. /\ addr \in Addr /\ addr \in Nat /\ func \in Nat /\ bbMap \subseteq Nat
      /\ addr + 1 \in BBAddr /\ nextBB \in Nat
      /\ first \in Nat /\ first \in BBAddr
  BY <1>1, AddrFacts DEF TypeOK
<1> QED BY <1>1, <1>2 DEF WalkInv, RecordInv, Nearest

\* After the last bookkeeping step, _nextBB is the next instruction or the
\* block goes on with it.
LEMMA AdvanceEnters ==
    ASSUME WalkInv, pc = "record", pc' = "enter",
           addr' = addr + 1, func' = func,
           insertBlock' \in {Tracked(insertBlock'[1]), Untracked(addr)},
           insertBlock'[1] \in Nat,
           func <= insertBlock'[1], insertBlock'[1] <= addr,
           \/ IsUntracked(insertBlock') /\ nextBB' = addr + 1
           \/ /\ ~IsUntracked(insertBlock')
              /\ term'[insertBlock'].kind # "none" /\ nextBB' = addr + 1
           \/ /\ ~IsUntracked(insertBlock')
              /\ term'[insertBlock'].kind = "none" /\ nextBB' = nextBB
              /\ insertBlock'[1] \in bbMap'
              /\ \A j \in bbMap' : j <= addr => j <= insertBlock'[1],
           bbMap' = bbMap \/ bbMap' = bbMap \cup {addr},
           \A k \in BBAddr : k >= addr + 1 => term'[Tracked(k)] = Open
    PROVE  EnterInv'
<1>0. /\ addr \in Nat /\ func \in Nat /\ func <= addr /\ nextBB \in Nat
      /\ bbMap \subseteq Nat /\ bbMap' \subseteq Nat
      /\ NextBBNotPast(addr + 1)
  BY RecordFacts
<1>1. nextBB' = nextBB \/ nextBB' = addr + 1
  OBVIOUS
<1>2. \A k \in bbMap' : k >= addr + 1 => k \in bbMap
  BY <1>0
<1>3. \A k \in bbMap' : k >= addr + 1 => nextBB' >= addr + 1 /\ nextBB' <= k
  BY <1>0, <1>1, <1>2 DEF NextBBNotPast
<1>4. ASSUME nextBB' # addr + 1
      PROVE  /\ ~IsUntracked(insertBlock)' /\ ~Terminated(insertBlock)'
             /\ Nearest(insertBlock[1], addr)'
  <2>1. addr + 1 \notin bbMap'
    BY <1>0, <1>1, <1>3, <1>4
  <2>2. \A j \in bbMap' : j <= addr + 1 => j <= addr
    BY <1>0, <2>1
  <2>3. /\ ~IsUntracked(insertBlock') /\ term'[insertBlock'].kind = "none"
        /\ insertBlock'[1] \in bbMap'
        /\ \A j \in bbMap' : j <= addr => j <= insertBlock'[1]
    BY <1>4
  <2>4. Nearest(insertBlock[1], addr)'
    BY <1>0, <2>2, <2>3 DEF Nearest
  <2> QED BY <2>3, <2>4 DEF Terminated, IsUntracked
<1>5. OpenFrom(addr)' /\ NextBBNotPast(addr)'
  BY <1>3 DEF OpenFrom, NextBBNotPast
<1>6. addr' # func' /\ insertBlock'[1] < addr'
  BY <1>0
<1> QED BY <1>0, <1>4, <1>5, <1>6 DEF EnterInv

\* addInstr: instruction addr joins the block that is nearest to it.
LEMMA RecordKeepsCode ==
    ASSUME WalkInv, pc = "record", addr' = addr + 1, bbMap' = bbMap,
           instrMap' = [instrMap EXCEPT ![addr] = first]
    PROVE  CodeInv' /\ instrMap' \in [Addr -> BBAddr \cup {None}]
<1>1. instrMap' \in [Addr -> BBAddr \cup {None}]
  BY RecordFacts DEF TypeOK
<1>2. \A a \in Addr : instrMap'[a] = IF a = addr THEN first ELSE instrMap[a]
  BY RecordFacts DEF TypeOK
<1>3. \A a \in Addr : IF a < addr THEN Nearest(instrMap[a], a)
                                 ELSE instrMap[a] = None
  BY DEF WalkInv, CodeInv
<1>4. \A a \in Addr : a \in Nat /\ (a < addr + 1 <=> a < addr \/ a = addr)
  BY RecordFacts, AddrFacts
<1>5. \A a \in Addr : IF a < addr + 1 THEN Nearest(instrMap'[a], a)
                                     ELSE instrMap'[a] = None
  BY <1>2, <1>3, <1>4, RecordFacts
<1> QED BY <1>1, <1>5 DEF CodeInv, Nearest

\* Both ways to record an instruction without a split.
LEMMA RecordInPlace ==
    ASSUME WalkInv, Advance, UNCHANGED <<code, labels, funcVars, bbMap, home, term,
                                         insertBlock, first, erased>>,
           instrMap' = [instrMap EXCEPT ![addr] = first],
           nextBB' = NextBBAfterRecording(insertBlock, term),
           pending' \subseteq Addr, indBBs' \subseteq Addr
    PROVE  TypeOK' /\ CodeInv' /\ FuncInv' /\ EnterInv'
<1> USE DEF funcVars
<1>0. /\ pc = "record" /\ pc' = "enter" /\ addr' = addr + 1
      /\ func' = func /\ bbMap' = bbMap /\ term' = term
      /\ insertBlock' = insertBlock
  BY DEF Advance
<1>1. CodeInv' /\ instrMap' \in [Addr -> BBAddr \cup {None}]
  BY <1>0, RecordKeepsCode
<1>2. nextBB' = IF Terminated(insertBlock) \/ IsUntracked(insertBlock)
                THEN addr + 1 ELSE nextBB
  BY <1>0, RecordFacts, UpdateNextBBAssigns, AddrFacts
  DEF NextBBAfterRecording, Terminated
<1>3. TypeOK'
  BY <1>0, <1>1, <1>2, RecordFacts DEF TypeOK
<1>4. FuncInv'
  BY <1>0, RecordFacts DEF WalkInv, FuncInv
<1>5. EnterInv'
  <2>1. /\ insertBlock[1] \in {first, addr}
        /\ insertBlock \in {Tracked(insertBlock[1]), Untracked(addr)}
        /\ ~IsUntracked(insertBlock) => insertBlock[1] = first
    BY <1>0, RecordFacts, BlockFacts, AddrFacts
  <2>2. \A k \in BBAddr : k >= addr + 1 => term'[Tracked(k)] = Open
    BY <1>0, RecordFacts DEF OpenFrom
  <2>3. insertBlock[1] \in Nat /\ func <= insertBlock[1] /\ insertBlock[1] <= addr
    BY <1>0, <2>1, RecordFacts
  <2>4. \/ IsUntracked(insertBlock) /\ nextBB' = addr + 1
        \/ /\ ~IsUntracked(insertBlock)
           /\ term[insertBlock].kind # "none" /\ nextBB' = addr + 1
        \/ /\ ~IsUntracked(insertBlock)
           /\ term[insertBlock].kind = "none" /\ nextBB' = nextBB
           /\ insertBlock[1] \in bbMap
           /\ \A j \in bbMap : j <= addr => j <= insertBlock[1]
    BY <1>0, <1>2, <2>1, RecordFacts DEF Nearest, Terminated
  <2> QED BY <1>0, <2>1, <2>2, <2>3, <2>4, AdvanceEnters
<1> QED BY <1>1, <1>3, <1>4, <1>5

\* addInstr of an instruction that data does not refer to.
LEMMA RecordInstrWalk == WalkInv /\ RecordInstr => WalkInv'
<1> SUFFICES ASSUME WalkInv, RecordInstr PROVE WalkInv'
  OBVIOUS
<1> USE DEF input
<1>1. TypeOK' /\ CodeInv' /\ FuncInv' /\ EnterInv'
  BY RecordInPlace DEF RecordInstr, WalkInv, TypeOK
<1>2. LabelInv'
  <2>1. pc = "record" /\ addr' = addr + 1
    BY DEF RecordInstr, Advance
  <2> QED BY <2>1, RecordFacts, AddrFacts
          DEF RecordInstr, WalkInv, LabelInv, TypeOK
<1>3. InstrInv' /\ RecordInv' /\ SwitchInv'
  BY DEF RecordInstr, Advance, InstrInv, RecordInv, SwitchInv
<1> QED BY <1>1, <1>2, <1>3 DEF WalkInv

\* processPending on an instruction that starts its block.
LEMMA RecordLabelWalk == WalkInv /\ RecordLabel => WalkInv'
<1> SUFFICES ASSUME WalkInv, RecordLabel PROVE WalkInv'
  OBVIOUS
<1> USE DEF input
<1>0. pc = "record" /\ addr' = addr + 1
  BY DEF RecordLabel, Advance
<1>1. TypeOK' /\ CodeInv' /\ FuncInv' /\ EnterInv'
  <2>1. pending' \subseteq Addr /\ indBBs' \subseteq Addr
    BY <1>0, RecordFacts DEF RecordLabel, TypeOK
  <2> QED BY <2>1, RecordInPlace DEF RecordLabel
<1>2. LabelInv'
  <2>1. addr \in bbMap
    BY <1>0, RecordFacts DEF RecordLabel, Nearest
  <2>2. labels' \ pending' \subseteq (labels \ pending) \cup {addr}
    BY DEF RecordLabel
  <2> QED BY <1>0, <2>1, <2>2, RecordFacts, AddrFacts
          DEF RecordLabel, WalkInv, LabelInv, TypeOK
<1>3. InstrInv' /\ RecordInv' /\ SwitchInv'
  BY DEF RecordLabel, Advance, InstrInv, RecordInv, SwitchInv
<1> QED BY <1>1, <1>2, <1>3 DEF WalkInv

\* processPending on an instruction inside its block, which is split.
LEMMA RecordLabelSplitWalk == WalkInv /\ RecordLabelSplit => WalkInv'
<1> SUFFICES ASSUME WalkInv, RecordLabelSplit PROVE WalkInv'
  OBVIOUS
<1> USE DEF input, funcVars
<1>0. /\ pc = "record" /\ pc' = "enter" /\ addr' = addr + 1
      /\ func' = func /\ bbMap' = bbMap \cup {addr} /\ first < addr
      /\ insertBlock' = Tracked(addr)
  BY RecordFacts DEF RecordLabelSplit, Advance
<1>1. addr \in BBAddr /\ addr + 1 \in Nat
  BY <1>0, RecordFacts, AddrFacts
<1>2. /\ Tracked(first) \in Block /\ Tracked(addr) \in Block
      /\ Tracked(addr)[1] = addr /\ ~IsUntracked(Tracked(addr))
      /\ Tracked(first) # Tracked(addr)
  BY <1>0, <1>1, RecordFacts, BlockFacts
<1>3. term' \in [Block -> Term]
  BY <1>0, <1>1, <1>2, RecordFacts, TermFacts
  DEF RecordLabelSplit, SplitTerm, TypeOK
<1>4. \A k \in BBAddr : k >= addr + 1 => term'[Tracked(k)] = Open
  <2>1. \A k \in BBAddr : k >= addr + 1 =>
            Tracked(k) # Tracked(first) /\ Tracked(k) # Tracked(addr)
    BY <1>0, <1>1, RecordFacts, BlockFacts, AddrFacts
  <2> QED BY <1>0, <1>2, <2>1, RecordFacts, BlockFacts
          DEF RecordLabelSplit, SplitTerm, OpenFrom, TypeOK
<1>5. nextBB' = IF term'[insertBlock'].kind # "none" THEN addr + 1 ELSE nextBB
  BY <1>0, <1>1, <1>2, RecordFacts, UpdateNextBBAssigns
  DEF RecordLabelSplit, NextBBAfterRecording
<1>6. \A a \in Addr : instrMap'[a] = IF a = addr THEN addr ELSE instrMap[a]
  <2> DEFINE im == [instrMap EXCEPT ![addr] = first]
  <2>1. \A a \in Addr : im[a] = IF a = addr THEN first ELSE instrMap[a]
    BY <1>0, RecordFacts DEF TypeOK
  <2>2. \A a \in Addr : a > addr => instrMap[a] = None
    BY <1>0, RecordFacts, AddrFacts DEF WalkInv, CodeInv
  <2>3. instrMap' = SplitInstrs(im, first, addr)
    BY DEF RecordLabelSplit
  <2> HIDE DEF im
  <2> QED BY <1>0, <2>1, <2>2, <2>3, RecordFacts, AddrFacts
          DEF SplitInstrs, None
<1>7. TypeOK'
  <2>1. home' \in [BBAddr -> Addr]
    BY <1>0, <1>1, RecordFacts DEF RecordLabelSplit, TypeOK
  <2>2. instrMap' \in [Addr -> BBAddr \cup {None}]
    BY <1>0, <1>1, <1>6, RecordFacts
    DEF RecordLabelSplit, SplitInstrs, TypeOK
  <2>3. bbMap' \subseteq BBAddr /\ nextBB' \in BBAddr /\ insertBlock' \in Block
    BY <1>0, <1>1, <1>2, <1>5, RecordFacts DEF TypeOK
  <2>4. pending' \subseteq Addr /\ indBBs' \subseteq Addr
    BY <1>0, RecordFacts DEF RecordLabelSplit, TypeOK
  <2> QED BY <1>0, <1>3, <2>1, <2>2, <2>3, <2>4, RecordFacts
          DEF RecordLabelSplit, TypeOK
<1>8. CodeInv'
  <2>1. \A a \in Addr : a \in Nat /\ (a < addr + 1 <=> a < addr \/ a = addr)
    BY <1>0, RecordFacts, AddrFacts
  <2>2. ASSUME NEW a \in Addr, a < addr
        PROVE  Nearest(instrMap[a], a)'
    <3>1. Nearest(instrMap[a], a) /\ a \in Nat
      BY <2>1, <2>2 DEF WalkInv, CodeInv
    <3>2. instrMap'[a] = instrMap[a]
      BY <1>0, <1>6, <2>2, RecordFacts
    <3> QED BY <1>0, <2>2, <3>1, <3>2, RecordFacts DEF Nearest
  <2>3. ASSUME NEW a \in Addr, a = addr
        PROVE  Nearest(instrMap[a], a)'
    BY <1>0, <1>6, <2>3, RecordFacts DEF Nearest
  <2>4. ASSUME NEW a \in Addr, ~(a < addr + 1)
        PROVE  instrMap'[a] = None
    BY <1>0, <1>6, <2>1, <2>4, RecordFacts DEF WalkInv, CodeInv
  <2> QED BY <1>0, <2>1, <2>2, <2>3, <2>4 DEF CodeInv
<1>9. LabelInv'
  <2>1. labels' \ pending' \subseteq (labels \ pending) \cup {addr}
    BY DEF RecordLabelSplit
  <2>2. \A l \in labels \ pending : l \in bbMap' /\ l < addr + 1
    BY <1>0, RecordFacts DEF WalkInv, LabelInv
  <2> QED BY <1>0, <2>1, <2>2, RecordFacts DEF LabelInv
<1>10. FuncInv'
  BY <1>0, RecordFacts DEF WalkInv, RecordLabelSplit, FuncInv
<1>11. EnterInv'
  <2>1. \A j \in bbMap' : j <= addr => j <= insertBlock'[1]
    BY <1>0, <1>2
  <2> QED BY <1>0, <1>1, <1>2, <1>4, <1>5, <2>1, RecordFacts, AdvanceEnters
<1>12. InstrInv' /\ RecordInv' /\ SwitchInv'
  BY <1>0 DEF InstrInv, RecordInv, SwitchInv
<1> QED BY <1>7, <1>8, <1>9, <1>10, <1>11, <1>12 DEF WalkInv

\* The last block, which finish() may erase, is one of the function's.
LEMMA LastBBInMap == WalkInv => OwnMap # {} /\ Max(OwnMap) \in BBAddr
<1> SUFFICES ASSUME WalkInv PROVE OwnMap # {} /\ Max(OwnMap) \in BBAddr
  OBVIOUS
<1>1. func \in bbMap /\ func \in Nat /\ bbMap \subseteq BBAddr
  BY AddrFacts DEF WalkInv, FuncInv, TypeOK
<1>2. OwnMap \subseteq 0 .. Size /\ func \in OwnMap
  <2>1. OwnMap \subseteq bbMap
    BY DEF OwnMap, AtOrAfter
  <2>2. func \in OwnMap
    BY <1>1 DEF OwnMap, AtOrAfter
  <2> QED BY <1>1, <2>1, <2>2 DEF BBAddr
<1>3. \E m \in OwnMap : \A k \in OwnMap : k <= m
  BY <1>2, AddrFacts, MaxExists
<1>4. \E m \in OwnMap : \A k \in OwnMap : m >= k
  BY <1>2, <1>3
<1>5. Max(OwnMap) \in OwnMap
  BY <1>4 DEF Max
<1> QED BY <1>2, <1>5 DEF BBAddr

\* finish() adds terminators behind the walk and erases at most one llvm block.
LEMMA FinishWalk == WalkInv /\ Finish => WalkInv'
<1> SUFFICES ASSUME WalkInv, Finish PROVE WalkInv'
  OBVIOUS
<1> USE DEF input, funcVars
<1>0. /\ TypeOK /\ pc = "enter" /\ addr \in Nat /\ func \in Nat /\ func <= addr
      /\ addr' = addr /\ pc' \in {"done", "switch"}
      /\ pc' = "switch" => addr \in Addr /\ addr < Size /\ func < addr
  <2>1. TypeOK /\ func <= addr
    BY DEF WalkInv, FuncInv
  <2>2. addr \in Nat /\ func \in Nat /\ addr \in BBAddr
    BY <2>1, AddrFacts DEF TypeOK
  <2>3. pc' = "switch" => addr # Size /\ addr # func
    BY DEF Finish, AtEnd, AtNextFunc
  <2>4. addr # Size => addr \in Addr /\ addr < Size
    BY <2>2, AddrFacts DEF BBAddr
  <2> QED BY <2>1, <2>2, <2>3, <2>4 DEF Finish
<1>1. TypeOK'
  <2>1. \A l \in indBBs : Tracked(l) \in Block
    BY <1>0, AddrFacts, BlockFacts DEF TypeOK
  <2>2. [kind |-> "indbr", succ |-> {Tracked(l) : l \in indBBs}] \in Term
    BY <2>1 DEF Term
  <2>3. term' \in [Block -> Term]
    BY <1>0, <2>2, TermFacts DEF Finish, FinishTerm, TypeOK
  <2>4. erased' \subseteq BBAddr
    BY <1>0, LastBBInMap DEF Finish, ErasedByFinish, TypeOK
  <2> QED BY <1>0, <2>3, <2>4 DEF Finish, TypeOK
<1>2. CodeInv' /\ LabelInv'
  BY DEF WalkInv, Finish, CodeInv, Nearest, LabelInv
<1>3. FuncInv'
  BY <1>0 DEF WalkInv, Finish, FuncInv
<1>4. SwitchInv'
  <2> SUFFICES ASSUME pc' = "switch", NEW k \in BBAddr, k >= addr
               PROVE  term'[Tracked(k)] = Open
    BY <1>0 DEF SwitchInv, OpenFrom
  <2>1. OpenFrom(addr) /\ insertBlock[1] < addr /\ insertBlock \in Block
    BY <1>0 DEF WalkInv, EnterInv, TypeOK
  <2>2. Tracked(k) \in Block /\ Tracked(k)[1] = k /\ k \in Nat
    BY BlockFacts, AddrFacts
  <2>3. term[Tracked(k)] = Open /\ Tracked(k) # insertBlock
    <3>1. insertBlock[1] \in Nat
      BY <2>1, BlockFacts, AddrFacts
    <3> QED BY <1>0, <2>1, <2>2, <3>1 DEF OpenFrom
  <2> QED BY <2>2, <2>3 DEF Finish, FinishTerm, Open
<1>5. EnterInv' /\ InstrInv' /\ RecordInv'
  BY <1>0 DEF EnterInv, InstrInv, RecordInv
<1> QED BY <1>1, <1>2, <1>3, <1>4, <1>5 DEF WalkInv

\* The walk goes on in the function that was found on the way.
LEMMA StartNextFunctionWalk == WalkInv /\ StartNextFunction => WalkInv'
<1> SUFFICES ASSUME WalkInv, StartNextFunction PROVE WalkInv'
  OBVIOUS
<1> USE DEF input
<1>0. /\ TypeOK /\ pc = "switch" /\ addr \in Nat /\ addr \in Addr
      /\ addr < Size /\ addr' = addr /\ func' = addr /\ term' = term
      /\ bbMap' = bbMap \cup {addr} /\ bbMap \subseteq Nat
      /\ insertBlock' = Tracked(addr) /\ OpenFrom(addr)
      /\ pc' \in {"enter", "undefined"} /\ addr \in BBAddr /\ addr + 1 \in Nat
  <2>1. TypeOK /\ pc = "switch" /\ addr < Size /\ OpenFrom(addr)
    BY DEF WalkInv, StartNextFunction, FuncInv, SwitchInv
  <2>2. addr \in BBAddr /\ addr \in Nat /\ bbMap \subseteq Nat
    BY <2>1, AddrFacts DEF TypeOK
  <2>3. addr \in Addr
    BY <2>1, <2>2, AddrFacts
  <2> QED BY <2>1, <2>2, <2>3 DEF StartNextFunction
<1>1. nextFunc' \in Addr
  <2> DEFINE nf == LowerBound(funcs, addr + 1)
  <2>1. nf = None \/ nf \in funcs
    BY <1>0, AddrFacts, LowerBoundFound DEF TypeOK
  <2>2. nextFunc' \in {nextFunc, nf} /\ (nf = None => nextFunc' = nextFunc)
    BY DEF StartNextFunction, UpdateNextFuncAddr
  <2> HIDE DEF nf
  <2> QED BY <1>0, <2>1, <2>2 DEF TypeOK
<1>2. \/ nextBB' = 0 /\ \A k \in bbMap : k <= addr
      \/ /\ nextBB' \in bbMap /\ nextBB' >= addr + 1
         /\ \A k \in bbMap : k >= addr + 1 => nextBB' <= k
  <2> DEFINE next == LowerBound(bbMap, addr + 1)
  <2>1. nextBB' = IF next = None THEN 0 ELSE next
    BY DEF StartNextFunction, NextBBAddr
  <2>2. \/ next = None /\ \A k \in bbMap : k < addr + 1
        \/ /\ next \in bbMap /\ next >= addr + 1
           /\ \A k \in bbMap : k >= addr + 1 => next <= k
    BY <1>0, LowerBoundFound
  <2> HIDE DEF next
  <2>3. CASE next = None
    <3>1. \A k \in bbMap : k < addr + 1
      BY <1>0, <2>2, <2>3 DEF None
    <3> QED BY <1>0, <2>1, <2>3, <3>1
  <2>4. CASE next # None
    BY <2>1, <2>2, <2>4
  <2> QED BY <2>3, <2>4
<1>3. TypeOK'
  <2>1. insertBlock' \in Block /\ nextBB' \in BBAddr
    BY <1>0, <1>2, AddrFacts, BlockFacts DEF TypeOK
  <2>2. home' \in [BBAddr -> Addr] /\ bodies' \subseteq Addr
    BY <1>0 DEF StartNextFunction, TypeOK
  <2>3. bbMap' \subseteq BBAddr /\ indBBs' \subseteq Addr
    BY <1>0 DEF StartNextFunction, TypeOK
  <2> QED BY <1>0, <1>1, <2>1, <2>2, <2>3 DEF StartNextFunction, TypeOK
<1>4. CodeInv'
  BY <1>0, AddrFacts DEF WalkInv, StartNextFunction, CodeInv, Nearest
<1>5. LabelInv'
  BY <1>0 DEF WalkInv, StartNextFunction, LabelInv
<1>6. FuncInv'
  BY <1>0 DEF FuncInv
<1>7. EnterInv'
  <2>1. OpenFrom(addr)'
    BY <1>0 DEF OpenFrom
  <2>2. NextBBNotPast(addr + 1)'
    BY <1>0, <1>2 DEF NextBBNotPast
  <2>3. nextBB' = 0 \/ nextBB' > addr'
    <3>1. nextBB' \in bbMap /\ nextBB' >= addr + 1 => nextBB' > addr
      BY <1>0
    <3> QED BY <1>0, <1>2, <3>1
  <2> QED BY <1>0, <2>1, <2>2, <2>3 DEF EnterInv
<1>8. InstrInv' /\ RecordInv' /\ SwitchInv'
  BY <1>0 DEF InstrInv, RecordInv, SwitchInv
<1> QED BY <1>3, <1>4, <1>5, <1>6, <1>7, <1>8 DEF WalkInv

-----------------------------------------------------------------------------
\* Every step of the walk keeps the invariant.
LEMMA StepWalk == WalkInv /\ [Next]_vars => WalkInv'
<1> SUFFICES ASSUME WalkInv, [Next]_vars PROVE WalkInv'
  OBVIOUS
<1>1. CASE UNCHANGED vars
  BY <1>1
  DEF vars, input, funcVars, bbVars, WalkInv, TypeOK, CodeInv, Nearest,
      LabelInv, FuncInv, Target, EnterInv, OpenFrom, NextBBNotPast, IsUntracked,
      Terminated, InstrInv, RecordInv, SwitchInv
<1>2. CASE EnterStep
  BY <1>2, StayInBlockWalk, EnterBlockWalk, EnterErasedBlockWalk DEF EnterStep
<1>3. CASE InstrStep
  BY <1>3, TranslatePlainWalk, TranslateRegionWalk, TranslateLeaveWalk,
     TranslateCallWalk, JumpForwardWalk, JumpBackWalk, JumpBackSplitWalk,
     JumpAssertsWalk, JumpToErasedWalk
  DEF InstrStep
<1>4. CASE RecordStep
  BY <1>4, RecordInstrWalk, RecordLabelWalk, RecordLabelSplitWalk
  DEF RecordStep
<1>5. CASE Finish
  BY <1>5, FinishWalk
<1>6. CASE StartNextFunction
  BY <1>6, StartNextFunctionWalk
<1> QED BY <1>1, <1>2, <1>3, <1>4, <1>5, <1>6 DEF Next

(* The state of the walk is right between any two steps of Function::translate,   *)
(* for every guest function and every set of labels, ill-formed ones included.    *)
THEOREM WalkCorrect == Spec => []WalkInv
<1>1. Init => WalkInv
  BY InitWalk
<1>2. WalkInv /\ [Next]_vars => WalkInv'
  BY StepWalk
<1> QED BY <1>1, <1>2, PTL DEF Spec

(* Every variable keeps the type of the C++ member it stands for.                 *)
THEOREM TypeCorrect == Spec => []TypeOK
<1>1. WalkInv => TypeOK
  BY DEF WalkInv
<1> QED BY <1>1, WalkCorrect, PTL

(* No block boundary is walked over: each translated instruction is in the block  *)
(* of the nearest start at or below it, after any number of splits.               *)
THEOREM PartitionCorrect == Spec => []BlocksPartitionCode
<1>1. WalkInv => BlocksPartitionCode
  <2> SUFFICES ASSUME WalkInv, NEW a \in Addr, a < addr
               PROVE  instrMap[a] = Max(AtOrBefore(bbMap, a))
    BY DEF WalkInv, CodeInv, BlocksPartitionCode
  <2>1. Nearest(instrMap[a], a)
    BY DEF WalkInv, CodeInv
  <2>2. bbMap \subseteq Nat /\ a \in Nat
    BY AddrFacts DEF WalkInv, TypeOK
  <2> QED BY <2>1, <2>2, MaxIsNearest DEF Nearest
<1> QED BY <1>1, WalkCorrect, PTL

(* No instruction is ever translated into a block that has a terminator, is       *)
(* untracked or starts after it.                                                  *)
THEOREM InsertBlockCorrect == Spec => []InsertBlockOpen
<1>1. WalkInv => InsertBlockOpen
  <2> SUFFICES ASSUME WalkInv, pc = "instr" PROVE InsertBlockOpen
    BY DEF InsertBlockOpen
  <2> DEFINE k == insertBlock[1]
  <2>1. /\ Nearest(k, addr) /\ k >= func /\ k \in Nat
        /\ bbMap \subseteq Nat /\ addr \in Nat /\ func \in Nat
    BY InstrFacts, AddrFacts
  <2>2. ~IsUntracked(insertBlock) /\ ~Terminated(insertBlock)
    BY DEF WalkInv, InstrInv
  <2> HIDE DEF k
  <2>3. OwnMap \subseteq bbMap /\ k \in OwnMap
    BY <2>1 DEF OwnMap, AtOrAfter, Nearest
  <2>4. k <= addr /\ \A j \in OwnMap : j <= addr => j <= k
    BY <2>1, <2>3 DEF Nearest
  <2>5. Max(AtOrBefore(OwnMap, addr)) = k
    BY <2>1, <2>3, <2>4, MaxIsNearest
  <2> QED BY <2>2, <2>5 DEF InsertBlockOpen, k
<1> QED BY <1>1, WalkCorrect, PTL

(* The assertions "target basic block not found!" and "instruction not found!"    *)
(* of handleJump hold for every jump inside the function but one to itself.       *)
THEOREM BackTargetsCorrect == Spec => []BackTargetsFound
<1>1. WalkInv => BackTargetsFound
  BY DEF WalkInv, FuncInv, BackTargetsFound
<1> QED BY <1>1, WalkCorrect, PTL

(* A label that a jump table was patched with stays the start of its block, however *)
(* often blocks are split afterwards.                                             *)
THEOREM LabelsCorrect == Spec => LabelsStayBlockStarts
<1>1. WalkInv' /\ Next => LabelsStartBlocks
  <2> SUFFICES ASSUME WalkInv', Next, NEW l \in labels \ pending'
               PROVE  l \in bbMap' /\ instrMap'[l] = l
    BY DEF LabelsStartBlocks
  <2>1. labels' = labels
    BY DEF Next, EnterStep, InstrStep, RecordStep, input, StayInBlock, EnterBlock,
           EnterErasedBlock, TranslatePlain, TranslateRegion, TranslateLeave,
           TranslateCall, JumpForward, JumpBack, JumpBackSplit, JumpAsserts,
           JumpToErased, RecordInstr, RecordLabel, RecordLabelSplit, Finish,
           StartNextFunction
  <2>2. /\ l \in bbMap' /\ l < addr' /\ l \in Addr /\ l \in Nat
        /\ bbMap' \subseteq Nat
    BY <2>1, AddrFacts DEF WalkInv, LabelInv, TypeOK
  <2> DEFINE k == instrMap'[l]
  <2>3. k \in bbMap' /\ k <= l /\ \A j \in bbMap' : j <= l => j <= k
    BY <2>1, <2>2 DEF WalkInv, CodeInv, Nearest
  <2> HIDE DEF k
  <2>4. k = l
    BY <2>2, <2>3
  <2> QED BY <2>2, <2>4 DEF k
<1> QED BY <1>1, WalkCorrect, PTL DEF Spec, LabelsStayBlockStarts

\* A number of addresses ahead and of phases of an iteration, as one number.
LEMMA StepsCount ==
    ASSUME NEW s \in Nat, NEW a \in Nat, a <= s, NEW p \in Nat, NEW q \in Nat
    PROVE  /\ 0 <= 6 * (s - a) + p
           /\ q < p => 6 * (s - a) + q < 6 * (s - a) + p
           /\ q <= 5 => 6 * (s - (a + 1)) + q < 6 * (s - a) + 1
<1> DEFINE d == s - a
<1>1. d \in Nat /\ s - (a + 1) = d - 1
  OBVIOUS
<1> HIDE DEF d
<1>2. /\ 0 <= 6 * d + p
      /\ q < p => 6 * d + q < 6 * d + p
      /\ q <= 5 => 6 * (d - 1) + q < 6 * d + 1
  BY <1>1
<1> QED BY <1>1, <1>2 DEF d

(* The walk of Function::translateInstrs ends, whatever the code: each step, *)
(* of a switch to another function too, lowers a number that is never        *)
(* negative.  So translate takes at most Remaining steps.                    *)
THEOREM EndIsApproached == Spec => StepsApproachTheEnd
<1>1. WalkInv /\ WalkInv' /\ Next => 0 <= Remaining' /\ Remaining' < Remaining
  <2> SUFFICES ASSUME WalkInv, WalkInv', Next
               PROVE  0 <= Remaining' /\ Remaining' < Remaining
    OBVIOUS
  <2>1. /\ Size \in Nat /\ addr \in Nat /\ addr' \in Nat /\ func \in Nat
        /\ addr <= Size /\ addr' <= Size /\ func < Size /\ func <= addr
    BY SizeAssumption DEF WalkInv, TypeOK, FuncInv, Addr, BBAddr
  <2>2. /\ PhasesLeft \in Nat /\ PhasesLeft' \in Nat
        /\ PhasesLeft <= 5 /\ PhasesLeft' <= 5
    BY DEF PhasesLeft
  <2>3. 0 <= Remaining'
    BY <2>1, <2>2, StepsCount DEF Remaining
  <2>4. ASSUME addr' = addr, PhasesLeft' < PhasesLeft
        PROVE  0 <= Remaining' /\ Remaining' < Remaining
    BY <2>1, <2>2, <2>3, <2>4, StepsCount DEF Remaining
  <2>5. CASE EnterStep
    <3>1. addr' = addr /\ pc = "enter" /\ pc' \in {"instr", "undefined"}
      BY <2>5 DEF EnterStep, StayInBlock, EnterBlock, EnterErasedBlock
    <3> QED BY <2>4, <3>1 DEF PhasesLeft
  <2>6. CASE InstrStep
    <3>1. /\ addr' = addr /\ pc = "instr"
          /\ pc' \in {"record", "abort", "undefined"}
      BY <2>6
      DEF InstrStep, Translating, TranslatePlain, TranslateRegion,
          TranslateLeave, TranslateCall, JumpForward, JumpBack, JumpBackSplit,
          JumpAsserts, JumpToErased
    <3> QED BY <2>4, <3>1 DEF PhasesLeft
  <2>7. CASE RecordStep
    <3>1. pc = "record" /\ addr' = addr + 1
      BY <2>7 DEF RecordStep, Advance, RecordInstr, RecordLabel,
                  RecordLabelSplit
    <3>2. PhasesLeft = 1
      BY <3>1 DEF PhasesLeft
    <3> QED BY <2>1, <2>2, <2>3, <3>1, <3>2, StepsCount DEF Remaining
  <2>8. CASE Finish
    <3>1. /\ addr' = addr /\ pc = "enter" /\ addr # func
          /\ pc' \in {"done", "switch"}
      BY <2>1, <2>8 DEF Finish, AtEnd, AtNextFunc
    <3> QED BY <2>4, <3>1 DEF PhasesLeft
  <2>9. CASE StartNextFunction
    <3>1. /\ addr' = addr /\ func' = addr /\ pc = "switch"
          /\ pc' \in {"enter", "undefined"}
      BY <2>9 DEF StartNextFunction
    <3> QED BY <2>4, <3>1 DEF PhasesLeft
  <2> QED BY <2>5, <2>6, <2>7, <2>8, <2>9 DEF Next
<1> QED BY <1>1, WalkCorrect, PTL DEF Spec, StepsApproachTheEnd

-----------------------------------------------------------------------------
(* The functions found on the way.                                         *)

\* A call of its own address makes updateNextFuncAddr take the function that is
\* being translated for the next one, and forget the one ahead.
NoSelfCalls ==
    \A c \in Codes : \A a \in Addr : c[a].op = "call" => c[a].target # a

\* The walk has yet to switch to a function that starts at f.
IsAhead(f) == \/ f > addr
              \/ f = addr /\ (pc = "switch" \/ (pc = "enter" /\ addr # func))

\* The instruction a has been translated, and calls a label ahead of it.
CallsAhead(a) ==
    /\ a < addr \/ (a = addr /\ pc = "record")
    /\ code[a].op = "call" /\ code[a].target > a

\* The next function is the nearest of those ahead, and none is forgotten.
NextFuncNearest ==
    pc \in {"enter", "instr", "record"} =>
        \A f \in funcs : IsAhead(f) => IsAhead(nextFunc) /\ nextFunc <= f

FoundTranslated ==
    \A a \in Addr : CallsAhead(a) =>
        LET f == code[a].target IN f \in funcs /\ (IsAhead(f) \/ f \in bodies)

FoundInv ==
    /\ \A a \in Addr : code[a].op = "call" => code[a].target # a
    /\ NextFuncNearest
    /\ pc = "switch" => nextFunc = addr
    /\ pc = "done" => addr = Size
    /\ FoundTranslated

LEMMA InitFound ==
    ASSUME NoSelfCalls, Init
    PROVE  FoundInv
<1>1. \A f \in funcs : ~ IsAhead(f)
  BY DEF Init, IsAhead
<1>2. \A a \in Addr : ~ CallsAhead(a)
  BY AddrFacts DEF Init, CallsAhead
<1> QED BY <1>1, <1>2 DEF Init, FoundInv, NextFuncNearest, FoundTranslated, NoSelfCalls

LEMMA LowerBoundMember ==
    ASSUME NEW map, map \subseteq Nat, NEW a \in map
    PROVE  LowerBound(map, a) = a
<1> DEFINE b == LowerBound(map, a)
<1>1. \/ b = None /\ \A k \in map : k < a
      \/ b \in map /\ b >= a /\ \A k \in map : k >= a => b <= k
  BY LowerBoundFound
<1> HIDE DEF b
<1>2. a \in Nat /\ ~ (a < a)
  OBVIOUS
<1>3. b \in map /\ b >= a /\ b <= a
  BY <1>1, <1>2
<1>4. b = a
  BY <1>2, <1>3
<1> QED BY <1>4 DEF b

\* The types that the steps rely on.
LEMMA FoundFacts ==
    ASSUME WalkInv
    PROVE  /\ addr \in Nat /\ func \in Nat /\ nextFunc \in Nat /\ funcs \subseteq Nat
           /\ func <= addr
           /\ \A a \in Addr : a \in Nat /\ code[a].target \in Nat /\ code[a].target \in Addr
BY AddrFacts DEF WalkInv, FuncInv, TypeOK, Instr

\* The walk chooses a block: it is not at the start of the next function.
LEMMA EnterFound ==
    ASSUME WalkInv, FoundInv, pc = "enter", ~ AtEnd, pc' = "instr",
           UNCHANGED <<code, funcVars, addr>>
    PROVE  FoundInv'
<1>1. UNCHANGED <<func, bodies, funcs, nextFunc>>
  BY DEF funcVars
<1>2. addr = func \/ addr # nextFunc
  BY DEF AtEnd, AtNextFunc
<1>3. ASSUME NEW f \in funcs, IsAhead(f)
      PROVE  IsAhead(f)' \/ f = addr
  BY <1>3 DEF IsAhead
<1>4. ASSUME NEW f \in funcs, IsAhead(f)'
      PROVE  IsAhead(nextFunc)' /\ nextFunc <= f
  <2>1. f > addr
    BY <1>4 DEF IsAhead
  <2>2. IsAhead(nextFunc) /\ nextFunc <= f
    BY <2>1 DEF IsAhead, FoundInv, NextFuncNearest
  <2>3. nextFunc > addr
    BY <1>2, <2>2 DEF IsAhead
  <2> QED BY <1>1, <2>2, <2>3 DEF IsAhead
<1>5. \A a \in Addr : CallsAhead(a)' => CallsAhead(a)
  BY DEF CallsAhead
<1>6. ASSUME NEW f \in funcs, IsAhead(f)
      PROVE  IsAhead(f)'
  <2>1. nextFunc <= f /\ IsAhead(nextFunc)
    BY <1>6 DEF FoundInv, NextFuncNearest
  <2>2. nextFunc > addr
    BY <1>2, <2>1 DEF IsAhead
  <2> QED BY <2>1, <2>2, FoundFacts DEF IsAhead
<1> QED BY <1>1, <1>4, <1>5, <1>6 DEF FoundInv, NextFuncNearest, FoundTranslated

\* An instruction other than a call finds nothing.
LEMMA InstrFound ==
    ASSUME WalkInv, FoundInv, pc = "instr", pc' = "record", Op # "call",
           UNCHANGED <<code, funcVars, addr>>
    PROVE  FoundInv'
<1>1. UNCHANGED <<func, bodies, funcs, nextFunc>>
  BY DEF funcVars
<1>2. \A f : IsAhead(f)' <=> IsAhead(f)
  BY DEF IsAhead
<1>3. \A a \in Addr : CallsAhead(a)' => CallsAhead(a)
  BY DEF CallsAhead, Op
<1> QED BY <1>1, <1>2, <1>3 DEF FoundInv, NextFuncNearest, FoundTranslated

\* A call of a label: the function is known, and the nearest one stays next.
LEMMA TranslateCallFound ==
    ASSUME WalkInv, FoundInv, TranslateCall
    PROVE  FoundInv'
<1>1. /\ pc = "instr" /\ pc' = "record" /\ Op = "call"
      /\ UNCHANGED <<code, func, bodies, addr>>
      /\ funcs' = funcs \cup {Target}
  BY DEF TranslateCall, Translating, input
<1>2. addr \in Addr /\ Target \in Nat /\ Target # addr
  BY <1>1, InstrFacts, AddrFacts DEF FoundInv, Op, Target
<1>3. \A f : IsAhead(f)' <=> f > addr
  BY <1>1 DEF IsAhead
<1>4. \A f : IsAhead(f) <=> f > addr
  BY <1>1 DEF IsAhead
<1>5. \A f \in funcs : f > addr => nextFunc > addr /\ nextFunc <= f
  BY <1>1, <1>4 DEF FoundInv, NextFuncNearest
<1>6. \A f \in funcs' : f > addr => nextFunc' > addr /\ nextFunc' <= f
  <2>1. CASE Target \in funcs
    BY <1>1, <1>5, <2>1 DEF TranslateCall
  <2>2. CASE Target \notin funcs
    <3> DEFINE nf == LowerBound(funcs', Target)
    <3>1. funcs' \subseteq Nat
      BY <1>1, <1>2, FoundFacts
    <3>2. nf = Target
      <4>1. Target \in funcs'
        BY <1>1
      <4> QED BY <3>1, <4>1, LowerBoundMember
    <3>3. nextFunc' = IF nf = None \/ nf < addr \/ (nextFunc > addr /\ nextFunc < nf)
                      THEN nextFunc ELSE nf
      BY <2>2 DEF TranslateCall, UpdateNextFuncAddr
    <3>4. nf # None
      BY <1>2, <3>2 DEF None
    <3> HIDE DEF nf
    <3> QED BY <1>1, <1>2, <1>5, <3>2, <3>3, <3>4, FoundFacts
  <2> QED BY <2>1, <2>2
<1>7. \A a \in Addr : CallsAhead(a)' => CallsAhead(a) \/ (a = addr /\ Target > addr)
  BY <1>1 DEF CallsAhead, Target
<1>8. FoundTranslated'
  BY <1>1, <1>3, <1>4, <1>7 DEF FoundInv, FoundTranslated, Target
<1> QED BY <1>1, <1>3, <1>6, <1>8 DEF FoundInv, NextFuncNearest

\* From one instruction to the next.
LEMMA RecordFound ==
    ASSUME WalkInv, FoundInv, Advance, UNCHANGED <<code, funcVars>>
    PROVE  FoundInv'
<1>1. /\ UNCHANGED <<func, bodies, funcs, nextFunc>>
      /\ pc = "record" /\ pc' = "enter" /\ addr' = addr + 1
  BY DEF funcVars, Advance
<1>2. \A f \in Nat : IsAhead(f)' <=> IsAhead(f)
  BY <1>1, FoundFacts DEF IsAhead
<1>3. \A a \in Addr : CallsAhead(a)' => CallsAhead(a)
  BY <1>1, FoundFacts DEF CallsAhead
<1>4. NextFuncNearest'
  BY <1>1, <1>2, FoundFacts DEF FoundInv, NextFuncNearest
<1>5. FoundTranslated'
  BY <1>1, <1>2, <1>3, FoundFacts DEF FoundInv, FoundTranslated
<1> QED BY <1>1, <1>4, <1>5 DEF FoundInv

LEMMA FinishFound ==
    ASSUME WalkInv, FoundInv, Finish
    PROVE  FoundInv'
<1>1. /\ UNCHANGED <<code, addr, func, bodies, funcs, nextFunc>>
      /\ pc = "enter" /\ pc' \in {"done", "switch"}
      /\ pc' = "switch" => addr # func /\ nextFunc = addr
      /\ pc' = "done" => addr = Size
  BY DEF Finish, AtEnd, AtNextFunc, input, funcVars
<1>2. \A a \in Addr : CallsAhead(a)' => CallsAhead(a)
  BY <1>1 DEF CallsAhead
<1>3. \A f \in Addr : IsAhead(f) => IsAhead(f)'
  BY <1>1, AddrFacts DEF IsAhead, Addr
<1>4. FoundTranslated'
  BY <1>1, <1>2, <1>3, FoundFacts DEF FoundInv, FoundTranslated
<1> QED BY <1>1, <1>4 DEF FoundInv, NextFuncNearest

\* The new function receives its body, and the next one is looked for.
LEMMA StartNextFunctionFound ==
    ASSUME WalkInv, FoundInv, StartNextFunction
    PROVE  FoundInv'
<1>1. /\ UNCHANGED <<code, addr, funcs>> /\ pc = "switch" /\ nextFunc = addr
      /\ pc' \in {"enter", "undefined"} /\ func' = addr /\ bodies' = bodies \cup {addr}
      /\ nextFunc' = UpdateNextFuncAddr(addr + 1, funcs, addr)
  BY DEF StartNextFunction, FoundInv, input
<1>2. \A f : IsAhead(f)' <=> f > addr
  BY <1>1 DEF IsAhead
<1>3. \A f \in funcs : f > addr => nextFunc' > addr /\ nextFunc' <= f
  <2> DEFINE nf == LowerBound(funcs, addr + 1)
  <2>1. \/ nf = None /\ \A f \in funcs : f < addr + 1
        \/ nf \in funcs /\ nf >= addr + 1 /\ \A f \in funcs : f >= addr + 1 => nf <= f
    <3>1. funcs \subseteq Nat /\ addr + 1 \in Nat
      BY FoundFacts
    <3> QED BY <3>1, LowerBoundFound
  <2>2. nextFunc' = IF nf = None \/ nf < addr THEN nextFunc ELSE nf
    BY <1>1, FoundFacts DEF UpdateNextFuncAddr
  <2> HIDE DEF nf
  <2>3. CASE \A f \in funcs : f < addr + 1
    BY <2>3, FoundFacts
  <2>4. CASE nf \in funcs /\ nf >= addr + 1 /\ \A f \in funcs : f >= addr + 1 => nf <= f
    <3>1. nextFunc' = nf
      BY <2>2, <2>4, FoundFacts DEF None
    <3> QED BY <2>4, <3>1, FoundFacts
  <2> QED BY <2>1, <2>3, <2>4
<1>4. NextFuncNearest'
  BY <1>1, <1>2, <1>3 DEF NextFuncNearest
<1>5. \A a \in Addr : CallsAhead(a)' => CallsAhead(a)
  BY <1>1 DEF CallsAhead
<1>6. \A f : IsAhead(f) => IsAhead(f)' \/ f \in bodies'
  BY <1>1, <1>2 DEF IsAhead
<1>7. FoundTranslated'
  BY <1>1, <1>5, <1>6 DEF FoundInv, FoundTranslated
<1> QED BY <1>1, <1>4, <1>7 DEF FoundInv

\* Where the walk stops, nothing changes but pc.
LEMMA StopFound ==
    ASSUME WalkInv, FoundInv, pc' \in {"abort", "undefined"}, UNCHANGED <<code, funcVars, addr>>,
           pc = "instr" \/ (pc = "enter" /\ ~ AtEnd)
    PROVE  FoundInv'
<1>1. UNCHANGED <<func, bodies, funcs, nextFunc>>
  BY DEF funcVars
<1>2. \A a \in Addr : CallsAhead(a)' => CallsAhead(a)
  BY DEF CallsAhead
<1>3. ASSUME NEW f \in funcs, IsAhead(f)
      PROVE  IsAhead(f)'
  <2>1. nextFunc <= f /\ IsAhead(nextFunc)
    BY <1>3 DEF FoundInv, NextFuncNearest
  <2>2. nextFunc > addr
    BY <2>1 DEF IsAhead, AtEnd, AtNextFunc
  <2> QED BY <2>1, <2>2, FoundFacts DEF IsAhead
<1>4. FoundTranslated'
  BY <1>1, <1>2, <1>3 DEF FoundInv, FoundTranslated
<1> QED BY <1>1, <1>4 DEF FoundInv, NextFuncNearest

LEMMA StepFound ==
    ASSUME WalkInv, FoundInv, [Next]_vars
    PROVE  FoundInv'
<1>1. CASE UNCHANGED vars
  BY <1>1 DEF vars, input, funcVars, FoundInv, NextFuncNearest, FoundTranslated, IsAhead,
     CallsAhead
<1>2. CASE StayInBlock \/ EnterBlock
  BY <1>2, EnterFound DEF StayInBlock, EnterBlock, input
<1>3. CASE EnterErasedBlock \/ JumpAsserts \/ JumpToErased
  BY <1>3, StopFound DEF EnterErasedBlock, JumpAsserts, JumpToErased, input
<1>4. CASE TranslatePlain \/ TranslateRegion \/ TranslateLeave \/ JumpForward \/ JumpBack
           \/ JumpBackSplit
  BY <1>4, InstrFound DEF TranslatePlain, TranslateRegion, TranslateLeave, JumpForward,
     JumpBack, JumpBackSplit, Translating, Jumps, input
<1>5. CASE TranslateCall
  BY <1>5, TranslateCallFound
<1>6. CASE RecordStep
  BY <1>6, RecordFound DEF RecordStep, RecordInstr, RecordLabel, RecordLabelSplit, input
<1>7. CASE Finish
  BY <1>7, FinishFound
<1>8. CASE StartNextFunction
  BY <1>8, StartNextFunctionFound
<1> QED BY <1>1, <1>2, <1>3, <1>4, <1>5, <1>6, <1>7, <1>8 DEF Next, EnterStep, InstrStep

(* Every function that a call discovers ahead of it receives a body, however many *)
(* are found and in which order: _nextFuncAddr always is the nearest of those     *)
(* that the walk has yet to reach.                                                *)
THEOREM DiscoveredCorrect ==
    ASSUME NoSelfCalls
    PROVE  Spec => []DiscoveredFunctionsTranslated
<1>1. Init => FoundInv
  BY InitFound
<1>2. WalkInv /\ FoundInv /\ [Next]_vars => FoundInv'
  BY StepFound
<1>3. WalkInv /\ FoundInv => DiscoveredFunctionsTranslated
  <2> SUFFICES ASSUME WalkInv, FoundInv, pc = "done", NEW a \in Addr,
                      code[a].op = "call", code[a].target > a
               PROVE  code[a].target \in bodies
    BY DEF DiscoveredFunctionsTranslated
  <2>1. addr = Size
    BY DEF FoundInv
  <2>2. a < addr /\ code[a].target <= addr /\ code[a].target \in Nat
    BY <2>1, AddrFacts, FoundFacts DEF Addr
  <2>3. CallsAhead(a) /\ ~ IsAhead(code[a].target)
    BY <2>2, FoundFacts DEF CallsAhead, IsAhead
  <2> QED BY <2>3 DEF FoundInv, FoundTranslated
<1> QED BY <1>1, <1>2, <1>3, WalkCorrect, PTL DEF Spec

-----------------------------------------------------------------------------
(* The llvm function of every block.                                       *)

\* The functions that the code finds are entered by calls alone: no branch
\* leads over the start of one.
FunctionsApart == \A c \in Codes : \A t \in Found(c) : StaysBehind(c, t)

\* Where the functions of the range start, those ahead of the walk included.
Entries == {0} \cup Found(code)

\* No function of E starts between x and y.
Together(E, x, y) == \A t \in E : t <= x <=> t <= y

\* The function at hand is the one that holds addr, and nothing else is a
\* function than what a call has named.
RangeInv ==
    /\ \A t \in Found(code) : StaysBehind(code, t)
    /\ func \in Entries /\ nextFunc \in funcs
    /\ addr = func \/ Together(Entries, func, addr - 1)
    /\ pc \in {"instr", "record"} => Together(Entries, func, addr)
    /\ pc = "switch" => addr \in Entries
    /\ \A t \in Entries : t <= func => t \in bbMap
    /\ \A f \in funcs : f = 0 \/ \E a \in Addr :
          /\ a < addr \/ (a = addr /\ pc = "record")
          /\ code[a].op = "call" /\ code[a].target = f

\* Each block of M lies in the function that it was created in.
BlocksHome(E, M, h) == \A k \in M : h[k] \in E /\ Together(E, h[k], k)

\* Each terminator leads from a block to blocks of the same function.
TermsHome(E, M, tm) ==
    /\ \A b \in Block : \A s \in tm[b].succ : Together(E, b[1], s[1])
    /\ \A b \in Block : \A k \in BBAddr : Tracked(k) \in tm[b].succ => k \in M
    /\ \A k \in BBAddr : tm[Tracked(k)] # Open => k \in M
    /\ \A k \in BBAddr : tm[Untracked(k)].kind # "indbr"

GraphInv ==
    /\ BlocksHome(Entries, bbMap, home)
    /\ TermsHome(Entries, bbMap, term)
    /\ pc = "enter" =>
          /\ func <= insertBlock[1]
          /\ \A k \in BBAddr : insertBlock = Tracked(k) => k \in bbMap
    /\ \A l \in indBBs : l \in bbMap /\ func <= l /\ l < addr

HomeInv == RangeInv /\ GraphInv

\* Function ranges do not overlap: what lies between two addresses of a
\* function is in it.
LEMMA TogetherFacts ==
    ASSUME NEW E, E \subseteq Nat
    PROVE  /\ \A x \in Int : Together(E, x, x)
           /\ \A x \in Int, y \in Int : Together(E, x, y) => Together(E, y, x)
           /\ \A x \in Int, y \in Int, z \in Int :
                 Together(E, x, y) /\ Together(E, y, z) => Together(E, x, z)
           /\ \A x \in Int, y \in Int, z \in Int :
                 Together(E, x, z) /\ x <= y /\ y <= z => Together(E, x, y) /\ Together(E, y, z)
<1>1. \A t \in E : t \in Int
  OBVIOUS
<1>2. \A x \in Int, y \in Int, z \in Int :
         Together(E, x, z) /\ x <= y /\ y <= z => Together(E, x, y) /\ Together(E, y, z)
  BY <1>1 DEF Together
<1> QED BY <1>1, <1>2 DEF Together

LEMMA EntryFacts ==
    ASSUME WalkInv
    PROVE  /\ Entries \subseteq Nat /\ 0 \in Entries
           /\ addr \in Nat /\ addr \in BBAddr /\ func \in Nat /\ func <= addr /\ bbMap \subseteq BBAddr
           /\ addr + 1 \in Nat /\ addr - 1 \in Int
           /\ func \in bbMap
           /\ BBAddr \subseteq Nat /\ Addr \subseteq BBAddr
           /\ \A f \in Found(code) : \E a \in Addr : code[a].op = "call" /\ code[a].target = f /\ f > a
BY AddrFacts, FoundFacts DEF Entries, Found, WalkInv, FuncInv, TypeOK, Instr

\* A call has named every function that starts at an address already passed.
LEMMA EntryIsNext ==
    ASSUME WalkInv, FoundInv, pc = "enter", addr \in Entries, addr # func
    PROVE  addr = nextFunc
<1>1. addr # 0 /\ addr \in Nat /\ addr \in Found(code)
  BY EntryFacts DEF Entries
<1>2. PICK a \in Addr : code[a].op = "call" /\ code[a].target = addr /\ addr > a
  BY <1>1, EntryFacts
<1>3. addr \in funcs
  BY <1>2 DEF FoundInv, FoundTranslated, CallsAhead
<1>4. IsAhead(addr)
  BY DEF IsAhead
<1>5. IsAhead(nextFunc) /\ nextFunc <= addr
  BY <1>3, <1>4 DEF FoundInv, NextFuncNearest
<1> QED BY <1>1, <1>5, FoundFacts DEF IsAhead

LEMMA NextIsEntry ==
    ASSUME WalkInv, RangeInv, pc = "enter", addr = nextFunc, addr # func
    PROVE  addr \in Entries
<1>1. addr \in funcs /\ addr # 0
  BY EntryFacts DEF RangeInv
<1>2. PICK a \in Addr : a < addr /\ code[a].op = "call" /\ code[a].target = addr
  BY <1>1 DEF RangeInv
<1> QED BY <1>2 DEF Entries, Found

LEMMA InitHome ==
    ASSUME FunctionsApart, Init
    PROVE  HomeInv
<1>1. /\ func = 0 /\ addr = 0 /\ bbMap = {0} /\ funcs = {0} /\ nextFunc = 0 /\ pc = "enter"
      /\ indBBs = {} /\ code \in Codes /\ insertBlock = Tracked(0)
      /\ home = [k \in BBAddr |-> 0] /\ term = [b \in Block |-> Open]
  BY DEF Init
<1>2. Entries \subseteq Nat /\ 0 \in Entries /\ WalkInv
  BY InitWalk, EntryFacts
<1>3. RangeInv
  BY <1>1, <1>2 DEF RangeInv, FunctionsApart
<1>4. BlocksHome(Entries, bbMap, home)
  <2>1. Together(Entries, 0, 0) /\ 0 \in BBAddr
    BY <1>2, AddrFacts DEF Together
  <2>2. home[0] = 0
    BY <1>1, <2>1
  <2> QED BY <1>1, <1>2, <2>1, <2>2 DEF BlocksHome
<1>5. TermsHome(Entries, bbMap, term)
  <2>1. \A b \in Block : term[b] = Open
    BY <1>1
  <2> QED BY <2>1, BlockFacts DEF TermsHome, Open
<1>6. GraphInv
  BY <1>1, <1>4, <1>5, BlockFacts, AddrFacts DEF GraphInv
<1> QED BY <1>3, <1>6 DEF HomeInv

\* A step that goes on with the instruction, or stops.
LEMMA RangeStays ==
    ASSUME WalkInv, FoundInv, RangeInv, UNCHANGED <<code, addr, func, nextFunc>>,
           bbMap \subseteq bbMap', funcs' = funcs,
           \/ pc = "enter" /\ pc' = "instr" /\ ~ AtEnd
           \/ pc = "instr" /\ pc' = "record"
           \/ pc # "record" /\ pc' \in {"abort", "undefined", "done"}
           \/ pc' = pc
    PROVE  RangeInv'
<1>1. Entries' = Entries
  BY DEF Entries, Found
<1>2. pc' \in {"instr", "record"} => Together(Entries, func, addr)
  <2>1. CASE pc = "enter" /\ pc' = "instr" /\ ~ AtEnd
    <3>1. CASE addr = func
      BY <3>1, EntryFacts, TogetherFacts
    <3>2. CASE addr # func
      <4>1. addr \notin Entries
        BY <2>1, <3>2, EntryIsNext DEF AtEnd, AtNextFunc
      <4>2. Together(Entries, func, addr - 1)
        BY <3>2 DEF RangeInv
      <4>3. \A t \in Entries : t <= addr - 1 <=> t <= addr
        BY <4>1, EntryFacts
      <4> QED BY <4>2, <4>3 DEF Together
    <3> QED BY <3>1, <3>2
  <2>2. CASE ~ (pc = "enter" /\ pc' = "instr" /\ ~ AtEnd)
    BY <2>2 DEF RangeInv
  <2> QED BY <2>1, <2>2
<1>3. \A f \in funcs' : f = 0 \/ \E a \in Addr :
          /\ a < addr \/ (a = addr /\ pc' = "record")
          /\ code[a].op = "call" /\ code[a].target = f
  <2>1. pc = "record" => pc' = "record"
    OBVIOUS
  <2> QED BY <2>1 DEF RangeInv
<1> QED BY <1>1, <1>2, <1>3 DEF RangeInv

LEMMA TranslateCallRange ==
    ASSUME WalkInv, FoundInv, RangeInv, TranslateCall
    PROVE  RangeInv'
<1>1. /\ UNCHANGED <<code, addr, func, bbMap>> /\ pc = "instr" /\ pc' = "record"
      /\ funcs' = funcs \cup {Target} /\ Op = "call"
  BY DEF TranslateCall, Translating, input, bbVars
<1>2. Entries' = Entries
  BY <1>1 DEF Entries, Found
<1>3. nextFunc' \in funcs'
  <2>1. CASE Target \in funcs
    BY <1>1, <2>1 DEF RangeInv, TranslateCall
  <2>2. CASE Target \notin funcs
    <3>1. funcs' \subseteq Nat /\ Target \in funcs'
      BY <1>1, InstrFacts, FoundFacts, AddrFacts
    <3>2. LowerBound(funcs', Target) = Target
      BY <3>1, LowerBoundMember
    <3> QED BY <1>1, <2>2, <3>1, <3>2 DEF RangeInv, TranslateCall, UpdateNextFuncAddr
  <2> QED BY <2>1, <2>2
<1>4. \A f \in funcs' : f = 0 \/ \E a \in Addr :
          /\ a < addr' \/ (a = addr' /\ pc' = "record")
          /\ code'[a].op = "call" /\ code'[a].target = f
  <2>1. addr \in Addr /\ code[addr].op = "call" /\ code[addr].target = Target
    BY <1>1, InstrFacts DEF Op, Target
  <2> QED BY <1>1, <2>1 DEF RangeInv
<1> QED BY <1>1, <1>2, <1>3, <1>4 DEF RangeInv

LEMMA RecordRange ==
    ASSUME WalkInv, RangeInv, Advance, UNCHANGED <<code, func, funcs, nextFunc>>,
           bbMap \subseteq bbMap'
    PROVE  RangeInv'
<1>1. pc = "record" /\ pc' = "enter" /\ addr' = addr + 1 /\ addr' - 1 = addr
  BY EntryFacts DEF Advance
<1>2. Entries' = Entries
  BY DEF Entries, Found
<1>3. \A f \in funcs' : f = 0 \/ \E a \in Addr :
          /\ a < addr' \/ (a = addr' /\ pc' = "record")
          /\ code'[a].op = "call" /\ code'[a].target = f
  BY <1>1, FoundFacts DEF RangeInv
<1> QED BY <1>1, <1>2, <1>3 DEF RangeInv

LEMMA FinishRange ==
    ASSUME WalkInv, FoundInv, RangeInv, Finish
    PROVE  RangeInv'
<1>1. /\ UNCHANGED <<code, addr, func, bbMap, funcs, nextFunc>> /\ pc = "enter"
      /\ pc' \in {"done", "switch"}
      /\ pc' = "switch" => addr # func /\ nextFunc = addr
  BY DEF Finish, AtEnd, AtNextFunc, input, funcVars
<1>2. Entries' = Entries
  BY <1>1 DEF Entries, Found
<1>3. pc' = "switch" => addr \in Entries
  BY <1>1, NextIsEntry
<1> QED BY <1>1, <1>2, <1>3 DEF RangeInv

LEMMA StartNextFunctionRange ==
    ASSUME WalkInv, FoundInv, RangeInv, StartNextFunction
    PROVE  RangeInv'
<1>1. /\ UNCHANGED <<code, addr, funcs>> /\ pc = "switch" /\ nextFunc = addr
      /\ pc' \in {"enter", "undefined"} /\ func' = addr /\ bbMap' = bbMap \cup {addr}
      /\ nextFunc' = UpdateNextFuncAddr(addr + 1, funcs, addr) /\ func < addr
  BY DEF StartNextFunction, FoundInv, input, WalkInv, FuncInv
<1>2. Entries' = Entries
  BY <1>1 DEF Entries, Found
<1>3. nextFunc' \in funcs
  <2>1. funcs \subseteq Nat /\ addr + 1 \in Nat
    BY FoundFacts
  <2>2. LowerBound(funcs, addr + 1) = None \/ LowerBound(funcs, addr + 1) \in funcs
    BY <2>1, LowerBoundFound
  <2> QED BY <1>1, <2>2 DEF RangeInv, UpdateNextFuncAddr
<1>4. \A t \in Entries : t <= addr => t \in bbMap'
  <2> SUFFICES ASSUME NEW t \in Entries, t <= addr, t # addr PROVE t \in bbMap
    BY <1>1
  <2>1. t <= addr - 1
    BY EntryFacts
  <2>2. Together(Entries, func, addr - 1)
    BY <1>1, EntryFacts DEF RangeInv
  <2>3. t <= func
    BY <2>1, <2>2 DEF Together
  <2> QED BY <2>3 DEF RangeInv
<1>5. \A f \in funcs' : f = 0 \/ \E a \in Addr :
          /\ a < addr' \/ (a = addr' /\ pc' = "record")
          /\ code'[a].op = "call" /\ code'[a].target = f
  BY <1>1 DEF RangeInv
<1> QED BY <1>1, <1>2, <1>3, <1>4, <1>5 DEF RangeInv

-----------------------------------------------------------------------------
(* What the steps write.                                                   *)

\* A terminator is given to a block that exists.
LEMMA WriteTerm ==
    ASSUME NEW E, NEW M, NEW N, M \subseteq N, NEW tm \in [Block -> Term], TermsHome(E, M, tm),
           NEW b \in Block, NEW r,
           \A s \in r.succ : Together(E, b[1], s[1]),
           \A k \in BBAddr : Tracked(k) \in r.succ => k \in N,
           \A k \in BBAddr : b = Tracked(k) => k \in N,
           r.kind # "indbr" \/ \A k \in BBAddr : b # Untracked(k)
    PROVE  TermsHome(E, N, [tm EXCEPT ![b] = r])
<1> DEFINE t == [tm EXCEPT ![b] = r]
<1>1. t[b] = r /\ \A c \in Block : c # b => t[c] = tm[c]
  OBVIOUS
<1> HIDE DEF t
<1>2. \A c \in Block : \A s \in t[c].succ : Together(E, c[1], s[1])
  BY <1>1 DEF TermsHome
<1>3. \A c \in Block : \A k \in BBAddr : Tracked(k) \in t[c].succ => k \in N
  BY <1>1 DEF TermsHome
<1>4. ASSUME NEW k \in BBAddr
      PROVE  (t[Tracked(k)] # Open => k \in N) /\ t[Untracked(k)].kind # "indbr"
  <2>1. Tracked(k) \in Block /\ Untracked(k) \in Block
    BY BlockFacts
  <2> QED BY <1>1, <1>4, <2>1 DEF TermsHome
<1>5. TermsHome(E, N, t)
  BY <1>2, <1>3, <1>4 DEF TermsHome
<1> QED BY <1>5 DEF t

\* The tracked block at k has a place in the map.
LEMMA WriteTracked ==
    ASSUME NEW E, NEW M, NEW N, M \subseteq N, NEW tm \in [Block -> Term], TermsHome(E, M, tm),
           NEW k \in BBAddr, k \in N, NEW r,
           \A s \in r.succ : Together(E, k, s[1]),
           \A j \in BBAddr : Tracked(j) \in r.succ => j \in N
    PROVE  TermsHome(E, N, [tm EXCEPT ![Tracked(k)] = r])
<1> DEFINE b == Tracked(k)
<1>1. b \in Block /\ b[1] = k /\ (\A j \in BBAddr : b = Tracked(j) => j = k)
  BY BlockFacts
<1>2. \A j \in BBAddr : b # Untracked(j)
  BY BlockFacts
<1> HIDE DEF b
<1>3. \A s \in r.succ : Together(E, b[1], s[1])
  BY <1>1
<1>4. \A j \in BBAddr : b = Tracked(j) => j \in N
  BY <1>1
<1>5. TermsHome(E, N, [tm EXCEPT ![b] = r])
  BY <1>1, <1>2, <1>3, <1>4, WriteTerm
<1> QED BY <1>5 DEF b

\* Blocks are created in the function that is being translated.
LEMMA NewBBsHome ==
    ASSUME NEW E, BlocksHome(E, bbMap, home), bbMap \subseteq BBAddr,
           NEW S, S \subseteq BBAddr, NewBBs(S),
           func \in E, \A k \in S : Together(E, func, k)
    PROVE  BlocksHome(E, bbMap', home')
<1>1. bbMap' = bbMap \cup S /\ home' = [k \in BBAddr |-> IF k \in S \ bbMap THEN func ELSE home[k]]
  BY DEF NewBBs
<1> QED BY <1>1 DEF BlocksHome

\* Where the terminators lead to that the steps write.
LEMMA Leads ==
    /\ \A S \in SUBSET BBAddr :
          /\ \A s \in BrTo(S).succ : s[1] \in S
          /\ \A k \in BBAddr : Tracked(k) \in BrTo(S).succ => k \in S
          /\ \A s \in CondBrTo(S).succ : s[1] \in S
          /\ \A k \in BBAddr : Tracked(k) \in CondBrTo(S).succ => k \in S
          /\ BrTo(S).kind = "br" /\ CondBrTo(S).kind = "condbr"
    /\ Ret.succ = {} /\ IndBr.succ = {}
    /\ \A a \in BBAddr : /\ \A s \in RegionOf(a).succ : s[1] = a
                         /\ \A k \in BBAddr : Tracked(k) \notin RegionOf(a).succ
<1>1. ASSUME NEW S \in SUBSET BBAddr, NEW T, T = {Tracked(a) : a \in S}
      PROVE  (\A s \in T : s[1] \in S) /\ (\A k \in BBAddr : Tracked(k) \in T => k \in S)
  <2>1. \A a \in S : Tracked(a)[1] = a
    BY BlockFacts
  <2>2. \A k \in BBAddr : Tracked(k)[1] = k
    BY BlockFacts
  <2>3. \A s \in T : s[1] \in S
    BY <1>1, <2>1
  <2> QED BY <2>2, <2>3
<1>2. \A S \in SUBSET BBAddr :
          BrTo(S).succ = {Tracked(a) : a \in S} /\ CondBrTo(S).succ = {Tracked(a) : a \in S}
  BY DEF BrTo, CondBrTo
<1>3. \A a \in BBAddr : RegionOf(a).succ = {Untracked(a)}
  BY DEF RegionOf
<1>4. ASSUME NEW a \in BBAddr
      PROVE  /\ \A s \in RegionOf(a).succ : s[1] = a
             /\ \A k \in BBAddr : Tracked(k) \notin RegionOf(a).succ
  BY <1>3, BlockFacts
<1> QED BY <1>1, <1>2, <1>4 DEF BrTo, CondBrTo, Ret, IndBr

\* A split: the bottom part lies in the function of the block, and leads where it led.
LEMMA SplitHome ==
    ASSUME TypeOK, NEW E, E \subseteq Nat, NEW M, bbMap \subseteq M, NEW b \in bbMap, NEW t \in M, t \in BBAddr,
           TermsHome(E, bbMap, term), Together(E, b, t)
    PROVE  TermsHome(E, M, SplitTerm(term, b, t))
<1>1. Tracked(b) \in Block /\ Tracked(t) \in Block /\ Tracked(b)[1] = b /\ Tracked(t)[1] = t
      /\ term \in [Block -> Term] /\ b \in BBAddr /\ b \in Int /\ t \in Int
  BY BlockFacts, AddrFacts DEF TypeOK
<1>2. Together(E, t, b)
  BY <1>1, TogetherFacts
<1> DEFINE old == term[Tracked(b)]
           tm == [term EXCEPT ![Tracked(t)] = old]
<1>3. old \in Term /\ tm \in [Block -> Term]
  BY <1>1
<1>4. TermsHome(E, M, tm)
  <2>1. \A s \in old.succ : Together(E, b, s[1]) /\ s[1] \in Int
    BY <1>1, BlockFacts, AddrFacts DEF TermsHome, Term
  <2>2. \A s \in old.succ : Together(E, t, s[1])
    BY <1>1, <1>2, <2>1, TogetherFacts
  <2>3. \A k \in BBAddr : Tracked(k) \in old.succ => k \in M
    BY <1>1 DEF TermsHome
  <2> HIDE DEF old
  <2>4. TermsHome(E, M, [term EXCEPT ![Tracked(t)] = old])
    BY <1>1, <2>2, <2>3, WriteTracked
  <2> QED BY <2>4
<1> HIDE DEF tm, old
<1>5. /\ \A s \in BrTo({t}).succ : s[1] = t
      /\ \A k \in BBAddr : Tracked(k) \in BrTo({t}).succ => k = t
  BY Leads
<1>6. TermsHome(E, M, [tm EXCEPT ![Tracked(b)] = BrTo({t})])
  <2> DEFINE r == BrTo({t})
  <2>1. /\ \A s \in r.succ : Together(E, b, s[1])
        /\ \A k \in BBAddr : Tracked(k) \in r.succ => k \in M
    BY <1>5
  <2> HIDE DEF r
  <2>2. b \in M
    OBVIOUS
  <2>3. TermsHome(E, M, [tm EXCEPT ![Tracked(b)] = r])
    BY <1>1, <1>3, <1>4, <2>1, <2>2, WriteTracked
  <2> QED BY <2>3 DEF r
<1> QED BY <1>6 DEF SplitTerm, tm, old

-----------------------------------------------------------------------------
(* One lemma per step.                                                     *)

\* A step that changes no block.
LEMMA GraphStays ==
    ASSUME GraphInv, UNCHANGED <<code, func, addr, bbMap, home, term, indBBs>>,
           pc' # "enter" \/ (pc' = pc /\ insertBlock' = insertBlock)
    PROVE  GraphInv'
BY DEF GraphInv, Entries, Found

\* The block that is left goes on in the one that is entered.
LEMMA EnterBlockHome ==
    ASSUME WalkInv, HomeInv, EnterBlock, RangeInv'
    PROVE  GraphInv'
<1> DEFINE E == Entries
<1>1. /\ UNCHANGED <<code, func, addr, indBBs>> /\ pc = "enter" /\ pc' = "instr"
      /\ AtNextBB /\ ~ AtEnd /\ NewBBs({addr}) /\ term' = CloseBehind
  BY DEF EnterBlock, input, funcVars
<1>2. Entries' = E
  BY <1>1 DEF Entries, Found
<1>3. addr # func /\ func <= insertBlock[1] /\ insertBlock[1] < addr
  BY <1>1, EntryFacts DEF WalkInv, EnterInv, AtNextBB, HomeInv, GraphInv
<1>4. Together(E, func, addr) /\ func \in E
  BY <1>1, <1>2 DEF RangeInv
<1>5. /\ insertBlock \in Block /\ insertBlock[1] \in Int /\ addr \in BBAddr /\ addr \in Int
      /\ term \in [Block -> Term] /\ E \subseteq Nat /\ func \in Int /\ bbMap \subseteq BBAddr
  BY EntryFacts, BlockFacts DEF WalkInv, TypeOK
<1> HIDE DEF E
<1>6. Together(E, insertBlock[1], addr)
  <2> DEFINE i == insertBlock[1]
  <2>1. func <= i /\ i <= addr /\ i \in Int
    BY <1>3, <1>5
  <2> HIDE DEF i
  <2>2. Together(E, i, addr)
    BY <1>4, <1>5, <2>1, TogetherFacts
  <2> QED BY <2>2 DEF i
<1>7. bbMap' = bbMap \cup {addr}
  BY <1>1 DEF NewBBs
<1>8. BlocksHome(E, bbMap', home')
  BY <1>1, <1>4, <1>5, NewBBsHome DEF E, HomeInv, GraphInv
<1>9. TermsHome(E, bbMap', term')
  <2>1. TermsHome(E, bbMap, term)
    BY DEF E, HomeInv, GraphInv
  <2>2. CASE Terminated(insertBlock)
    BY <1>1, <1>7, <2>1, <2>2 DEF CloseBehind, TermsHome
  <2>3. CASE ~ Terminated(insertBlock)
    <3> DEFINE r == BrTo({addr})
    <3>1. /\ \A s \in r.succ : s[1] = addr
          /\ \A k \in BBAddr : Tracked(k) \in r.succ => k = addr
          /\ r.kind = "br"
      BY <1>5, Leads
    <3> HIDE DEF r
    <3>2. \A k \in BBAddr : insertBlock = Tracked(k) => k \in bbMap'
      BY <1>1, <1>7 DEF HomeInv, GraphInv
    <3>3. /\ \A s \in r.succ : Together(E, insertBlock[1], s[1])
          /\ \A k \in BBAddr : Tracked(k) \in r.succ => k \in bbMap'
      BY <1>6, <1>7, <3>1
    <3>4. TermsHome(E, bbMap', [term EXCEPT ![insertBlock] = r])
      BY <1>5, <1>7, <2>1, <3>1, <3>2, <3>3, WriteTerm
    <3> QED BY <1>1, <2>3, <3>4 DEF CloseBehind, r
  <2> QED BY <2>2, <2>3
<1>10. \A l \in indBBs : l \in bbMap' /\ func <= l /\ l < addr
  BY <1>7 DEF HomeInv, GraphInv
<1> QED BY <1>1, <1>2, <1>8, <1>9, <1>10 DEF GraphInv, E

\* The block at hand, while an instruction is translated.
LEMMA AtHandHome ==
    ASSUME WalkInv, HomeInv, pc = "instr"
    PROVE  /\ insertBlock = Tracked(insertBlock[1]) /\ insertBlock \in Block
           /\ insertBlock[1] \in bbMap /\ insertBlock[1] \in BBAddr /\ insertBlock[1] \in Int
           /\ Together(Entries, insertBlock[1], addr) /\ Together(Entries, func, addr)
           /\ func \in Entries /\ addr \in Int /\ addr \in Addr /\ func \in Int
           /\ term \in [Block -> Term] /\ Entries \subseteq Nat
           /\ TermsHome(Entries, bbMap, term) /\ BlocksHome(Entries, bbMap, home)
<1>1. /\ insertBlock = Tracked(insertBlock[1]) /\ insertBlock[1] \in BBAddr
      /\ insertBlock[1] >= func /\ insertBlock[1] <= addr /\ insertBlock[1] \in bbMap
      /\ addr \in Addr
  BY InstrFacts DEF Nearest
<1>2. /\ insertBlock[1] \in Int /\ addr \in Int /\ func \in Int /\ Entries \subseteq Nat
      /\ insertBlock \in Block /\ term \in [Block -> Term]
  BY <1>1, EntryFacts DEF WalkInv, TypeOK
<1>3. Together(Entries, func, addr) /\ func \in Entries
  BY DEF HomeInv, RangeInv
<1>4. Together(Entries, insertBlock[1], addr)
  BY <1>1, <1>2, <1>3, TogetherFacts
<1> QED BY <1>1, <1>2, <1>3, <1>4 DEF HomeInv, GraphInv

\* An instruction that leaves the function, or goes on in a region of its own.
LEMMA LeaveHome ==
    ASSUME WalkInv, HomeInv, TranslateLeave \/ TranslateRegion
    PROVE  GraphInv'
<1>1. /\ UNCHANGED <<code, func, addr, bbMap, home, indBBs>> /\ pc = "instr" /\ pc' = "record"
  BY DEF TranslateLeave, TranslateRegion, Translating, input, funcVars
<1>2. PICK r : /\ term' = [term EXCEPT ![insertBlock] = r]
               /\ \A s \in r.succ : s[1] = addr
               /\ \A k \in BBAddr : Tracked(k) \notin r.succ
  <2>1. CASE TranslateLeave
    BY <2>1, Leads DEF TranslateLeave, LeaveTerm
  <2>2. CASE TranslateRegion
    <3>1. term' = [term EXCEPT ![insertBlock] = RegionOf(addr)]
      BY <2>2 DEF TranslateRegion
    <3> QED BY <3>1, EntryFacts, Leads
  <2> QED BY <2>1, <2>2
<1>3. Entries' = Entries
  BY <1>1 DEF Entries, Found
<1>4. TermsHome(Entries, bbMap, term')
  <2> DEFINE k == insertBlock[1]
  <2>1. /\ insertBlock = Tracked(k) /\ k \in bbMap /\ k \in BBAddr /\ term \in [Block -> Term]
        /\ TermsHome(Entries, bbMap, term)
        /\ \A s \in r.succ : Together(Entries, k, s[1])
    BY <1>1, <1>2, AtHandHome
  <2> HIDE DEF k
  <2>2. TermsHome(Entries, bbMap, [term EXCEPT ![Tracked(k)] = r])
    BY <1>2, <2>1, WriteTracked
  <2> QED BY <1>2, <2>1, <2>2
<1> QED BY <1>1, <1>3, <1>4, AtHandHome DEF GraphInv, HomeInv

\* getBackBB finds nothing below the function: a jump that does not fail stays in it.
LEMMA BackTargetOwn ==
    ASSUME WalkInv, pc = "instr", Target < addr, BackTargetFound
    PROVE  Target >= func
<1>0. /\ Target \in Addr /\ Target \in Nat /\ func \in Nat
      /\ bbMap \subseteq Nat /\ func \in bbMap
  BY InstrFacts, AddrFacts DEF WalkInv, FuncInv
<1> SUFFICES ASSUME Target < func PROVE FALSE
  BY <1>0
<1>1. Nearest(instrMap[Target], Target)
  BY <1>0 DEF WalkInv, CodeInv
<1>2. AtOrBefore(OwnMap, Target) = {}
  <2> SUFFICES ASSUME NEW k \in bbMap, k >= func, k <= Target PROVE FALSE
    BY DEF AtOrBefore, OwnMap, AtOrAfter
  <2> QED BY <1>0
<1>3. GetBackBB(OwnMap, Target) = Min(OwnMap)
  BY <1>2 DEF GetBackBB
<1>4. LowerBound(bbMap, func) = func
  BY <1>0, LowerBoundMember
<1>5. func \in AtOrAfter(bbMap, func)
  BY <1>0 DEF AtOrAfter
<1>6. Min(OwnMap) = func
  BY <1>4, <1>5 DEF LowerBound, OwnMap
<1> QED BY <1>0, <1>1, <1>3, <1>6 DEF BackTargetFound, Nearest

\* Where a jump leads to is in the function that it is in.
LEMMA JumpTogether ==
    ASSUME WalkInv, HomeInv, pc = "instr", Op \in Jumps,
           Target > addr \/ (Target < addr /\ BackTargetFound)
    PROVE  /\ Together(Entries, addr, Target) /\ Together(Entries, addr, addr + 1)
           /\ Target \in BBAddr /\ addr + 1 \in BBAddr /\ Target \in Int /\ addr + 1 \in Int
<1>1. /\ Target \in Addr /\ Target \in Nat /\ Target \in BBAddr /\ addr \in Nat /\ addr \in Addr
      /\ addr + 1 \in BBAddr /\ func \in Nat
  BY InstrFacts, AddrFacts
<1>2. ASSUME NEW t \in Found(code), t > addr
      PROVE  Target < t /\ addr + 1 < t
  <2>1. t \in Nat
    BY EntryFacts DEF Entries
  <2>2. addr \in 0 .. t - 1
    BY <1>1, <1>2, <2>1
  <2> QED BY <2>2 DEF HomeInv, RangeInv, StaysBehind, Op, Target
<1>3. \A t \in Entries : t > addr => Target < t /\ addr + 1 < t
  BY <1>1, <1>2 DEF Entries
<1>4. Together(Entries, addr, addr + 1)
  BY <1>1, <1>3, EntryFacts DEF Together
<1>5. CASE Target > addr
  BY <1>1, <1>3, <1>4, <1>5, EntryFacts DEF Together
<1>6. CASE Target < addr /\ BackTargetFound
  <2>1. Target >= func
    BY <1>6, BackTargetOwn
  <2>2. Together(Entries, Target, addr)
    BY <1>1, <1>6, <2>1, AtHandHome, TogetherFacts
  <2> QED BY <1>1, <1>4, <2>2, AtHandHome, TogetherFacts
<1> QED BY <1>5, <1>6

\* The terminator of a jump leads to the blocks at its target and behind it.
LEMMA JumpTermLeads ==
    ASSUME Target \in BBAddr, addr + 1 \in BBAddr
    PROVE  /\ \A s \in JumpTerm.succ : s[1] \in {Target, addr + 1}
           /\ \A k \in BBAddr : Tracked(k) \in JumpTerm.succ => k \in {Target, addr + 1}
BY Leads DEF JumpTerm

\* A jump creates the blocks it leads to in the function.
LEMMA JumpHome ==
    ASSUME WalkInv, HomeInv, JumpForward \/ JumpBack
    PROVE  GraphInv'
<1>1. /\ UNCHANGED <<code, func, addr, indBBs>> /\ pc = "instr" /\ pc' = "record"
      /\ Op \in Jumps /\ (Target > addr \/ (Target < addr /\ BackTargetFound))
      /\ term' = [term EXCEPT ![insertBlock] = JumpTerm]
  BY DEF JumpForward, JumpBack, Translating, input, funcVars
<1>2. /\ Together(Entries, addr, Target) /\ Together(Entries, addr, addr + 1)
      /\ Target \in BBAddr /\ addr + 1 \in BBAddr /\ Target \in Int /\ addr + 1 \in Int
  BY <1>1, JumpTogether
<1>3. PICK S : NewBBs(S) /\ S \subseteq {Target, addr + 1} /\ {Target, addr + 1} \subseteq bbMap \cup S
  <2>1. CASE JumpForward
    BY <2>1 DEF JumpForward
  <2>2. CASE JumpBack
    <3>1. Nearest(Target, Target)
      <4>1. Nearest(instrMap[Target], Target)
        BY <1>1, <2>2, InstrFacts DEF JumpBack, WalkInv, CodeInv
      <4> QED BY <2>2, <4>1 DEF JumpBack, BackTargetFound
    <3> QED BY <2>2, <3>1 DEF JumpBack, Nearest
  <2> QED BY <2>1, <2>2
<1>4. Entries' = Entries /\ bbMap' = bbMap \cup S
  BY <1>1, <1>3 DEF Entries, Found, NewBBs
<1>5. BlocksHome(Entries, bbMap', home')
  <2>1. \A k \in S : Together(Entries, func, k)
    BY <1>1, <1>2, <1>3, AtHandHome, TogetherFacts
  <2> QED BY <1>1, <1>2, <1>3, <2>1, EntryFacts, AtHandHome, NewBBsHome
<1>6. TermsHome(Entries, bbMap', term')
  <2> DEFINE k == insertBlock[1]
             r == JumpTerm
  <2>1. /\ insertBlock = Tracked(k) /\ k \in bbMap /\ k \in BBAddr /\ term \in [Block -> Term]
        /\ TermsHome(Entries, bbMap, term) /\ k \in Int /\ Together(Entries, k, addr)
    BY <1>1, AtHandHome
  <2>2. /\ \A s \in r.succ : s[1] \in {Target, addr + 1}
        /\ \A j \in BBAddr : Tracked(j) \in r.succ => j \in {Target, addr + 1}
    BY <1>2, JumpTermLeads
  <2> HIDE DEF k, r
  <2>3. Together(Entries, k, Target) /\ Together(Entries, k, addr + 1)
    BY <1>1, <1>2, <2>1, AtHandHome, TogetherFacts
  <2>4. \A s \in r.succ : Together(Entries, k, s[1])
    BY <2>2, <2>3
  <2>5. \A j \in BBAddr : Tracked(j) \in r.succ => j \in bbMap'
    BY <1>3, <1>4, <2>2
  <2>6. bbMap \subseteq bbMap' /\ k \in bbMap'
    BY <1>4, <2>1
  <2>7. TermsHome(Entries, bbMap', [term EXCEPT ![Tracked(k)] = r])
    BY <2>1, <2>4, <2>5, <2>6, WriteTracked
  <2> QED BY <1>1, <2>1, <2>7 DEF r
<1> QED BY <1>1, <1>4, <1>5, <1>6 DEF GraphInv, HomeInv

\* A backward jump into a block: its bottom part stays in the function.
LEMMA JumpBackSplitHome ==
    ASSUME WalkInv, HomeInv, JumpBackSplit
    PROVE  GraphInv'
<1> DEFINE b == GetBackBB(OwnMap, Target)
<1>1. /\ UNCHANGED <<code, func, addr, indBBs>> /\ pc = "instr" /\ pc' = "record"
      /\ Op \in Jumps /\ Target < addr /\ BackTargetFound
      /\ bbMap' = bbMap \cup {Target, addr + 1} /\ b # Target
      /\ insertBlock' = BlockAfterSplit(b, Target)
      /\ term' = [SplitTerm(term, b, Target) EXCEPT ![insertBlock'] = JumpTerm]
      /\ home' = [k \in BBAddr |->
                     IF k = Target THEN home[b]
                     ELSE IF k \in {addr + 1} \ bbMap THEN func
                     ELSE home[k]]
  BY DEF JumpBackSplit, Translating, input, funcVars
<1>2. /\ Together(Entries, addr, Target) /\ Together(Entries, addr, addr + 1)
      /\ Target \in BBAddr /\ addr + 1 \in BBAddr /\ Target \in Int /\ addr + 1 \in Int
      /\ Target >= func
  BY <1>1, JumpTogether, BackTargetOwn
<1>3. /\ b \in bbMap /\ b <= Target /\ b \in BBAddr /\ b \in Int /\ func <= b
  <2>1. Nearest(instrMap[Target], Target) /\ instrMap[Target] = b
    BY <1>1, InstrFacts DEF WalkInv, CodeInv, BackTargetFound
  <2>2. b \in bbMap /\ b <= Target /\ \A j \in bbMap : j <= Target => j <= b
    BY <2>1 DEF Nearest
  <2> HIDE DEF b
  <2>3. func \in bbMap /\ bbMap \subseteq BBAddr /\ BBAddr \subseteq Nat /\ func \in Nat
    BY EntryFacts
  <2>4. func <= Target
    BY <1>2, <2>3
  <2> QED BY <2>2, <2>3, <2>4
<1> HIDE DEF b
<1>4. Entries' = Entries
  BY <1>1 DEF Entries, Found
<1>5. Together(Entries, b, Target) /\ Together(Entries, func, addr + 1)
  <2>1. Together(Entries, func, Target)
    BY <1>1, <1>2, AtHandHome, TogetherFacts
  <2> QED BY <1>1, <1>2, <1>3, <2>1, AtHandHome, TogetherFacts
<1>6. BlocksHome(Entries, bbMap', home')
  <2> SUFFICES ASSUME NEW k \in bbMap'
               PROVE  home'[k] \in Entries /\ Together(Entries, home'[k], k)
    BY DEF BlocksHome
  <2>1. k \in BBAddr
    BY <1>1, <1>2, EntryFacts
  <2>2. CASE k = Target
    <3>1. home'[k] = home[b] /\ home[b] \in Entries /\ Together(Entries, home[b], b)
      BY <1>1, <1>3, <2>1, <2>2, AtHandHome DEF BlocksHome
    <3> DEFINE h == home[b]
    <3> HIDE DEF h
    <3>2. h \in Entries /\ h \in Int /\ Together(Entries, h, b)
      BY <3>1, EntryFacts DEF h
    <3>3. Together(Entries, h, Target)
      BY <1>1, <1>2, <1>3, <1>5, <3>2, AtHandHome, TogetherFacts
    <3> QED BY <2>2, <3>1, <3>3 DEF h
  <2>3. CASE k # Target /\ k \in {addr + 1} \ bbMap
    BY <1>1, <1>5, <2>1, <2>3, AtHandHome
  <2>4. CASE k # Target /\ k \notin {addr + 1} \ bbMap
    <3>1. home'[k] = home[k] /\ k \in bbMap
      BY <1>1, <2>1, <2>4
    <3> QED BY <1>1, <3>1, AtHandHome DEF BlocksHome
  <2> QED BY <2>2, <2>3, <2>4
<1>7. TermsHome(Entries, bbMap', SplitTerm(term, b, Target))
  <2>1. TypeOK /\ bbMap \subseteq bbMap' /\ Target \in bbMap' /\ TermsHome(Entries, bbMap, term)
    BY <1>1, AtHandHome DEF WalkInv
  <2> QED BY <1>2, <1>3, <1>5, <2>1, EntryFacts, SplitHome
<1>8. \E k \in bbMap' : insertBlock' = Tracked(k) /\ k \in BBAddr /\ Together(Entries, k, addr)
  <2>1. CASE insertBlock = Tracked(b)
    <3>1. insertBlock' = Tracked(Target) /\ Target \in bbMap'
      BY <1>1, <2>1 DEF BlockAfterSplit
    <3>2. Together(Entries, Target, addr)
      BY <1>1, <1>2, AtHandHome, TogetherFacts
    <3> QED BY <1>2, <3>1, <3>2
  <2>2. CASE insertBlock # Tracked(b)
    <3>1. insertBlock' = insertBlock /\ bbMap \subseteq bbMap'
      BY <1>1, <2>2 DEF BlockAfterSplit
    <3> QED BY <1>1, <3>1, AtHandHome
  <2> QED BY <2>1, <2>2
<1>9. TermsHome(Entries, bbMap', term')
  <2> DEFINE r == JumpTerm
             tm == SplitTerm(term, b, Target)
  <2>1. PICK k \in bbMap' : insertBlock' = Tracked(k) /\ k \in BBAddr /\ Together(Entries, k, addr)
    BY <1>8
  <2>2. /\ \A s \in r.succ : s[1] \in {Target, addr + 1}
        /\ \A j \in BBAddr : Tracked(j) \in r.succ => j \in {Target, addr + 1}
    BY <1>2, JumpTermLeads
  <2>3. term' = [tm EXCEPT ![Tracked(k)] = r] /\ TermsHome(Entries, bbMap', tm)
    BY <1>1, <1>7, <2>1
  <2>4. tm \in [Block -> Term]
    <3>1. term \in [Block -> Term] /\ BrTo({Target}) \in Term /\ Tracked(b) \in Block
      BY <1>1, <1>2, <1>3, AtHandHome, TermFacts, BlockFacts
    <3> QED BY <3>1 DEF SplitTerm
  <2> HIDE DEF tm, r
  <2>5. Together(Entries, k, Target) /\ Together(Entries, k, addr + 1)
    <3>1. k \in Int
      BY <2>1, AddrFacts
    <3> QED BY <1>1, <1>2, <2>1, <3>1, AtHandHome, TogetherFacts
  <2>6. /\ \A s \in r.succ : Together(Entries, k, s[1])
        /\ \A j \in BBAddr : Tracked(j) \in r.succ => j \in bbMap'
    BY <1>1, <2>2, <2>5
  <2>7. TermsHome(Entries, bbMap', [tm EXCEPT ![Tracked(k)] = r])
    BY <2>1, <2>3, <2>4, <2>6, WriteTracked
  <2> QED BY <2>3, <2>7
<1> QED BY <1>1, <1>4, <1>6, <1>9 DEF GraphInv, HomeInv

\* The instruction at hand joins its block.
LEMMA RecordInPlaceHome ==
    ASSUME WalkInv, HomeInv, RecordInstr \/ RecordLabel
    PROVE  GraphInv'
<1>1. /\ UNCHANGED <<code, func, bbMap, home, term, insertBlock>> /\ pc = "record"
      /\ addr' = addr + 1 /\ indBBs' \subseteq indBBs \cup {addr}
      /\ addr \in indBBs' => addr \in bbMap \/ addr \in indBBs
  <2>1. Nearest(first, addr)
    BY RecordFacts DEF RecordInstr, RecordLabel, Advance
  <2> QED BY <2>1 DEF RecordInstr, RecordLabel, Advance, input, funcVars, Nearest
<1>2. Entries' = Entries
  BY <1>1 DEF Entries, Found
<1>3. /\ func \in Nat /\ addr \in Nat /\ func <= addr /\ first \in Nat /\ first >= func
      /\ first \in bbMap /\ insertBlock \in {Tracked(first), Untracked(addr)}
      /\ addr \in BBAddr /\ first \in BBAddr
  BY <1>1, RecordFacts, AddrFacts DEF Nearest
<1>4. func <= insertBlock[1] /\ \A k \in BBAddr : insertBlock = Tracked(k) => k \in bbMap
  BY <1>3, BlockFacts
<1>5. \A l \in indBBs' : l \in bbMap /\ func <= l /\ l < addr + 1
  <2> SUFFICES ASSUME NEW l \in indBBs' PROVE l \in bbMap /\ func <= l /\ l < addr + 1
    OBVIOUS
  <2>1. l \in indBBs => l \in bbMap /\ func <= l /\ l < addr
    BY DEF HomeInv, GraphInv
  <2>2. l \in bbMap => l \in Nat
    BY EntryFacts
  <2> QED BY <1>1, <1>3, <2>1, <2>2
<1> QED BY <1>1, <1>2, <1>4, <1>5 DEF GraphInv, HomeInv

\* A label that data refers to: the split stays in the function.
LEMMA RecordLabelSplitHome ==
    ASSUME WalkInv, HomeInv, RecordLabelSplit
    PROVE  GraphInv'
<1>1. /\ UNCHANGED <<code, func>> /\ pc = "record" /\ addr' = addr + 1 /\ first # addr
      /\ bbMap' = bbMap \cup {addr} /\ home' = [home EXCEPT ![addr] = home[first]]
      /\ term' = SplitTerm(term, first, addr) /\ insertBlock' = Tracked(addr)
      /\ indBBs' = indBBs \cup {addr}
  BY DEF RecordLabelSplit, Advance, input, funcVars
<1>2. Entries' = Entries
  BY <1>1 DEF Entries, Found
<1>3. /\ func \in Nat /\ addr \in Nat /\ addr \in BBAddr /\ func <= addr /\ addr + 1 \in Nat
      /\ first \in Nat /\ func <= first /\ first <= addr /\ first \in bbMap /\ first \in BBAddr
      /\ Entries \subseteq Nat /\ home \in [BBAddr -> Addr] /\ bbMap \subseteq BBAddr /\ TypeOK
  BY <1>1, RecordFacts, EntryFacts DEF Nearest, TypeOK
<1>4. Together(Entries, first, addr)
  <2>1. Together(Entries, func, addr)
    BY <1>1 DEF HomeInv, RangeInv
  <2> QED BY <1>3, <2>1 DEF Together
<1>5. BlocksHome(Entries, bbMap, home) /\ TermsHome(Entries, bbMap, term)
  BY DEF HomeInv, GraphInv
<1>6. BlocksHome(Entries, bbMap', home')
  <2>1. home[first] \in Entries /\ Together(Entries, home[first], first)
    BY <1>3, <1>5 DEF BlocksHome
  <2> DEFINE h == home[first]
  <2>2. h \in Entries /\ Together(Entries, h, first)
    BY <2>1
  <2> HIDE DEF h
  <2>3. Together(Entries, h, addr)
    BY <1>4, <2>2 DEF Together
  <2>4. home'[addr] = h /\ \A k \in bbMap : k # addr => home'[k] = home[k]
    BY <1>1, <1>3 DEF h
  <2> QED BY <1>1, <1>5, <2>2, <2>3, <2>4 DEF BlocksHome
<1>7. TermsHome(Entries, bbMap', term')
  <2>1. bbMap \subseteq bbMap' /\ addr \in bbMap'
    BY <1>1
  <2> QED BY <1>1, <1>3, <1>4, <1>5, <2>1, SplitHome
<1>8. func <= insertBlock'[1] /\ \A k \in BBAddr : insertBlock' = Tracked(k) => k \in bbMap'
  BY <1>1, <1>3, BlockFacts
<1>9. \A l \in indBBs' : l \in bbMap' /\ func <= l /\ l < addr + 1
  <2> SUFFICES ASSUME NEW l \in indBBs' PROVE l \in bbMap' /\ func <= l /\ l < addr + 1
    OBVIOUS
  <2>1. l \in indBBs => l \in bbMap /\ func <= l /\ l < addr
    BY DEF HomeInv, GraphInv
  <2>2. l \in bbMap => l \in Nat
    BY EntryFacts
  <2> QED BY <1>1, <1>3, <2>1, <2>2
<1> QED BY <1>1, <1>2, <1>6, <1>7, <1>8, <1>9 DEF GraphInv

\* finish() lets the indirect jumps of the function go to its own labels.
LEMMA FinishHome ==
    ASSUME WalkInv, HomeInv, Finish
    PROVE  GraphInv'
<1>1. /\ UNCHANGED <<code, func, addr, bbMap, home, indBBs>> /\ pc = "enter" /\ AtEnd
      /\ pc' # "enter" /\ term' = FinishTerm
  BY DEF Finish, input, funcVars
<1>2. Entries' = Entries
  BY <1>1 DEF Entries, Found
<1>3. /\ func \in Nat /\ addr \in Nat /\ func <= addr /\ addr # func /\ Entries \subseteq Nat
      /\ indBBs \subseteq BBAddr /\ bbMap \subseteq BBAddr /\ insertBlock \in Block
      /\ term \in [Block -> Term] /\ BBAddr \subseteq Nat
  <2>1. addr # func
    BY <1>1, AddrFacts DEF AtEnd, AtNextFunc, WalkInv, TypeOK, Addr
  <2> QED BY <2>1, EntryFacts DEF WalkInv, TypeOK, HomeInv, GraphInv
<1>4. Together(Entries, func, addr - 1)
  BY <1>3 DEF HomeInv, RangeInv
<1>5. \A x \in Nat, y \in Nat :
         func <= x /\ x < addr /\ func <= y /\ y < addr => Together(Entries, x, y)
  <2>1. \A x \in Nat : func <= x /\ x < addr => Together(Entries, func, x)
    BY <1>3, <1>4 DEF Together
  <2> QED BY <2>1 DEF Together
<1> DEFINE ind(b) == term[b].kind = "indbr" /\ b[1] >= func
<1>6. \A b \in Block :
         /\ ind(b) => term'[b] = [kind |-> "indbr", succ |-> {Tracked(l) : l \in indBBs}]
         /\ ~ ind(b) => (term'[b] = Ret /\ b = insertBlock) \/ term'[b] = term[b]
  BY <1>1 DEF FinishTerm
<1>7. ASSUME NEW b \in Block, ind(b)
      PROVE  /\ \E k \in BBAddr : b = Tracked(k) /\ k < addr
             /\ b[1] \in Nat /\ func <= b[1] /\ b[1] < addr /\ b[1] \in bbMap
  <2>1. b[1] \in BBAddr /\ b[1] \in Nat /\ func <= b[1] /\ term[b].kind = "indbr"
    BY <1>3, <1>7, BlockFacts
  <2>2. b = Tracked(b[1])
    <3>1. TermsHome(Entries, bbMap, term)
      BY DEF HomeInv, GraphInv
    <3>2. b # Untracked(b[1])
      BY <2>1, <3>1 DEF TermsHome
    <3>3. b[2] \in BOOLEAN /\ b = <<b[1], b[2]>>
      BY DEF Block
    <3> QED BY <3>2, <3>3 DEF Tracked, Untracked
  <2>3. term[Tracked(b[1])] # Open
    BY <2>1, <2>2 DEF Open
  <2>4. b[1] < addr
    BY <1>1, <1>3, <2>1, <2>3 DEF WalkInv, EnterInv, OpenFrom
  <2>5. b[1] \in bbMap
    BY <2>1, <2>3 DEF HomeInv, GraphInv, TermsHome
  <2> QED BY <2>1, <2>2, <2>4, <2>5
<1>8. TermsHome(Entries, bbMap, term')
  <2>0. TermsHome(Entries, bbMap, term)
    BY DEF HomeInv, GraphInv
  <2>1. ASSUME NEW b \in Block, NEW s \in term'[b].succ
        PROVE  /\ Together(Entries, b[1], s[1])
               /\ \A k \in BBAddr : s = Tracked(k) => k \in bbMap
    <3>1. CASE ind(b)
      <4>0. term'[b] = [kind |-> "indbr", succ |-> {Tracked(l) : l \in indBBs}]
        BY <1>6, <3>1
      <4>1. PICK l \in indBBs : s = Tracked(l)
        BY <2>1, <4>0
      <4>2. l \in bbMap /\ func <= l /\ l < addr /\ l \in BBAddr
        BY <1>3 DEF HomeInv, GraphInv
      <4>3. s[1] = l /\ \A k \in BBAddr : s = Tracked(k) => k = l
        BY <4>1, <4>2, BlockFacts
      <4> DEFINE x == b[1]
      <4>4. x \in Nat /\ func <= x /\ x < addr
        BY <1>7, <3>1
      <4> HIDE DEF x
      <4>5. Together(Entries, x, l)
        BY <1>3, <1>5, <4>2, <4>4
      <4> QED BY <4>2, <4>3, <4>5 DEF x
    <3>2. CASE ~ ind(b)
      <4>1. s \in term[b].succ
        BY <1>6, <2>1, <3>2, Leads
      <4> QED BY <2>0, <4>1 DEF TermsHome
    <3> QED BY <3>1, <3>2
  <2>2. ASSUME NEW k \in BBAddr, term'[Tracked(k)] # Open
        PROVE  k \in bbMap
    <3>1. Tracked(k) \in Block /\ Tracked(k)[1] = k
      BY BlockFacts
    <3>2. CASE ind(Tracked(k))
      BY <1>7, <3>1, <3>2
    <3>3. CASE ~ ind(Tracked(k))
      <4>1. term[Tracked(k)] # Open \/ Tracked(k) = insertBlock
        BY <1>6, <2>2, <3>1, <3>3
      <4> QED BY <1>1, <2>0, <4>1 DEF TermsHome, HomeInv, GraphInv
    <3> QED BY <3>2, <3>3
  <2>3. ASSUME NEW k \in BBAddr
        PROVE  term'[Untracked(k)].kind # "indbr"
    <3>1. Untracked(k) \in Block /\ ~ ind(Untracked(k))
      BY <2>0, BlockFacts DEF TermsHome
    <3>2. Ret.kind = "ret"
      BY DEF Ret
    <3>3. term'[Untracked(k)] = Ret \/ term'[Untracked(k)] = term[Untracked(k)]
      BY <1>6, <3>1
    <3>4. term[Untracked(k)].kind # "indbr"
      BY <2>0 DEF TermsHome
    <3> QED BY <3>2, <3>3, <3>4
  <2> QED BY <2>1, <2>2, <2>3 DEF TermsHome
<1> QED BY <1>1, <1>2, <1>8 DEF GraphInv, HomeInv

\* The first block of a function is created in it.
LEMMA StartNextFunctionHome ==
    ASSUME WalkInv, HomeInv, StartNextFunction
    PROVE  GraphInv'
<1>1. /\ UNCHANGED <<code, addr, term>> /\ pc = "switch" /\ func' = addr
      /\ bbMap' = bbMap \cup {addr} /\ indBBs' = {} /\ insertBlock' = Tracked(addr)
      /\ home' = [home EXCEPT ![addr] = IF addr \in bbMap THEN home[addr] ELSE addr]
  BY DEF StartNextFunction, input
<1>2. Entries' = Entries
  BY <1>1 DEF Entries, Found
<1>3. /\ addr \in Entries /\ addr \in BBAddr /\ addr \in Nat
      /\ home \in [BBAddr -> Addr] /\ bbMap \subseteq BBAddr
      /\ Together(Entries, addr, addr)
      /\ BlocksHome(Entries, bbMap, home) /\ TermsHome(Entries, bbMap, term)
  BY <1>1, EntryFacts DEF HomeInv, GraphInv, RangeInv, WalkInv, TypeOK, Together
<1>4. \A k \in bbMap' : IF k \in bbMap THEN home'[k] = home[k] ELSE k = addr /\ home'[k] = addr
  BY <1>1, <1>3
<1>5. BlocksHome(Entries, bbMap', home')
  BY <1>3, <1>4 DEF BlocksHome
<1>6. TermsHome(Entries, bbMap', term)
  BY <1>1, <1>3 DEF TermsHome
<1>7. addr <= insertBlock'[1] /\ \A k \in BBAddr : insertBlock' = Tracked(k) => k \in bbMap'
  BY <1>1, <1>3, BlockFacts
<1> QED BY <1>1, <1>2, <1>5, <1>6, <1>7 DEF GraphInv

LEMMA StepHome ==
    ASSUME WalkInv, FoundInv, HomeInv, [Next]_vars
    PROVE  HomeInv'
<1>1. CASE UNCHANGED vars
  <2>1. RangeInv'
    BY <1>1 DEF vars, input, funcVars, bbVars, HomeInv, RangeInv, Entries, Found
  <2> QED BY <1>1, <2>1, GraphStays DEF vars, input, funcVars, bbVars, HomeInv
<1>2. CASE StayInBlock \/ EnterErasedBlock \/ TranslatePlain \/ JumpAsserts \/ JumpToErased
  <2>1. RangeInv'
    BY <1>2, RangeStays DEF StayInBlock, EnterErasedBlock, TranslatePlain, JumpAsserts, JumpToErased,
       Translating, input, funcVars, bbVars, HomeInv
  <2> QED BY <1>2, <2>1, GraphStays DEF StayInBlock, EnterErasedBlock, TranslatePlain, JumpAsserts,
     JumpToErased, Translating, input, funcVars, bbVars, HomeInv
<1>3. CASE TranslateCall
  <2>1. RangeInv'
    BY <1>3, TranslateCallRange DEF HomeInv
  <2> QED BY <1>3, <2>1, GraphStays DEF TranslateCall, Translating, input, bbVars, HomeInv
<1>4. CASE EnterBlock
  <2>1. RangeInv'
    BY <1>4, RangeStays DEF EnterBlock, NewBBs, input, funcVars, HomeInv
  <2> QED BY <1>4, <2>1, EnterBlockHome DEF HomeInv
<1>5. CASE TranslateRegion \/ TranslateLeave
  <2>1. RangeInv'
    BY <1>5, RangeStays DEF TranslateRegion, TranslateLeave, Translating, input, funcVars, HomeInv
  <2> QED BY <1>5, <2>1, LeaveHome DEF HomeInv
<1>6. CASE JumpForward \/ JumpBack \/ JumpBackSplit
  <2>1. RangeInv'
    BY <1>6, RangeStays DEF JumpForward, JumpBack, JumpBackSplit, Translating, NewBBs, input, funcVars,
       HomeInv
  <2> QED BY <1>6, <2>1, JumpHome, JumpBackSplitHome DEF HomeInv
<1>7. CASE RecordStep
  <2>1. RangeInv'
    BY <1>7, RecordRange DEF RecordStep, RecordInstr, RecordLabel, RecordLabelSplit, input, funcVars,
       HomeInv
  <2> QED BY <1>7, <2>1, RecordInPlaceHome, RecordLabelSplitHome DEF RecordStep, HomeInv
<1>8. CASE Finish
  BY <1>8, FinishRange, FinishHome DEF HomeInv
<1>9. CASE StartNextFunction
  BY <1>9, StartNextFunctionRange, StartNextFunctionHome DEF HomeInv
<1> QED BY <1>1, <1>2, <1>3, <1>4, <1>5, <1>6, <1>7, <1>8, <1>9 DEF Next, EnterStep, InstrStep

\* The llvm function of a block is the one that its address lies in.
LEMMA HomeOfBlock ==
    ASSUME WalkInv, HomeInv, NEW b \in Homed,
           \A k \in BBAddr : b = Tracked(k) => k \in bbMap
    PROVE  HomeOf(b) \in Entries /\ Together(Entries, HomeOf(b), b[1]) /\ b[1] \in Nat
<1>0. b \in Block /\ b[1] \in BBAddr /\ b[1] \in Nat /\ BlocksHome(Entries, bbMap, home)
  BY BlockFacts, AddrFacts DEF Homed, HomeInv, GraphInv
<1>1. CASE ~ IsUntracked(b)
  <2>1. b[1] \in bbMap
    BY <1>0, <1>1, BlockFacts
  <2>2. HomeOf(b) = home[b[1]]
    BY <1>1 DEF HomeOf
  <2> QED BY <1>0, <2>1, <2>2 DEF BlocksHome
<1>2. CASE IsUntracked(b)
  <2> DEFINE a == b[1]
             k == instrMap[a]
  <2>1. a \in Addr /\ k # None
    BY <1>2 DEF Homed
  <2>2. a < addr /\ Nearest(k, a)
    BY <2>1 DEF WalkInv, CodeInv
  <2>3. HomeOf(b) = home[k]
    BY <1>2 DEF HomeOf
  <2> HIDE DEF a, k
  <2>4. k \in bbMap /\ k <= a /\ \A j \in bbMap : j <= a => j <= k
    BY <2>2 DEF Nearest
  <2>5. a \in Nat /\ k \in Nat
    BY <2>1, <2>4, EntryFacts, AddrFacts
  <2>6. \A t \in Entries : t <= a => t <= func
    BY <2>2, <2>5, EntryFacts DEF HomeInv, RangeInv, Together
  <2>7. \A t \in Entries : t <= a => t <= k
    BY <2>4, <2>6 DEF HomeInv, RangeInv
  <2>8. Together(Entries, k, a)
    BY <2>4, <2>5, <2>7, EntryFacts DEF Together
  <2> DEFINE h == home[k]
  <2>9. h \in Entries /\ Together(Entries, h, k)
    BY <1>0, <2>4 DEF BlocksHome
  <2> HIDE DEF h
  <2>10. Together(Entries, h, a)
    BY <2>5, <2>8, <2>9, EntryFacts, TogetherFacts
  <2> QED BY <1>0, <2>3, <2>9, <2>10 DEF h, a
<1> QED BY <1>1, <1>2

(* A branch never leaves the llvm function that holds it, whichever functions are *)
(* found on the way: blocks that are created ahead or by a split are in the       *)
(* function that they will be translated in.                                      *)
THEOREM HomeCorrect ==
    ASSUME NoSelfCalls, FunctionsApart
    PROVE  Spec => []BranchesStayHome
<1>1. Init => FoundInv /\ HomeInv
  BY InitFound, InitHome
<1>2. WalkInv /\ FoundInv /\ HomeInv /\ [Next]_vars => FoundInv' /\ HomeInv'
  BY StepFound, StepHome
<1>3. WalkInv /\ HomeInv => BranchesStayHome
  <2> SUFFICES ASSUME WalkInv, HomeInv, NEW b \in Homed, NEW s \in term[b].succ \cap Homed
               PROVE  HomeOf(s) = HomeOf(b)
    BY DEF BranchesStayHome
  <2>1. b \in Block /\ s \in Block /\ TermsHome(Entries, bbMap, term)
    BY DEF Homed, HomeInv, GraphInv
  <2>2. Together(Entries, b[1], s[1])
    BY <2>1 DEF TermsHome
  <2>3. \A k \in BBAddr : b = Tracked(k) => k \in bbMap
    BY <2>1 DEF TermsHome, Open
  <2>4. \A k \in BBAddr : s = Tracked(k) => k \in bbMap
    BY <2>1 DEF TermsHome
  <2> DEFINE x == b[1]
             y == s[1]
             f == HomeOf(b)
             g == HomeOf(s)
  <2>5. f \in Entries /\ Together(Entries, f, x) /\ x \in Nat
    BY <2>3, HomeOfBlock
  <2>6. g \in Entries /\ Together(Entries, g, y) /\ y \in Nat
    BY <2>4, HomeOfBlock
  <2> HIDE DEF f, g, x, y
  <2>7. Together(Entries, x, y)
    BY <2>2 DEF x, y
  <2>8. f <= g /\ g <= f
    BY <2>5, <2>6, <2>7, EntryFacts DEF Together
  <2>9. f = g
    BY <2>5, <2>6, <2>8, EntryFacts
  <2> QED BY <2>9 DEF f, g
<1> QED BY <1>1, <1>2, <1>3, WalkCorrect, PTL DEF Spec
=============================================================================
