--------------------------- MODULE HostRunProofs ----------------------------
(***************************************************************************)
(* The host functions that the walk builds from a range: their             *)
(* control-flow graph is the guest's, their blocks are the basic blocks,   *)
(* and a run of the host is a run of the guest.                            *)
(***************************************************************************)
EXTENDS HostRun, FuncTranslateProofs

\* A range that does not end in a conditional branch, and of which data refers to
\* no instruction with an untracked region.
WholeFunction(c, L) ==
    /\ c[Size - 1].op # "branch"
    /\ \A l \in L : c[l].op # "region"

WholeFunctions == \A c \in Codes : \A L \in LabelSets(c) : WholeFunction(c, L)

-----------------------------------------------------------------------------
(* The inductive invariant.                                                *)

\* The instructions before this address are in finished functions.
Finished == IF pc \in {"switch", "done"} THEN addr ELSE func

\* Calls alone lead from a function to another: no block lies in one ahead, and
\* finish() finds no empty block before the end of the range.
BodyInv ==
    /\ WholeFunction(code, labels)
    /\ pc # "undefined"
    /\ pc # "done" => erased = {}
    /\ pc = "done" => addr = Size /\ erased \subseteq {Size}
    /\ bodies = {t \in Entries : t <= func}
    /\ \A k \in bbMap : k >= func => Together(Entries, func, k)

\* The labels that the walk has passed in the function are those an indirect jump
\* of it may go to.
LabelsDone ==
    /\ pending = {l \in labels : l >= addr}
    /\ indBBs = {l \in labels : func <= l /\ l < addr}

\* Instructions that do not end their block.
Onward == {"plain", "call"}

\* The terminator that the walk gives to the block that a ends.
ExitTerm(a) ==
    CASE code[a].op = "ret"    -> Ret
      [] code[a].op = "ijump"  -> IndBr
      [] code[a].op = "jump"   -> BrTo({code[a].target})
      [] code[a].op = "branch" -> CondBrTo({code[a].target, a + 1})
      [] OTHER                 -> BrTo({a + 1})

\* The terminator in the finished function.
OwnLabels(a) == {l \in labels : Together(Entries, a, l)}
LastOf(a) == a + 1 = Size \/ a + 1 \in Entries
FinalTerm(a) ==
    IF code[a].op = "ijump"
    THEN [kind |-> "indbr", succ |-> {Tracked(l) : l \in OwnLabels(a)}]
    ELSE IF code[a].op \in Onward \cup {"region"} /\ LastOf(a) THEN Ret
    ELSE ExitTerm(a)

TermOf(a) == IF a < Finished THEN FinalTerm(a) ELSE ExitTerm(a)

\* a is the last instruction of its block, and leaves it the right way.
Leaves(a) ==
    /\ term[ExitBlock(a)] = TermOf(a)
    /\ code[a].op = "region" => term[Tracked(instrMap[a])] = RegionOf(a)

\* The instruction after a is in the block k.
GoesTo(a, k) == IF k = instrMap[a] THEN code[a].op \in Onward ELSE Leaves(a)

\* What the instruction a, in the block k, has left behind.
Leaving(a, k) ==
    /\ code[a].op \in Onward =>
          insertBlock = Tracked(k) /\ term[Tracked(k)] = Open
    /\ code[a].op = "region" =>
          /\ insertBlock = Untracked(a) /\ term[Untracked(a)] = Open
          /\ term[Tracked(k)] = RegionOf(a)
    /\ code[a].op \notin Onward \cup {"region"} =>
          insertBlock = Tracked(k) /\ term[Tracked(k)] = ExitTerm(a)

\* Between the instructions that are done.
PairsInv == \A a \in Addr : a + 1 < addr => GoesTo(a, instrMap[a + 1])

\* Between the last of them and the one at hand; at the start of a function and
\* after the last one, the function before is finished.
BehindInv ==
    \A a \in Addr : a + 1 = addr =>
        /\ pc = "enter" /\ addr # func =>
              /\ Leaving(a, instrMap[a])
              /\ code[a].op \notin Onward => nextBB = addr
        /\ (pc = "enter" /\ addr = func) \/ pc \in {"switch", "done"} => Leaves(a)
        /\ pc = "instr"  => GoesTo(a, insertBlock[1])
        /\ pc = "record" => GoesTo(a, first)

\* Of the one at hand, once it is translated.
AtHandInv == pc = "record" => Leaving(addr, first)

\* No instruction ahead has made a region.
RegionsAhead ==
    \A k \in BBAddr : k > addr \/ (k = addr /\ pc # "record") => term[Untracked(k)] = Open

ShapeInv == PairsInv /\ BehindInv /\ AtHandInv /\ RegionsAhead

\* The blocks that there are, or will be next, and those that there must be.
Starts == LeadersOf(code, labels, Entries) \cup {Size}
StartsInv == bbMap \subseteq Starts /\ nextBB \in Starts

TargetsInv ==
    \A a \in Addr :
        /\ code[a].op \in Jumps
        /\ a < addr \/ (a = addr /\ pc = "record")
        => code[a].target \in bbMap

\* Nothing branches behind the end.
InRange == \A b \in Block : Tracked(Size) \notin term[b].succ

\* A block without a terminator has no successors.
OpenInv == \A b \in Block : Terminated(b) \/ term[b] = Open

BlocksInv == StartsInv /\ TargetsInv /\ InRange /\ OpenInv

FlowInv ==
    /\ BodyInv /\ LabelsDone /\ BlocksInv
    /\ pc # "abort" => ShapeInv

-----------------------------------------------------------------------------
(* What the steps rely on.                                                 *)

\* The operations, and the terminators they leave.
LEMMA OpFacts ==
    ASSUME TypeOK, WholeFunction(code, labels), NEW a \in Addr
    PROVE  /\ code[a].op \in {"plain", "call", "region", "ret", "ijump", "jump", "branch"}
           /\ code[a].target \in Addr
           /\ code[a].op = "branch" => a + 1 \in Addr
           /\ ExitTerm(a) # Open
           /\ ExitTerm(a).kind \notin {"none", "region"}
           /\ code[a].op # "ijump" => ExitTerm(a).kind # "indbr"
           /\ RegionOf(a) # Open
           /\ RegionOf(a).kind = "region"
<1>1. code[a].op \in Ops /\ code[a].target \in Addr
  BY DEF TypeOK, Instr
<1>2. code[a].op \in {"plain", "call", "region", "ret", "ijump", "jump", "branch"}
  BY <1>1 DEF Ops, Direct, Jumps
<1>3. code[a].op = "branch" => a + 1 \in Addr
  BY AddrFacts DEF WholeFunction, Addr
<1>4. /\ ExitTerm(a).kind \in {"ret", "indbr", "br", "condbr"}
      /\ code[a].op # "ijump" => ExitTerm(a).kind # "indbr"
  BY <1>2 DEF ExitTerm, Ret, IndBr, BrTo, CondBrTo
<1> QED BY <1>1, <1>2, <1>3, <1>4 DEF Open, RegionOf

\* In a finished function too.
LEMMA TermOfFacts ==
    ASSUME TypeOK, WholeFunction(code, labels), NEW a \in Addr
    PROVE  /\ FinalTerm(a).kind \notin {"none", "region"}
           /\ TermOf(a) # Open /\ TermOf(a).kind \notin {"none", "region"}
<1>1. ExitTerm(a).kind \notin {"none", "region"}
  BY OpFacts
<1>2. FinalTerm(a).kind \notin {"none", "region"}
  BY <1>1 DEF FinalTerm, Ret
<1>3. TermOf(a).kind \notin {"none", "region"}
  BY <1>1, <1>2 DEF TermOf
<1> QED BY <1>2, <1>3 DEF Open

\* They change when the function is finished, and at no other time.
LEMMA TermOfStays ==
    ASSUME UNCHANGED <<code, labels>>, Finished' = Finished, NEW a
    PROVE  TermOf(a)' = TermOf(a) /\ ExitTerm(a)' = ExitTerm(a)
<1>1. Entries' = Entries
  BY DEF Entries, Found
<1>2. ExitTerm(a)' = ExitTerm(a) /\ FinalTerm(a)' = FinalTerm(a)
  BY <1>1 DEF ExitTerm, FinalTerm, LastOf, OwnLabels
<1> QED BY <1>2 DEF TermOf

\* In the function at hand, they are those of the walk.
LEMMA TermAtHand ==
    ASSUME pc \in {"enter", "instr", "record"}, func \in Nat, NEW a \in Nat, func <= a
    PROVE  TermOf(a) = ExitTerm(a)
BY DEF TermOf, Finished

\* The block of a translated instruction, and the one it leaves from.
LEMMA BlockOf ==
    ASSUME WalkInv, NEW a \in Addr, a < addr
    PROVE  /\ Nearest(instrMap[a], a)
           /\ instrMap[a] \in BBAddr /\ instrMap[a] \in bbMap
           /\ instrMap[a] <= a
           /\ Tracked(instrMap[a]) \in Block /\ ExitBlock(a) \in Block
<1>1. Nearest(instrMap[a], a)
  BY DEF WalkInv, CodeInv
<1>2. instrMap[a] \in bbMap /\ bbMap \subseteq BBAddr /\ instrMap[a] <= a
  BY <1>1 DEF Nearest, WalkInv, TypeOK
<1> QED BY <1>1, <1>2, AddrFacts, BlockFacts DEF ExitBlock

\* The nearest block of the next instruction is the same, or starts there.
LEMMA NextNearest ==
    ASSUME bbMap \subseteq Nat, NEW a \in Nat, NEW j, NEW k,
           Nearest(j, a), Nearest(k, a + 1)
    PROVE  k = j \/ k = a + 1
<1>1. /\ j \in Nat /\ k \in Nat /\ j <= a /\ k <= a + 1
      /\ j \in bbMap /\ k \in bbMap
  BY DEF Nearest
<1>2. k <= a => k <= j
  BY <1>1 DEF Nearest
<1>3. j <= k
  BY <1>1 DEF Nearest
<1> QED BY <1>1, <1>2, <1>3

\* A terminator, once given, stays: what was done remains right.
LEMMA LeavesStays ==
    ASSUME WalkInv, WholeFunction(code, labels),
           UNCHANGED <<code, labels, instrMap>>, Finished' = Finished,
           \A b \in Block : term[b] # Open => term'[b] = term[b],
           NEW a \in Addr, a < addr, Leaves(a)
    PROVE  Leaves(a)'
<1>1. ExitBlock(a) \in Block /\ Tracked(instrMap[a]) \in Block
  BY BlockOf
<1>2. TermOf(a) # Open /\ RegionOf(a) # Open
  BY OpFacts, TermOfFacts DEF WalkInv
<1>3. term'[ExitBlock(a)] = term[ExitBlock(a)]
  BY <1>1, <1>2 DEF Leaves
<1>4. code[a].op = "region" =>
          term'[Tracked(instrMap[a])] = term[Tracked(instrMap[a])]
  BY <1>1, <1>2 DEF Leaves
<1>5. ExitBlock(a)' = ExitBlock(a) /\ TermOf(a)' = TermOf(a)
  BY TermOfStays DEF ExitBlock
<1> QED BY <1>3, <1>4, <1>5 DEF Leaves

LEMMA GoesStays ==
    ASSUME WalkInv, WholeFunction(code, labels),
           UNCHANGED <<code, labels, instrMap>>, Finished' = Finished,
           \A b \in Block : term[b] # Open => term'[b] = term[b],
           NEW a \in Addr, a < addr, NEW k, GoesTo(a, k)
    PROVE  IF k = instrMap[a] THEN code'[a].op \in Onward ELSE Leaves(a)'
BY LeavesStays DEF GoesTo

\* So the pairs of instructions that are done stay right ...
LEMMA PairsStay ==
    ASSUME WalkInv, WholeFunction(code, labels), PairsInv,
           UNCHANGED <<code, labels, instrMap, addr>>, Finished' = Finished,
           \A b \in Block : term[b] # Open => term'[b] = term[b]
    PROVE  PairsInv'
<1> SUFFICES ASSUME NEW a \in Addr, a + 1 < addr PROVE GoesTo(a, instrMap[a + 1])'
  BY DEF PairsInv
<1>1. GoesTo(a, instrMap[a + 1]) /\ a < addr
  BY AddrFacts DEF PairsInv, WalkInv, TypeOK
<1> QED BY <1>1, GoesStays DEF GoesTo

\* ... and the instruction before the one at hand, when that one is translated.
LEMMA BehindStays ==
    ASSUME WalkInv, WholeFunction(code, labels), BehindInv,
           pc = "instr", pc' = "record",
           UNCHANGED <<code, labels, instrMap, addr>>, Finished' = Finished,
           first' = insertBlock[1],
           \A b \in Block : term[b] # Open => term'[b] = term[b]
    PROVE  BehindInv'
<1> SUFFICES ASSUME NEW a \in Addr, a + 1 = addr PROVE GoesTo(a, first)'
  BY DEF BehindInv
<1>1. GoesTo(a, insertBlock[1])
  BY DEF BehindInv
<1>2. a < addr
  BY AddrFacts DEF WalkInv, TypeOK
<1> QED BY <1>1, <1>2, GoesStays DEF GoesTo

-----------------------------------------------------------------------------
(* The steps between two instructions.                                     *)

LEMMA StayInBlockShape == WalkInv /\ FlowInv /\ StayInBlock => ShapeInv'
<1> SUFFICES ASSUME WalkInv, FlowInv, StayInBlock PROVE ShapeInv'
  OBVIOUS
<1> USE DEF input, bbVars, funcVars
<1>0. /\ WholeFunction(code, labels) /\ ShapeInv /\ TypeOK /\ pc = "enter"
      /\ pc' = "instr" /\ addr' = addr /\ addr \in Nat /\ Addr \subseteq Nat
      /\ code' = code /\ labels' = labels /\ instrMap' = instrMap /\ term' = term
      /\ insertBlock' = insertBlock /\ func' = func /\ func \in Nat
  BY AddrFacts DEF StayInBlock, FlowInv, BodyInv, WalkInv, TypeOK
<1>1. Finished' = Finished
  BY <1>0 DEF Finished
<1>2. PairsInv'
  BY <1>0, <1>1, PairsStay DEF ShapeInv
<1>3. BehindInv'
  <2> SUFFICES ASSUME NEW a \in Addr, a + 1 = addr
               PROVE  GoesTo(a, insertBlock[1])'
    BY <1>0 DEF BehindInv
  <2>1. addr # 0 /\ a < addr /\ a \in Nat
    BY <1>0
  <2>2. CASE addr = func
    <3>1. Leaves(a)
      BY <1>0, <2>2 DEF ShapeInv, BehindInv
    <3>2. insertBlock = Tracked(func)
      BY <1>0, <2>2 DEF WalkInv, EnterInv
    <3>3. insertBlock[1] # instrMap[a]
      <4>1. insertBlock[1] = addr
        BY <2>2, <3>2 DEF Tracked
      <4>2. instrMap[a] \in Nat /\ instrMap[a] <= a
        BY <2>1, BlockOf, AddrFacts
      <4> QED BY ONLY <4>1, <4>2, <2>1, <1>0
    <3>4. Leaves(a)'
      BY <1>0, <1>1, <2>1, <3>1, LeavesStays
    <3> QED BY <1>0, <3>3, <3>4 DEF GoesTo
  <2>3. CASE addr # func
    <3>1. Leaving(a, instrMap[a]) /\ (code[a].op \notin Onward => nextBB = addr)
      BY <1>0, <2>3 DEF ShapeInv, BehindInv
    <3>2. code[a].op \in Onward
      BY <2>1, <3>1 DEF StayInBlock, AtNextBB
    <3>3. insertBlock[1] = instrMap[a]
      BY <2>1, <3>1, <3>2, BlockOf, BlockFacts DEF Leaving
    <3> QED BY <1>0, <3>2, <3>3 DEF GoesTo
  <2> QED BY <2>2, <2>3
<1>4. AtHandInv' /\ RegionsAhead'
  BY <1>0 DEF ShapeInv, AtHandInv, RegionsAhead
<1> QED BY <1>2, <1>3, <1>4 DEF ShapeInv

\* The block that is left open gets its branch here.
LEMMA EnterBlockShape == WalkInv /\ FlowInv /\ EnterBlock => ShapeInv'
<1> SUFFICES ASSUME WalkInv, FlowInv, EnterBlock PROVE ShapeInv'
  OBVIOUS
<1> USE DEF input, funcVars
<1>0. /\ WholeFunction(code, labels) /\ ShapeInv /\ TypeOK /\ pc = "enter"
      /\ pc' = "instr" /\ addr' = addr /\ addr \in Nat /\ Addr \subseteq Nat
      /\ code' = code /\ labels' = labels /\ instrMap' = instrMap /\ term' = CloseBehind
      /\ insertBlock' = Tracked(addr) /\ insertBlock \in Block
      /\ addr \in BBAddr /\ func' = func /\ func \in Nat /\ func <= addr
  BY AddrFacts DEF EnterBlock, FlowInv, BodyInv, WalkInv, TypeOK, FuncInv
<1>1. insertBlock[1] < addr /\ addr # func /\ Finished' = Finished
  BY <1>0 DEF EnterBlock, AtNextBB, WalkInv, EnterInv, Finished
<1>2. \A b \in Block : term[b] # Open => term'[b] = term[b]
  <2>2. ~Terminated(insertBlock) => term' = [term EXCEPT ![insertBlock] = BrTo({addr})]
    BY <1>0 DEF CloseBehind
  <2>3. ~Terminated(insertBlock) => term[insertBlock] = Open
    BY <1>0 DEF FlowInv, BlocksInv, OpenInv
  <2>4. Terminated(insertBlock) => term' = term
    BY <1>0 DEF CloseBehind
  <2> QED BY <1>0, <2>2, <2>3, <2>4 DEF TypeOK
<1>3. PairsInv'
  BY <1>0, <1>1, <1>2, PairsStay DEF ShapeInv
<1>4. BehindInv'
  <2> SUFFICES ASSUME NEW a \in Addr, a + 1 = addr
               PROVE  GoesTo(a, insertBlock[1])'
    BY <1>0 DEF BehindInv
  <2>1. Leaving(a, instrMap[a])
    BY <1>0, <1>1 DEF ShapeInv, BehindInv
  <2>2. a < addr /\ instrMap[a] <= a /\ instrMap[a] \in BBAddr /\ a \in BBAddr
    BY <1>0, BlockOf, AddrFacts
  <2>3. insertBlock'[1] = addr /\ addr # instrMap[a]
    BY <1>0, <2>2, BlockFacts, AddrFacts
  <2>4. /\ Tracked(instrMap[a]) \in Block /\ Untracked(a) \in Block
        /\ Tracked(instrMap[a]) # Untracked(a)
    BY <2>2, BlockFacts
  <2>5. ExitTerm(a) # Open /\ ExitTerm(a).kind # "none" /\ RegionOf(a) # Open
    BY <1>0, OpFacts
  <2>6. TermOf(a) = ExitTerm(a)
    <3>1. func <= a /\ a \in Nat
      BY <1>0, <1>1
    <3> QED BY <1>0, <3>1, TermAtHand
  <2>7. ExitBlock(a)' = ExitBlock(a) /\ TermOf(a)' = ExitTerm(a)
    BY <1>0, <1>1, <2>6, TermOfStays DEF ExitBlock
  <2>8. CASE code[a].op \in Onward \cup {"region"}
    <3>1. insertBlock = ExitBlock(a) /\ term[insertBlock] = Open
      BY <2>1, <2>8 DEF Leaving, ExitBlock, Onward
    <3>2. term' = [term EXCEPT ![insertBlock] = BrTo({addr})]
      BY <1>0, <3>1 DEF CloseBehind, Terminated, Open
    <3>3. ExitTerm(a) = BrTo({addr})
      BY <2>8 DEF ExitTerm, Onward
    <3>4. term'[ExitBlock(a)] = ExitTerm(a)
      BY <1>0, <3>1, <3>2, <3>3 DEF TypeOK
    <3>5. code[a].op = "region" => term'[Tracked(instrMap[a])] = RegionOf(a)
      BY <1>2, <2>1, <2>4, <2>5 DEF Leaving
    <3> QED BY <1>0, <2>3, <2>7, <3>4, <3>5 DEF GoesTo, Leaves
  <2>9. CASE code[a].op \notin Onward \cup {"region"}
    <3>1. ExitBlock(a) = Tracked(instrMap[a]) /\ term[ExitBlock(a)] = ExitTerm(a)
      BY <2>1, <2>9 DEF Leaving, ExitBlock
    <3>2. term'[ExitBlock(a)] = ExitTerm(a)
      BY <1>2, <2>4, <2>5, <3>1
    <3> QED BY <1>0, <2>3, <2>7, <2>9, <3>2 DEF GoesTo, Leaves
  <2> QED BY <2>8, <2>9
<1>5. AtHandInv'
  BY <1>0 DEF AtHandInv
<1>6. RegionsAhead'
  <2> SUFFICES ASSUME NEW k \in BBAddr, k >= addr PROVE term'[Untracked(k)] = Open
    BY <1>0, AddrFacts DEF RegionsAhead
  <2>1. Untracked(k) \in Block /\ Untracked(k) # insertBlock
    BY <1>1, BlockFacts, AddrFacts, <1>0
  <2>2. term[Untracked(k)] = Open
    BY <1>0, AddrFacts DEF ShapeInv, RegionsAhead
  <2> QED BY <1>0, <2>1, <2>2 DEF CloseBehind, TypeOK
<1> QED BY <1>3, <1>4, <1>5, <1>6 DEF ShapeInv

-----------------------------------------------------------------------------
(* The steps that translate an instruction.                                *)

\* The block of the instruction at hand is open: what is put there replaces
\* nothing.
LEMMA InsertCloses ==
    ASSUME WalkInv, OpenInv, pc = "instr", NEW T, term' = [term EXCEPT ![insertBlock] = T]
    PROVE  /\ \A b \in Block : term[b] # Open => term'[b] = term[b]
           /\ \A k \in BBAddr : term'[Untracked(k)] = term[Untracked(k)]
           /\ term'[insertBlock] = T
<1>1. /\ insertBlock = Tracked(insertBlock[1]) /\ insertBlock[1] \in BBAddr
      /\ insertBlock \in Block /\ TypeOK /\ term[insertBlock].kind = "none"
  BY InstrFacts, BlockFacts DEF WalkInv, InstrInv, Terminated, TypeOK
<1>2. term[insertBlock] = Open
  BY <1>1 DEF OpenInv, Terminated
<1>3. \A k \in BBAddr : Untracked(k) \in Block /\ Untracked(k) # insertBlock
  BY <1>1, BlockFacts
<1> QED BY <1>1, <1>2, <1>3 DEF TypeOK

\* A step that closes the block of the instruction at hand, or leaves it open.
LEMMA InstrShape ==
    ASSUME WalkInv, FlowInv, pc = "instr", pc' = "record",
           UNCHANGED <<code, labels, instrMap, addr, func>>,
           first' = insertBlock[1],
           \A b \in Block : term[b] # Open => term'[b] = term[b],
           \A k \in BBAddr : term'[Untracked(k)] = term[Untracked(k)],
           Leaving(addr, first)'
    PROVE  ShapeInv'
<1>1. WholeFunction(code, labels) /\ ShapeInv /\ Finished' = Finished
  BY DEF FlowInv, BodyInv, Finished
<1>2. PairsInv'
  BY <1>1, PairsStay DEF ShapeInv
<1>3. BehindInv'
  BY <1>1, BehindStays DEF ShapeInv
<1>4. AtHandInv'
  BY DEF AtHandInv
<1>5. RegionsAhead'
  BY <1>1 DEF RegionsAhead, ShapeInv
<1> QED BY <1>2, <1>3, <1>4, <1>5 DEF ShapeInv

\* What every translated instruction starts from.
LEMMA InstrOpen ==
    ASSUME WalkInv, FlowInv, pc = "instr"
    PROVE  /\ OpenInv /\ ShapeInv /\ WholeFunction(code, labels)
           /\ term[insertBlock] = Open
           /\ insertBlock = Tracked(insertBlock[1])
           /\ term[Untracked(addr)] = Open
<1>1. OpenInv /\ ShapeInv /\ WholeFunction(code, labels)
  BY DEF FlowInv, BodyInv, BlocksInv
<1>2. /\ insertBlock \in Block /\ ~Terminated(insertBlock)
      /\ addr \in Addr /\ insertBlock = Tracked(insertBlock[1])
  BY InstrFacts DEF WalkInv, InstrInv, TypeOK
<1>3. term[Untracked(addr)] = Open
  BY <1>1, <1>2, AddrFacts DEF ShapeInv, RegionsAhead
<1> QED BY <1>1, <1>2, <1>3 DEF OpenInv

LEMMA TranslateOnwardShape == WalkInv /\ FlowInv /\ (TranslatePlain \/ TranslateCall) => ShapeInv'
<1> SUFFICES ASSUME WalkInv, FlowInv, TranslatePlain \/ TranslateCall PROVE ShapeInv'
  OBVIOUS
<1> USE DEF input, bbVars, funcVars, Translating
<1>0. /\ pc = "instr" /\ pc' = "record" /\ Op' \in Onward
      /\ UNCHANGED <<code, labels, instrMap, term, addr, func, insertBlock>>
      /\ first' = insertBlock[1]
  BY DEF TranslatePlain, TranslateCall, Op, Onward
<1>1. Leaving(addr, first)'
  <2>1. insertBlock' = Tracked(first') /\ term'[insertBlock'] = Open
    BY <1>0, InstrOpen
  <2> QED BY <1>0, <2>1 DEF Leaving, Op, Onward
<1> QED BY <1>0, <1>1, InstrShape

LEMMA TranslateRegionShape == WalkInv /\ FlowInv /\ TranslateRegion => ShapeInv'
<1> SUFFICES ASSUME WalkInv, FlowInv, TranslateRegion PROVE ShapeInv'
  OBVIOUS
<1> USE DEF input, funcVars, Translating
<1>0. /\ pc = "instr" /\ OpenInv /\ addr \in BBAddr
      /\ term' = [term EXCEPT ![insertBlock] = RegionOf(addr)]
  BY InstrOpen, InstrFacts, AddrFacts DEF TranslateRegion
<1>1. /\ \A b \in Block : term[b] # Open => term'[b] = term[b]
      /\ \A k \in BBAddr : term'[Untracked(k)] = term[Untracked(k)]
      /\ term'[insertBlock] = RegionOf(addr)
  BY <1>0, InsertCloses
<1>2. Leaving(addr, first)'
  <2>1. /\ Op' = "region" /\ insertBlock' = Untracked(addr) /\ addr' = addr
        /\ insertBlock = Tracked(first')
    BY <1>0, InstrOpen DEF TranslateRegion, Op
  <2>2. term'[Untracked(addr)] = Open /\ term'[Tracked(first')] = RegionOf(addr)
    BY <1>0, <1>1, <2>1, InstrOpen
  <2> QED BY <2>1, <2>2 DEF Leaving, Op, Onward
<1> QED BY <1>0, <1>1, <1>2, InstrShape DEF TranslateRegion

LEMMA TranslateLeaveShape == WalkInv /\ FlowInv /\ TranslateLeave => ShapeInv'
<1> SUFFICES ASSUME WalkInv, FlowInv, TranslateLeave PROVE ShapeInv'
  OBVIOUS
<1> USE DEF input, funcVars, Translating
<1>0. pc = "instr" /\ OpenInv /\ term' = [term EXCEPT ![insertBlock] = LeaveTerm]
  BY InstrOpen DEF TranslateLeave
<1>1. /\ \A b \in Block : term[b] # Open => term'[b] = term[b]
      /\ \A k \in BBAddr : term'[Untracked(k)] = term[Untracked(k)]
      /\ term'[insertBlock] = LeaveTerm
  BY <1>0, InsertCloses
<1>2. Leaving(addr, first)'
  <2>1. /\ Op' \in {"ret", "ijump"} /\ Op' = Op /\ insertBlock' = insertBlock
        /\ insertBlock = Tracked(first')
    BY <1>0, InstrOpen DEF TranslateLeave, Op
  <2>2. ExitTerm(addr)' = LeaveTerm
    BY <2>1 DEF ExitTerm, LeaveTerm, Op
  <2> QED BY <1>1, <2>1, <2>2 DEF Leaving, Op, Onward
<1> QED BY <1>0, <1>1, <1>2, InstrShape DEF TranslateLeave

\* A jump that splits no block.
LEMMA JumpShape ==
    ASSUME WalkInv, FlowInv, Translating(Jumps),
           UNCHANGED <<input, addr, func, instrMap, insertBlock>>,
           first' = insertBlock[1],
           term' = [term EXCEPT ![insertBlock] = JumpTerm]
    PROVE  ShapeInv'
<1> USE DEF input, funcVars, Translating
<1>1. /\ \A b \in Block : term[b] # Open => term'[b] = term[b]
      /\ \A k \in BBAddr : term'[Untracked(k)] = term[Untracked(k)]
      /\ term'[insertBlock] = JumpTerm
  BY InstrOpen, InsertCloses
<1>2. Leaving(addr, first)'
  <2>1. Op' \in {"jump", "branch"} /\ Op' = Op /\ insertBlock = Tracked(first')
    BY InstrOpen DEF Op, Jumps
  <2>2. ExitTerm(addr)' = JumpTerm
    BY <2>1 DEF ExitTerm, JumpTerm, Op, Target
  <2> QED BY <1>1, <2>1, <2>2 DEF Leaving, Op, Onward
<1> QED BY <1>1, <1>2, InstrShape

\* A backward jump into a block: its instructions from the target on go to the
\* block of the target, with what was to follow them.
LEMMA SplitKeeps ==
    ASSUME WalkInv, WholeFunction(code, labels),
           pc \in {"instr", "record"}, UNCHANGED <<code, labels>>, Finished' = Finished,
           NEW b \in BBAddr, NEW t \in Addr, t < addr, instrMap[t] = b, b # t,
           func <= b, instrMap' = SplitInstrs(instrMap, b, t),
           term'[Tracked(b)] = BrTo({t}),
           term[Tracked(b)] # Open => term'[Tracked(t)] = term[Tracked(b)],
           \A c \in Block : c \notin {Tracked(b), Tracked(t)} /\ term[c] # Open
                              => term'[c] = term[c],
           NEW a \in Addr, a < addr,
           NEW k \in BBAddr, Nearest(k, a + 1), GoesTo(a, k),
           NEW n, n = IF k = b /\ a + 1 >= t THEN t ELSE k
    PROVE  GoesTo(a, n)'
<1> DEFINE m == instrMap[a]
<1>1. /\ bbMap \subseteq Nat /\ a \in Nat /\ b \in Nat /\ t \in Nat /\ k \in Nat
      /\ a \in BBAddr /\ t \in BBAddr /\ k \in bbMap
  BY AddrFacts DEF WalkInv, TypeOK, Nearest
<1>2. Nearest(m, a) /\ m \in BBAddr /\ m \in bbMap /\ m \in Nat /\ m <= a
  BY BlockOf, AddrFacts
<1>3. b < t /\ t \notin bbMap /\ b \in bbMap /\ \A j \in bbMap : j <= t => j <= b
  BY <1>1, BlockOf DEF Nearest
<1>4. instrMap'[a] = IF m = b /\ a >= t THEN t ELSE m
  BY DEF SplitInstrs
<1>5. TermOf(a)' = TermOf(a)
  BY TermOfStays
<1>6. CASE k = m
  <2>0. code[a].op \in Onward
    BY <1>6 DEF GoesTo
  <2>1. CASE a + 1 = t /\ m = b
    <3>1. instrMap'[a] = b /\ n = t
      BY <1>1, <1>4, <1>6, <2>1
    <3>2. TermOf(a) = BrTo({t})
      <4>1. func \in Nat /\ func <= a
        <5> HIDE DEF m
        <5> QED BY <1>1, <1>2, <2>1, EntryFacts
      <4>2. TermOf(a) = ExitTerm(a)
        BY <1>1, <4>1, TermAtHand
      <4> QED BY <2>0, <2>1, <4>2 DEF ExitTerm, Onward
    <3> QED BY <1>3, <1>5, <2>0, <3>1, <3>2 DEF GoesTo, Leaves, ExitBlock, Onward
  <2>2. CASE ~(a + 1 = t /\ m = b)
    <3>1. instrMap'[a] = n
      BY <1>1, <1>4, <1>6, <2>2
    <3> QED BY <2>0, <3>1 DEF GoesTo
  <2> QED BY <2>1, <2>2
<1>7. CASE k # m
  <2>0. Leaves(a)
    BY <1>7 DEF GoesTo
  <2>1. instrMap'[a] # n
    BY <1>1, <1>2, <1>3, <1>4, <1>7
  <2>2. /\ TermOf(a) # Open /\ RegionOf(a) # Open
    BY OpFacts, TermOfFacts DEF WalkInv
  <2>3. /\ Untracked(a) \in Block /\ Tracked(m) \in Block /\ Tracked(b) \in Block
        /\ Untracked(a) \notin {Tracked(b), Tracked(t)}
        /\ m # b => Tracked(m) \notin {Tracked(b), Tracked(t)}
    <3>1. m # t
      BY <1>2, <1>3
    <3> HIDE DEF m
    <3> QED BY <1>1, <1>2, <3>1, BlockFacts
  <2>4. CASE m = b
    <3>1. a >= t
      <4> HIDE DEF m
      <4>1. k = a + 1
        BY <1>1, <1>2, <1>7, NextNearest
      <4> QED BY <1>1, <1>2, <1>3, <2>4, <4>1
    <3>2. instrMap'[a] = t
      BY <1>4, <2>4, <3>1
    <3>3. CASE code[a].op = "region"
      <4>1. term[Untracked(a)] = TermOf(a) /\ term[Tracked(b)] = RegionOf(a)
        BY <2>0, <2>4, <3>3 DEF Leaves, ExitBlock
      <4>2. term'[Untracked(a)] = TermOf(a) /\ term'[Tracked(t)] = RegionOf(a)
        BY <2>2, <2>3, <4>1
      <4> QED BY <1>5, <2>1, <3>2, <3>3, <4>2 DEF GoesTo, Leaves, ExitBlock
    <3>4. CASE code[a].op # "region"
      <4>1. term[Tracked(b)] = TermOf(a)
        BY <2>0, <2>4, <3>4 DEF Leaves, ExitBlock
      <4>2. term'[Tracked(t)] = TermOf(a)
        BY <2>2, <4>1
      <4> QED BY <1>5, <2>1, <3>2, <3>4, <4>2 DEF GoesTo, Leaves, ExitBlock
    <3> QED BY <3>3, <3>4
  <2>5. CASE m # b
    <3>1. instrMap'[a] = m
      BY <1>4, <2>5
    <3>2. term[Tracked(m)] # Open => term'[Tracked(m)] = term[Tracked(m)]
      BY <2>3, <2>5
    <3>3. term[Untracked(a)] # Open => term'[Untracked(a)] = term[Untracked(a)]
      BY <2>3
    <3>4. ExitBlock(a)' = ExitBlock(a) /\ ExitBlock(a) \in {Tracked(m), Untracked(a)}
      BY <3>1 DEF ExitBlock
    <3>5. term'[ExitBlock(a)] = TermOf(a)
      BY <2>0, <2>2, <3>2, <3>3, <3>4 DEF Leaves
    <3>6. code[a].op = "region" => term'[Tracked(m)] = RegionOf(a)
      BY <2>0, <2>2, <3>2 DEF Leaves
    <3> QED BY <1>5, <2>1, <3>1, <3>4, <3>5, <3>6 DEF GoesTo, Leaves
  <2> QED BY <2>4, <2>5
<1> QED BY <1>6, <1>7

LEMMA JumpBackSplitShape == WalkInv /\ FlowInv /\ JumpBackSplit => ShapeInv'
<1> SUFFICES ASSUME WalkInv, FlowInv, JumpBackSplit PROVE ShapeInv'
  OBVIOUS
<1> USE DEF input, funcVars, Translating
<1> DEFINE b == GetBackBB(OwnMap, Target)
           t == Target
           tm == SplitTerm(term, b, t)
<1>0. /\ pc = "instr" /\ pc' = "record" /\ t < addr /\ b # t
      /\ instrMap[t] = b /\ addr' = addr /\ UNCHANGED <<code, labels, func>>
      /\ instrMap' = SplitInstrs(instrMap, b, t)
      /\ insertBlock' = BlockAfterSplit(b, t)
      /\ term' = [tm EXCEPT ![insertBlock'] = JumpTerm]
      /\ first' = insertBlock'[1]
      /\ Op \in Jumps
  BY DEF JumpBackSplit, BackTargetFound
<1>1. /\ t \in Addr /\ t \in BBAddr /\ addr \in Nat /\ t \in Nat /\ TypeOK
      /\ Addr \subseteq Nat /\ bbMap \subseteq Nat
  BY <1>0, InstrFacts, AddrFacts
<1>2. b \in BBAddr /\ Tracked(b) \in Block /\ Nearest(b, t) /\ b \in bbMap /\ b < t
  <2>1. b \in BBAddr /\ Tracked(b) \in Block /\ Nearest(b, t) /\ b \in bbMap /\ b <= t
    BY <1>0, <1>1, BlockOf
  <2> HIDE DEF b, t
  <2> QED BY <1>0, <1>1, <2>1, AddrFacts
<1>2a. func <= b /\ Finished' = Finished
  <2>1. t >= func
    BY <1>0, BackTargetOwn DEF JumpBackSplit
  <2> HIDE DEF b, t
  <2>2. func <= b
    BY <1>1, <1>2, <2>1, EntryFacts DEF Nearest
  <2> QED BY <1>0, <2>2 DEF Finished
<1>3. /\ OpenInv /\ ShapeInv /\ WholeFunction(code, labels)
      /\ term[insertBlock] = Open /\ insertBlock = Tracked(insertBlock[1])
      /\ insertBlock[1] \in BBAddr /\ insertBlock \in Block
      /\ Nearest(insertBlock[1], addr)
  BY <1>0, InstrOpen, InstrFacts DEF TypeOK
<1> HIDE DEF b, t
<1>4. /\ insertBlock' = Tracked(first') /\ first' \in BBAddr
      /\ first' = IF insertBlock[1] = b THEN t ELSE insertBlock[1]
  BY <1>0, <1>1, <1>2, <1>3, BlockFacts DEF BlockAfterSplit
<1>5. /\ tm \in [Block -> Term \cup {BrTo({t})}]
      /\ tm[Tracked(b)] = BrTo({t}) /\ tm[Tracked(t)] = term[Tracked(b)]
      /\ \A c \in Block : c \notin {Tracked(b), Tracked(t)} => tm[c] = term[c]
  <2>1. term \in [Block -> Term] /\ Tracked(b) \in Block /\ Tracked(t) \in Block
    BY <1>0, <1>1, <1>2, BlockFacts DEF TypeOK
  <2>2. Tracked(b) # Tracked(t)
    BY <1>1, <1>2 DEF Tracked
  <2>3. tm = [term EXCEPT ![Tracked(t)] = term[Tracked(b)], ![Tracked(b)] = BrTo({t})]
    BY DEF SplitTerm
  <2> HIDE DEF tm
  <2> QED BY ONLY <2>1, <2>2, <2>3
<1>6. insertBlock' # Tracked(b) /\ tm[insertBlock'] = Open
  <2>1. first' # b
    BY <1>0, <1>4
  <2>2. CASE insertBlock[1] = b
    BY <1>2, <1>3, <1>4, <1>5, <2>1, <2>2, BlockFacts
  <2>3. CASE insertBlock[1] # b
    <3>1. t \notin bbMap
      <4>1. t \in bbMap => t <= b
        BY <1>1, <1>2 DEF Nearest
      <4>2. b \in Nat
        BY <1>2, AddrFacts
      <4> QED BY <1>1, <1>2, <4>1, <4>2
    <3>2. insertBlock[1] # t
      BY <1>3, <3>1 DEF Nearest
    <3> QED BY <1>1, <1>2, <1>3, <1>4, <1>5, <2>3, <3>2, BlockFacts
  <2> QED BY <2>2, <2>3
<1> HIDE DEF tm
<1>7. /\ term'[Tracked(b)] = BrTo({t})
      /\ term[Tracked(b)] # Open => term'[Tracked(t)] = term[Tracked(b)]
      /\ \A c \in Block : c \notin {Tracked(b), Tracked(t)} /\ term[c] # Open
                            => term'[c] = term[c]
      /\ term'[insertBlock'] = JumpTerm
  BY <1>0, <1>1, <1>2, <1>4, <1>5, <1>6, BlockFacts
<1>8. ASSUME NEW a \in Addr, a < addr, NEW k \in BBAddr, Nearest(k, a + 1),
             GoesTo(a, k), NEW n, n = IF k = b /\ a + 1 >= t THEN t ELSE k
      PROVE  GoesTo(a, n)'
  BY <1>0, <1>1, <1>2, <1>2a, <1>3, <1>7, <1>8, SplitKeeps
<1>9. PairsInv'
  <2> SUFFICES ASSUME NEW a \in Addr, a + 1 < addr
               PROVE  GoesTo(a, instrMap[a + 1])'
    BY <1>0 DEF PairsInv
  <2>1. a < addr /\ a + 1 \in Addr
    BY <1>1, AddrFacts, <1>0, InstrFacts DEF Addr
  <2>2. GoesTo(a, instrMap[a + 1])
    BY <1>3 DEF ShapeInv, PairsInv
  <2>3. Nearest(instrMap[a + 1], a + 1) /\ instrMap[a + 1] \in BBAddr
    BY <2>1, BlockOf
  <2>4. instrMap'[a + 1] = IF instrMap[a + 1] = b /\ a + 1 >= t THEN t
                                                                ELSE instrMap[a + 1]
    BY <1>0, <2>1 DEF SplitInstrs
  <2> QED BY <1>8, <2>1, <2>2, <2>3, <2>4
<1>10. BehindInv'
  <2> SUFFICES ASSUME NEW a \in Addr, a + 1 = addr PROVE GoesTo(a, first)'
    BY <1>0 DEF BehindInv
  <2>1. a < addr /\ GoesTo(a, insertBlock[1]) /\ a + 1 >= t
    BY <1>0, <1>1, <1>3 DEF ShapeInv, BehindInv
  <2> QED BY <1>3, <1>4, <1>8, <2>1
<1>11. AtHandInv'
  <2>1. Op' = Op /\ Op \in {"jump", "branch"}
    BY <1>0 DEF Op, Jumps
  <2>2. ExitTerm(addr)' = JumpTerm
    BY <1>0, <2>1 DEF ExitTerm, JumpTerm, Op, Target
  <2> QED BY <1>4, <1>7, <2>1, <2>2 DEF AtHandInv, Leaving, Op, Onward
<1>12. RegionsAhead'
  <2> SUFFICES ASSUME NEW k \in BBAddr, k > addr PROVE term'[Untracked(k)] = Open
    BY <1>0 DEF RegionsAhead
  <2>1. /\ Untracked(k) \in Block
        /\ Untracked(k) \notin {Tracked(b), Tracked(t), insertBlock'}
    BY <1>1, <1>2, <1>4, BlockFacts
  <2>2. term[Untracked(k)] = Open
    BY <1>3 DEF ShapeInv, RegionsAhead
  <2> QED BY <1>0, <1>5, <2>1, <2>2
<1> QED BY <1>9, <1>10, <1>11, <1>12 DEF ShapeInv

-----------------------------------------------------------------------------
(* The bookkeeping after an instruction.                                   *)

\* The instruction that is recorded was left like the one at hand.
LEMMA RecordStart ==
    ASSUME WalkInv, FlowInv, pc = "record"
    PROVE  /\ ShapeInv /\ OpenInv /\ WholeFunction(code, labels)
           /\ Leaving(addr, first)
           /\ Op \notin Onward => Terminated(insertBlock) \/ IsUntracked(insertBlock)
<1>1. ShapeInv /\ OpenInv /\ WholeFunction(code, labels)
  BY DEF FlowInv, BodyInv, BlocksInv
<1>2. Leaving(addr, first)
  BY <1>1 DEF ShapeInv, AtHandInv
<1>3. addr \in Addr /\ ExitTerm(addr).kind # "none"
  BY <1>1, RecordFacts, OpFacts
<1>4. IsUntracked(Untracked(addr))
  BY <1>3, BlockFacts, AddrFacts
<1> QED BY <1>1, <1>2, <1>3, <1>4 DEF Leaving, Terminated, Op, Onward

\* An instruction that ends its block has the next one open a block.
LEMMA NextBBRecorded ==
    ASSUME nextBB \in Nat, addr \in Nat, NEW b, NEW tm,
           tm[b].kind # "none" \/ IsUntracked(b)
    PROVE  NextBBAfterRecording(b, tm) = addr + 1
BY UpdateNextBBAssigns DEF NextBBAfterRecording

\* The block is not split.
LEMMA RecordInPlaceShape ==
    ASSUME WalkInv, FlowInv, Advance,
           UNCHANGED <<code, labels, func, term, insertBlock>>,
           instrMap' = [instrMap EXCEPT ![addr] = first],
           nextBB' = NextBBAfterRecording(insertBlock, term)
    PROVE  ShapeInv'
<1>0. /\ pc = "record" /\ pc' = "enter" /\ addr' = addr + 1
      /\ addr \in Addr /\ addr \in Nat /\ nextBB \in Nat
      /\ Addr \subseteq Nat /\ BBAddr \subseteq Nat
      /\ func \in Nat /\ func <= addr /\ Finished' = Finished
      /\ instrMap \in [Addr -> BBAddr \cup {None}]
  BY RecordFacts, AddrFacts DEF Advance, TypeOK, Finished
<1>1. /\ ShapeInv /\ OpenInv /\ Leaving(addr, first)
      /\ Op \notin Onward => Terminated(insertBlock) \/ IsUntracked(insertBlock)
  BY <1>0, RecordStart
<1>2. instrMap'[addr] = first /\ \A a \in Addr : a # addr => instrMap'[a] = instrMap[a]
  BY <1>0
<1>3. PairsInv'
  <2> SUFFICES ASSUME NEW a \in Addr, a + 1 < addr + 1
               PROVE  GoesTo(a, instrMap[a + 1])'
    BY <1>0 DEF PairsInv
  <2>1. a # addr /\ a + 1 \in Addr /\ a + 1 <= addr
    BY <1>0, AddrFacts DEF Addr
  <2>2. GoesTo(a, IF a + 1 = addr THEN first ELSE instrMap[a + 1])
    BY <1>0, <1>1, <2>1 DEF ShapeInv, PairsInv, BehindInv
  <2>3. /\ instrMap'[a] = instrMap[a]
        /\ instrMap'[a + 1] = IF a + 1 = addr THEN first ELSE instrMap[a + 1]
    BY <1>2, <2>1
  <2>4. ExitBlock(a)' = ExitBlock(a) /\ TermOf(a)' = TermOf(a)
    BY <1>0, <2>3, TermOfStays DEF ExitBlock
  <2> QED BY <2>2, <2>3, <2>4 DEF GoesTo, Leaves
<1>4. BehindInv'
  <2> SUFFICES ASSUME NEW a \in Addr, a + 1 = addr + 1
               PROVE  /\ Leaving(a, instrMap[a])'
                      /\ code[a].op \notin Onward => nextBB' = addr + 1
    BY <1>0 DEF BehindInv
  <2>1. a = addr
    BY <1>0
  <2>2. ExitTerm(a)' = ExitTerm(a)
    BY DEF ExitTerm
  <2>3. Leaving(a, instrMap[a])'
    BY <1>1, <1>2, <2>1, <2>2 DEF Leaving
  <2>4. code[a].op \notin Onward => nextBB' = addr + 1
    BY <1>0, <1>1, <2>1, NextBBRecorded DEF Op, Terminated
  <2> QED BY <2>3, <2>4
<1>5. AtHandInv'
  BY <1>0 DEF AtHandInv
<1>6. RegionsAhead'
  BY <1>0, <1>1 DEF RegionsAhead, ShapeInv
<1> QED BY <1>3, <1>4, <1>5, <1>6 DEF ShapeInv

\* The instruction at hand moves to a block of its own, and takes with it what
\* was to follow.
LEMMA RecordLabelSplitShape == WalkInv /\ FlowInv /\ RecordLabelSplit => ShapeInv'
<1> SUFFICES ASSUME WalkInv, FlowInv, RecordLabelSplit PROVE ShapeInv'
  OBVIOUS
<1> USE DEF input, funcVars, Advance
<1>0. /\ pc = "record" /\ pc' = "enter" /\ addr' = addr + 1 /\ UNCHANGED <<code, labels, func>>
      /\ addr \in Addr /\ addr \in Nat /\ nextBB \in Nat /\ addr \in BBAddr
      /\ Addr \subseteq Nat /\ BBAddr \subseteq Nat /\ bbMap \subseteq Nat
      /\ instrMap \in [Addr -> BBAddr \cup {None}] /\ term \in [Block -> Term]
      /\ first # addr /\ addr \in pending /\ insertBlock' = Tracked(addr)
      /\ term' = SplitTerm(term, first, addr) /\ TypeOK
      /\ first \in BBAddr /\ first < addr /\ Nearest(first, addr)
      /\ func \in Nat /\ func <= first /\ func <= addr /\ Finished' = Finished
  <2>1. /\ pc = "record" /\ pc' = "enter" /\ addr' = addr + 1 /\ UNCHANGED <<code, labels, func>>
        /\ first # addr /\ addr \in pending /\ insertBlock' = Tracked(addr)
        /\ term' = SplitTerm(term, first, addr)
    BY DEF RecordLabelSplit
  <2>2. /\ TypeOK /\ addr \in Addr /\ addr \in Nat /\ addr \in BBAddr /\ nextBB \in Nat
        /\ first \in BBAddr /\ first \in Nat /\ Nearest(first, addr)
        /\ first <= addr /\ func \in Nat /\ func <= first /\ func <= addr
        /\ bbMap \subseteq Nat /\ Addr \subseteq Nat /\ BBAddr \subseteq Nat
    BY <2>1, RecordFacts, AddrFacts
  <2>3. instrMap \in [Addr -> BBAddr \cup {None}] /\ term \in [Block -> Term]
    BY <2>2 DEF TypeOK
  <2>4. Finished' = Finished
    BY <2>1 DEF Finished
  <2>5. first < addr
    BY <2>1, <2>2
  <2> QED BY <2>1, <2>2, <2>3, <2>4, <2>5
<1>1. /\ ShapeInv /\ OpenInv /\ Leaving(addr, first) /\ WholeFunction(code, labels)
      /\ Op \notin Onward => Terminated(insertBlock) \/ IsUntracked(insertBlock)
  BY <1>0, RecordStart
<1>2. code[addr].op # "region"
  BY <1>0, <1>1 DEF FlowInv, LabelsDone, WholeFunction
<1>3. insertBlock = Tracked(first)
  BY <1>1, <1>2 DEF Leaving
<1>4. /\ Tracked(first) \in Block /\ Tracked(addr) \in Block
      /\ Tracked(first) # Tracked(addr)
      /\ term'[Tracked(first)] = BrTo({addr})
      /\ term'[Tracked(addr)] = term[Tracked(first)]
      /\ \A c \in Block : c \notin {Tracked(first), Tracked(addr)} => term'[c] = term[c]
  BY <1>0, BlockFacts DEF SplitTerm
<1>5. \A a \in Addr : a < addr => /\ instrMap'[a] = instrMap[a]
                                  /\ instrMap[a] \in BBAddr /\ instrMap[a] # addr
  BY <1>0, BlockOf DEF RecordLabelSplit, SplitInstrs
<1>6. instrMap'[addr] = addr
  BY <1>0 DEF RecordLabelSplit, SplitInstrs
<1>7. PairsInv'
  <2> SUFFICES ASSUME NEW a \in Addr, a + 1 < addr + 1
               PROVE  GoesTo(a, instrMap[a + 1])'
    BY <1>0 DEF PairsInv
  <2>1. a < addr /\ a + 1 \in Addr /\ a + 1 <= addr /\ a \in BBAddr /\ a \in Nat
    BY <1>0, AddrFacts DEF Addr
  <2> DEFINE m == instrMap[a]
  <2>2. Nearest(m, a) /\ m \in BBAddr /\ m \in bbMap /\ m # addr /\ m <= a
    BY <1>5, <2>1, BlockOf
  <2>3. instrMap'[a] = m /\ TermOf(a)' = TermOf(a)
    BY <1>0, <1>5, <2>1, TermOfStays
  <2>4. /\ Untracked(a) \in Block /\ Tracked(m) \in Block
        /\ Untracked(a) \notin {Tracked(first), Tracked(addr)}
        /\ m # first => Tracked(m) \notin {Tracked(first), Tracked(addr)}
    <3> HIDE DEF m
    <3> QED BY <1>0, <2>1, <2>2, BlockFacts
  <2>5. CASE a + 1 < addr
    <3> DEFINE k == instrMap[a + 1]
    <3>1. GoesTo(a, k) /\ Nearest(k, a + 1) /\ instrMap'[a + 1] = k
      BY <1>1, <1>5, <2>1, <2>5, BlockOf DEF ShapeInv, PairsInv
    <3>2. CASE k = m
      BY <1>0, <2>3, <3>1, <3>2 DEF GoesTo
    <3>3. CASE k # m
      <4>1. m # first
        <5> HIDE DEF k, m
        <5>1. k = a + 1 /\ k \in bbMap
          BY <1>0, <2>1, <2>2, <3>1, <3>3, NextNearest DEF Nearest
        <5>2. k <= first
          BY <1>0, <2>1, <5>1 DEF Nearest
        <5> QED BY <1>0, <2>1, <2>2, <5>1, <5>2
      <4>2. Leaves(a)
        BY <3>1, <3>3 DEF GoesTo
      <4>3. /\ term'[Tracked(m)] = term[Tracked(m)]
            /\ term'[Untracked(a)] = term[Untracked(a)]
        BY <1>4, <2>4, <4>1
      <4>4. /\ ExitBlock(a)' = ExitBlock(a)
            /\ ExitBlock(a) \in {Tracked(m), Untracked(a)}
        BY <1>0, <2>3 DEF ExitBlock
      <4>5. Leaves(a)'
        BY <1>0, <2>3, <4>2, <4>3, <4>4 DEF Leaves
      <4> QED BY <2>3, <3>1, <3>3, <4>5 DEF GoesTo
    <3> QED BY <3>2, <3>3
  <2>6. CASE a + 1 = addr
    <3>1. GoesTo(a, first) /\ instrMap'[a + 1] # m
      BY <1>0, <1>1, <1>6, <2>2, <2>6 DEF ShapeInv, BehindInv
    <3>2. m = first
      <4> HIDE DEF m
      <4> QED BY <1>0, <2>1, <2>2, <2>6, NextNearest
    <3>3. code[a].op \in Onward
      BY <3>1, <3>2 DEF GoesTo
    <3>4. TermOf(a) = BrTo({addr})
      <4>1. TermOf(a) = ExitTerm(a)
        <5>1. func <= a
          BY <1>0, <2>1, <2>2, <3>2
        <5> QED BY <1>0, <2>1, <5>1, TermAtHand
      <4> QED BY <2>6, <3>3, <4>1 DEF ExitTerm, Onward
    <3>5. Leaves(a)'
      BY <1>0, <1>4, <2>3, <3>2, <3>3, <3>4 DEF Leaves, ExitBlock, Onward
    <3> QED BY <2>3, <3>1, <3>5 DEF GoesTo
  <2> QED BY <1>0, <2>1, <2>5, <2>6
<1>8. BehindInv'
  <2> SUFFICES ASSUME NEW a \in Addr, a + 1 = addr + 1
               PROVE  /\ Leaving(a, instrMap[a])'
                      /\ code[a].op \notin Onward => nextBB' = addr + 1
    BY <1>0 DEF BehindInv
  <2>1. a = addr
    BY <1>0
  <2>2. ExitTerm(a)' = ExitTerm(a)
    BY <1>0 DEF ExitTerm
  <2>3. term'[Tracked(addr)] = term[Tracked(first)] /\ insertBlock' = Tracked(addr)
    BY <1>0, <1>4
  <2>4. Leaving(a, instrMap[a])'
    BY <1>0, <1>1, <1>2, <1>6, <2>1, <2>2, <2>3 DEF Leaving
  <2>5. code[a].op \notin Onward => nextBB' = addr + 1
    <3> SUFFICES ASSUME code[a].op \notin Onward PROVE nextBB' = addr + 1
      OBVIOUS
    <3>1. term'[insertBlock'].kind # "none"
      <4>1. ~IsUntracked(insertBlock)
        BY <1>0, <1>3, BlockFacts
      <4> QED BY <1>1, <1>3, <2>1, <2>3, <4>1 DEF Op, Terminated
    <3> QED BY <1>0, <3>1, NextBBRecorded DEF RecordLabelSplit
  <2> QED BY <2>4, <2>5
<1>9. AtHandInv'
  BY <1>0 DEF AtHandInv
<1>10. RegionsAhead'
  <2> SUFFICES ASSUME NEW k \in BBAddr, k > addr PROVE term'[Untracked(k)] = Open
    BY <1>0 DEF RegionsAhead
  <2>1. /\ Untracked(k) \in Block
        /\ Untracked(k) \notin {Tracked(first), Tracked(addr)}
    BY <1>0, BlockFacts
  <2>2. term[Untracked(k)] = Open
    BY <1>0, <1>1 DEF ShapeInv, RegionsAhead
  <2> QED BY <1>4, <2>1, <2>2
<1> QED BY <1>7, <1>8, <1>9, <1>10 DEF ShapeInv

-----------------------------------------------------------------------------
(* The blocks and where they branch to.                                    *)

\* The blocks that there must be.
LEMMA StartsFacts ==
    ASSUME TypeOK
    PROVE  /\ Entries \subseteq Starts /\ 0 \in Starts /\ Size \in Starts
           /\ labels \subseteq Starts
           /\ \A a \in Addr : /\ code[a].op \in Jumps => code[a].target \in Starts
                              /\ code[a].op \notin Onward => a + 1 \in Starts
<1>1. /\ Entries \subseteq Starts /\ 0 \in Starts /\ Size \in Starts
      /\ labels \subseteq Starts
  BY DEF Starts, LeadersOf, Entries
<1>2. ASSUME NEW a \in Addr, code[a].op \in Jumps PROVE code[a].target \in Starts
  BY <1>2 DEF Starts, LeadersOf
<1>3. ASSUME NEW a \in Addr, code[a].op \notin Onward
      PROVE  a + 1 \in Starts
  <2>1. a + 1 \in {x + 1 : x \in {x \in Addr : code[x].op \notin {"plain", "call"}}}
    BY <1>3 DEF Onward
  <2>2. a + 1 \in Addr \/ a + 1 = Size
    BY AddrFacts DEF BBAddr
  <2> QED BY <2>1, <2>2 DEF Starts, LeadersOf
<1> QED BY <1>1, <1>2, <1>3

\* They are a matter of the code alone.
LEMMA StartsStay ==
    ASSUME UNCHANGED <<code, labels>>
    PROVE  Entries' = Entries /\ Starts' = Starts
BY DEF Entries, Found, Starts

\* The terminators of the walk lead into the range.
LEMMA ProperTerms ==
    /\ \A S \in SUBSET Addr :
          /\ BrTo(S).kind # "none" /\ Tracked(Size) \notin BrTo(S).succ
          /\ CondBrTo(S).kind # "none" /\ Tracked(Size) \notin CondBrTo(S).succ
    /\ \A a \in BBAddr :
          RegionOf(a).kind # "none" /\ Tracked(Size) \notin RegionOf(a).succ
    /\ Ret.kind # "none" /\ Tracked(Size) \notin Ret.succ
    /\ IndBr.kind # "none" /\ Tracked(Size) \notin IndBr.succ
    /\ \A S \in SUBSET Addr : Tracked(Size) \notin {Tracked(l) : l \in S}
<1>1. Size \in BBAddr /\ Size \notin Addr
  BY AddrFacts DEF Addr, BBAddr
<1>2. \A S \in SUBSET Addr : Tracked(Size) \notin {Tracked(l) : l \in S}
  BY <1>1, AddrFacts, BlockFacts
<1>3. \A a \in BBAddr : Tracked(Size) # Untracked(a)
  BY <1>1, BlockFacts
<1> QED BY <1>2, <1>3 DEF BrTo, CondBrTo, RegionOf, Ret, IndBr

\* Terminators that come from another block, or are new and lead into the range.
LEMMA TermsStay ==
    ASSUME InRange, OpenInv,
           \A b \in Block :
              \/ \E c \in Block : term'[b] = term[c]
              \/ term'[b].kind # "none" /\ Tracked(Size) \notin term'[b].succ
    PROVE  InRange' /\ OpenInv'
BY DEF InRange, OpenInv, Terminated

\* One block closed.
LEMMA CloseInRange ==
    ASSUME TypeOK, InRange, OpenInv, NEW T,
           term' = [term EXCEPT ![insertBlock] = T],
           T.kind # "none", Tracked(Size) \notin T.succ
    PROVE  InRange' /\ OpenInv'
<1>1. \A b \in Block : term'[b] = term[b] \/ term'[b] = T
  BY DEF TypeOK
<1> QED BY <1>1, TermsStay

LEMMA JumpTermProper ==
    ASSUME TypeOK, WholeFunction(code, labels), addr \in Addr, Op \in Jumps
    PROVE  JumpTerm.kind # "none" /\ Tracked(Size) \notin JumpTerm.succ
<1>1. Target \in Addr /\ (Op = "branch" => addr + 1 \in Addr)
  BY OpFacts DEF Op, Target
<1>2. {Target} \in SUBSET Addr /\ (Op = "branch" => {Target, addr + 1} \in SUBSET Addr)
  BY <1>1
<1> QED BY <1>2, ProperTerms DEF JumpTerm

LEMMA StayInBlockBlocks == WalkInv /\ FlowInv /\ StayInBlock => BlocksInv'
<1> SUFFICES ASSUME WalkInv, FlowInv, StayInBlock PROVE BlocksInv'
  OBVIOUS
<1> USE DEF input, bbVars
<1>1. BlocksInv
  BY DEF FlowInv
<1>2. StartsInv'
  BY <1>1, StartsStay DEF StayInBlock, BlocksInv, StartsInv
<1>3. TargetsInv'
  BY <1>1 DEF StayInBlock, BlocksInv, TargetsInv
<1>4. InRange' /\ OpenInv'
  BY <1>1 DEF StayInBlock, BlocksInv, InRange, OpenInv, Terminated
<1> QED BY <1>2, <1>3, <1>4 DEF BlocksInv

LEMMA EnterBlockBlocks == WalkInv /\ FlowInv /\ EnterBlock => BlocksInv'
<1> SUFFICES ASSUME WalkInv, FlowInv, EnterBlock PROVE BlocksInv'
  OBVIOUS
<1> USE DEF input
<1>1. /\ BlocksInv /\ TypeOK /\ addr \in Addr /\ addr \in Nat
      /\ bbMap \subseteq Nat /\ bbMap' = bbMap \cup {addr}
  <2>1. TypeOK /\ addr # Size /\ BlocksInv
    BY DEF EnterBlock, AtEnd, FlowInv, WalkInv
  <2> QED BY <2>1, AddrFacts DEF EnterBlock, NewBBs, TypeOK
<1>2. StartsInv'
  <2>1. nextBB' \in bbMap \cup {nextBB}
    <3>0. OwnMap \subseteq bbMap
      BY DEF OwnMap, AtOrAfter
    <3>1. OwnMap \subseteq bbMap /\ OwnMap \subseteq Nat /\ addr + 1 \in Nat
      BY <1>1, <3>0
    <3>2. LowerBound(OwnMap, addr + 1) = None \/ LowerBound(OwnMap, addr + 1) \in OwnMap
      BY <3>1, LowerBoundFound
    <3> QED BY <3>1, <3>2 DEF EnterBlock, NextBBAfterEntering, NextBBAddr
  <2>2. addr = nextBB
    BY DEF EnterBlock, AtNextBB
  <2>3. Starts' = Starts
    BY StartsStay DEF EnterBlock
  <2> QED BY <1>1, <2>1, <2>2, <2>3 DEF BlocksInv, StartsInv
<1>3. TargetsInv'
  BY <1>1 DEF EnterBlock, BlocksInv, TargetsInv
<1>4. InRange' /\ OpenInv'
  <2>1. {addr} \in SUBSET Addr
    BY <1>1
  <2>2. BrTo({addr}).kind # "none" /\ Tracked(Size) \notin BrTo({addr}).succ
    BY <2>1, ProperTerms
  <2>3. CASE Terminated(insertBlock)
    <3>1. term' = term
      BY <2>3 DEF EnterBlock, CloseBehind
    <3> QED BY <1>1, <3>1 DEF BlocksInv, InRange, OpenInv, Terminated
  <2>4. CASE ~Terminated(insertBlock)
    BY <1>1, <2>2, <2>4, CloseInRange DEF EnterBlock, CloseBehind, BlocksInv
  <2> QED BY <2>3, <2>4
<1> QED BY <1>2, <1>3, <1>4 DEF BlocksInv

\* An instruction that is no jump creates no block.
LEMMA NoJumpBlocks ==
    ASSUME WalkInv, FlowInv, pc = "instr", pc' = "record", Op \notin Jumps,
           UNCHANGED <<code, labels, addr, bbMap, nextBB>>,
           InRange' /\ OpenInv'
    PROVE  BlocksInv'
<1>1. BlocksInv
  BY DEF FlowInv
<1>2. StartsInv'
  BY <1>1, StartsStay DEF BlocksInv, StartsInv
<1>3. TargetsInv'
  BY <1>1 DEF BlocksInv, TargetsInv, Op
<1> QED BY <1>2, <1>3 DEF BlocksInv

LEMMA TranslateOnwardBlocks == WalkInv /\ FlowInv /\ (TranslatePlain \/ TranslateCall) => BlocksInv'
<1> SUFFICES ASSUME WalkInv, FlowInv, TranslatePlain \/ TranslateCall PROVE BlocksInv'
  OBVIOUS
<1> USE DEF input, bbVars, Translating
<1>1. InRange' /\ OpenInv'
  BY DEF TranslatePlain, TranslateCall, FlowInv, BlocksInv, InRange, OpenInv, Terminated
<1>2. CASE TranslatePlain
  BY <1>1, <1>2, NoJumpBlocks DEF TranslatePlain, Jumps
<1>3. CASE TranslateCall
  BY <1>1, <1>3, NoJumpBlocks DEF TranslateCall, Jumps
<1> QED BY <1>2, <1>3

LEMMA TranslateRegionBlocks == WalkInv /\ FlowInv /\ TranslateRegion => BlocksInv'
<1> SUFFICES ASSUME WalkInv, FlowInv, TranslateRegion PROVE BlocksInv'
  OBVIOUS
<1> USE DEF input, Translating
<1>1. TypeOK /\ addr \in BBAddr
  BY InstrFacts, AddrFacts DEF TranslateRegion
<1>2. InRange' /\ OpenInv'
  BY <1>1, ProperTerms, CloseInRange DEF TranslateRegion, FlowInv, BlocksInv
<1> QED BY <1>2, NoJumpBlocks DEF TranslateRegion, Jumps

LEMMA TranslateLeaveBlocks == WalkInv /\ FlowInv /\ TranslateLeave => BlocksInv'
<1> SUFFICES ASSUME WalkInv, FlowInv, TranslateLeave PROVE BlocksInv'
  OBVIOUS
<1> USE DEF input, Translating
<1>1. LeaveTerm.kind # "none" /\ Tracked(Size) \notin LeaveTerm.succ
  BY ProperTerms DEF LeaveTerm
<1>2. InRange' /\ OpenInv'
  BY <1>1, CloseInRange DEF TranslateLeave, FlowInv, BlocksInv, WalkInv
<1> QED BY <1>2, NoJumpBlocks DEF TranslateLeave, Jumps

\* A jump creates the blocks of its target and of the next instruction.
LEMMA JumpBlocks ==
    ASSUME WalkInv, FlowInv, Translating(Jumps),
           UNCHANGED <<code, labels, addr>>,
           bbMap' \subseteq bbMap \cup {Target, addr + 1},
           bbMap \cup {Target} \subseteq bbMap', nextBB' = addr + 1,
           InRange' /\ OpenInv'
    PROVE  BlocksInv'
<1>1. /\ BlocksInv /\ TypeOK /\ addr \in Addr /\ Op \in {"jump", "branch"}
      /\ pc = "instr" /\ pc' = "record"
  BY InstrFacts DEF FlowInv, Translating, Jumps
<1>2. Target \in Starts /\ addr + 1 \in Starts
  <2>1. Op \in Jumps /\ Op \notin Onward
    BY <1>1 DEF Jumps, Onward
  <2> QED BY <1>1, <2>1, StartsFacts DEF Op, Target
<1>3. StartsInv'
  BY <1>1, <1>2, StartsStay DEF BlocksInv, StartsInv
<1>4. TargetsInv'
  BY <1>1 DEF BlocksInv, TargetsInv, Target
<1> QED BY <1>3, <1>4 DEF BlocksInv

LEMMA JumpForwardBlocks == WalkInv /\ FlowInv /\ JumpForward => BlocksInv'
<1> SUFFICES ASSUME WalkInv, FlowInv, JumpForward PROVE BlocksInv'
  OBVIOUS
<1> USE DEF input
<1>1. /\ TypeOK /\ addr \in Addr /\ WholeFunction(code, labels) /\ Op \in Jumps
      /\ InRange /\ OpenInv /\ Target \in Nat /\ addr + 1 \in Nat /\ nextBB \in Nat
  BY InstrFacts, AddrFacts
  DEF JumpForward, Translating, FlowInv, BodyInv, BlocksInv, TypeOK
<1>2. InRange' /\ OpenInv'
  BY <1>1, JumpTermProper, CloseInRange DEF JumpForward
<1>3. nextBB' = addr + 1
  BY <1>1, UpdateNextBBAssigns DEF JumpForward
<1> QED BY <1>2, <1>3, JumpBlocks DEF JumpForward, NewBBs

LEMMA JumpBackBlocks == WalkInv /\ FlowInv /\ JumpBack => BlocksInv'
<1> SUFFICES ASSUME WalkInv, FlowInv, JumpBack PROVE BlocksInv'
  OBVIOUS
<1> USE DEF input
<1>1. /\ TypeOK /\ addr \in Addr /\ WholeFunction(code, labels) /\ Op \in Jumps
      /\ InRange /\ OpenInv /\ addr + 1 \in Nat /\ nextBB \in Nat
      /\ Target \in Addr
  BY InstrFacts, AddrFacts
  DEF JumpBack, Translating, FlowInv, BodyInv, BlocksInv, TypeOK
<1>2. InRange' /\ OpenInv'
  BY <1>1, JumpTermProper, CloseInRange DEF JumpBack
<1>3. nextBB' = addr + 1
  BY <1>1, UpdateNextBBAssigns DEF JumpBack
<1>4. Target \in bbMap
  BY <1>1, BlockOf DEF JumpBack, BackTargetFound
<1> QED BY <1>2, <1>3, <1>4, JumpBlocks DEF JumpBack, NewBBs

LEMMA JumpBackSplitBlocks == WalkInv /\ FlowInv /\ JumpBackSplit => BlocksInv'
<1> SUFFICES ASSUME WalkInv, FlowInv, JumpBackSplit PROVE BlocksInv'
  OBVIOUS
<1> USE DEF input
<1> DEFINE b == GetBackBB(OwnMap, Target)
           tm == SplitTerm(term, b, Target)
<1>1. /\ TypeOK /\ addr \in Addr /\ WholeFunction(code, labels) /\ Op \in Jumps
      /\ InRange /\ OpenInv /\ addr + 1 \in Nat /\ nextBB \in Nat
      /\ Target \in Addr /\ Target \in BBAddr
      /\ Target < addr /\ instrMap[Target] = b
      /\ term' = [tm EXCEPT ![insertBlock'] = JumpTerm]
      /\ bbMap' = bbMap \cup {Target, addr + 1}
  BY InstrFacts, AddrFacts
  DEF JumpBackSplit, Translating, FlowInv, BodyInv, BlocksInv, TypeOK,
      BackTargetFound
<1>2. Tracked(b) \in Block
  BY <1>1, BlockOf
<1> HIDE DEF b
<1>3. tm = [term EXCEPT ![Tracked(Target)] = term[Tracked(b)],
                        ![Tracked(b)] = BrTo({Target})]
  BY DEF SplitTerm
<1>4. /\ tm \in [Block -> Term \cup {BrTo({Target})}]
      /\ \A c \in Block : \/ tm[c] = term[c] \/ tm[c] = term[Tracked(b)]
                          \/ tm[c] = BrTo({Target})
  BY <1>1, <1>2, <1>3 DEF TypeOK
<1> HIDE DEF tm
<1>5. InRange' /\ OpenInv'
  <2>1. {Target} \in SUBSET Addr
    BY <1>1
  <2>2. BrTo({Target}).kind # "none" /\ Tracked(Size) \notin BrTo({Target}).succ
    BY <2>1, ProperTerms
  <2>3. JumpTerm.kind # "none" /\ Tracked(Size) \notin JumpTerm.succ
    BY <1>1, JumpTermProper
  <2>4. \A c \in Block : term'[c] = tm[c] \/ term'[c] = JumpTerm
    BY <1>1, <1>4
  <2> QED BY <1>1, <1>2, <1>4, <2>2, <2>3, <2>4, TermsStay
<1>6. nextBB' = addr + 1
  BY <1>1, UpdateNextBBAssigns DEF JumpBackSplit
<1> QED BY <1>1, <1>5, <1>6, JumpBlocks DEF JumpBackSplit

\* The bookkeeping creates a block at a label, and announces one where the
\* block ends.
LEMMA RecordBlocks ==
    ASSUME WalkInv, FlowInv, Advance,
           UNCHANGED <<code, labels>>,
           bbMap \subseteq bbMap', bbMap' \subseteq bbMap \cup labels,
           nextBB' \in {nextBB, addr + 1}, nextBB' = nextBB \/ Op \notin Onward,
           InRange' /\ OpenInv'
    PROVE  BlocksInv'
<1>1. /\ BlocksInv /\ TypeOK /\ addr \in Addr /\ addr \in Nat /\ Addr \subseteq Nat
      /\ pc = "record" /\ pc' = "enter" /\ addr' = addr + 1
      /\ WholeFunction(code, labels)
  BY RecordFacts, AddrFacts DEF FlowInv, BodyInv, Advance
<1>2. Op \notin Onward => addr + 1 \in Starts
  BY <1>1, StartsFacts DEF Op, WholeFunction
<1>3. StartsInv'
  BY <1>1, <1>2, StartsFacts, StartsStay DEF BlocksInv, StartsInv
<1>4. TargetsInv'
  BY <1>1 DEF BlocksInv, TargetsInv
<1> QED BY <1>3, <1>4 DEF BlocksInv

\* Where no block is split.
LEMMA RecordInPlaceBlocks ==
    ASSUME WalkInv, FlowInv, Advance,
           UNCHANGED <<code, labels, bbMap, term>>,
           nextBB' = NextBBAfterRecording(insertBlock, term)
    PROVE  BlocksInv'
<1>1. pc = "record" /\ nextBB \in Nat /\ addr \in Nat /\ insertBlock \in Block
  BY RecordFacts DEF Advance, TypeOK
<1>2. nextBB' = nextBB \/ (nextBB' = addr + 1 /\ Op \notin Onward)
  <2>1. CASE term[insertBlock].kind # "none" \/ IsUntracked(insertBlock)
    <3>1. nextBB' = addr + 1
      BY <1>1, <2>1, NextBBRecorded
    <3>2. Op \notin Onward
      <4>1. Op \in Onward => insertBlock = Tracked(first) /\ term[insertBlock] = Open
        BY <1>1, RecordStart DEF Leaving, Op
      <4> QED BY <1>1, <2>1, <4>1, RecordFacts, BlockFacts DEF Open
    <3> QED BY <3>1, <3>2
  <2>2. CASE ~(term[insertBlock].kind # "none" \/ IsUntracked(insertBlock))
    BY <2>2 DEF NextBBAfterRecording
  <2> QED BY <2>1, <2>2
<1>3. InRange' /\ OpenInv'
  BY DEF FlowInv, BlocksInv, InRange, OpenInv, Terminated
<1> QED BY <1>2, <1>3, RecordBlocks

LEMMA RecordLabelSplitBlocks == WalkInv /\ FlowInv /\ RecordLabelSplit => BlocksInv'
<1> SUFFICES ASSUME WalkInv, FlowInv, RecordLabelSplit PROVE BlocksInv'
  OBVIOUS
<1> USE DEF input
<1>1. /\ pc = "record" /\ nextBB \in Nat /\ addr \in Nat /\ addr \in Addr
      /\ addr \in BBAddr /\ first \in BBAddr /\ TypeOK
      /\ addr \in labels /\ InRange /\ OpenInv
  BY RecordFacts, AddrFacts
  DEF RecordLabelSplit, Advance, TypeOK, FlowInv, LabelsDone, BlocksInv
<1>2. /\ Tracked(first) \in Block /\ Tracked(addr) \in Block
      /\ Tracked(first) # Tracked(addr)
      /\ term' = [term EXCEPT ![Tracked(addr)] = term[Tracked(first)],
                              ![Tracked(first)] = BrTo({addr})]
  BY <1>1, BlockFacts DEF RecordLabelSplit, SplitTerm
<1>3. nextBB' = nextBB \/ (nextBB' = addr + 1 /\ Op \notin Onward)
  <2>1. CASE Op \in Onward
    <3>1. term'[Tracked(addr)] = Open /\ insertBlock' = Tracked(addr)
      BY <1>1, <1>2, <2>1, RecordStart DEF RecordLabelSplit, Leaving, Op, TypeOK
    <3>2. ~IsUntracked(Tracked(addr))
      BY <1>1, BlockFacts
    <3> QED BY <3>1, <3>2 DEF RecordLabelSplit, NextBBAfterRecording, Open
  <2>2. CASE Op \notin Onward
    BY <1>1, <2>2, UpdateNextBBAssigns DEF RecordLabelSplit, NextBBAfterRecording
  <2> QED BY <2>1, <2>2
<1>4. InRange' /\ OpenInv'
  <2>1. {addr} \in SUBSET Addr
    BY <1>1
  <2>2. BrTo({addr}).kind # "none" /\ Tracked(Size) \notin BrTo({addr}).succ
    BY <2>1, ProperTerms
  <2>3. \A c \in Block : \/ term'[c] = term[c] \/ term'[c] = term[Tracked(first)]
                         \/ term'[c] = BrTo({addr})
    BY <1>1, <1>2 DEF TypeOK
  <2> QED BY <1>1, <1>2, <2>2, <2>3, TermsStay
<1> QED BY <1>1, <1>3, <1>4, RecordBlocks DEF RecordLabelSplit

-----------------------------------------------------------------------------
(* The end of a function.                                                  *)

\* Where control leaves an instruction of the function at hand is in that function.
LEMMA ExitAt ==
    ASSUME WalkInv, NEW a \in Addr, a < addr
    PROVE  /\ ExitBlock(a)[1] \in Nat /\ ExitBlock(a)[1] <= a
           /\ func <= a => func <= ExitBlock(a)[1]
<1> DEFINE k == instrMap[a]
<1>1. Nearest(k, a) /\ k \in BBAddr /\ k <= a
  BY BlockOf
<1> HIDE DEF k
<1>2. ExitBlock(a)[1] \in {k, a}
  BY DEF ExitBlock, Tracked, Untracked, k
<1>3. func <= a => func <= k
  BY <1>1, EntryFacts DEF Nearest
<1>4. a \in Nat /\ k \in Nat /\ a <= a
  BY <1>1, AddrFacts
<1> QED BY <1>1, <1>2, <1>3, <1>4

\* finish() comes at the end of the function, and no block lies behind it but one
\* at the end of the range.
LEMMA FinishFacts ==
    ASSUME WalkInv, FoundInv, HomeInv, FlowInv, Finish
    PROVE  /\ pc = "enter" /\ pc' \in {"switch", "done"} /\ (pc' = "done" => addr = Size)
           /\ UNCHANGED <<code, labels, addr, func, instrMap, bbMap, insertBlock>>
           /\ addr # func /\ func < addr
           /\ addr = Size \/ addr \in Entries
           /\ Together(Entries, func, addr - 1)
           /\ \A k \in bbMap : k < addr \/ (addr = Size /\ k = Size)
           /\ ShapeInv /\ WholeFunction(code, labels)
<1> USE DEF input, funcVars
<1>1. /\ pc = "enter" /\ pc' \in {"switch", "done"} /\ (pc' = "done" => addr = Size)
      /\ UNCHANGED <<code, labels, addr, func, instrMap, bbMap, insertBlock>>
      /\ ShapeInv /\ WholeFunction(code, labels)
  BY DEF Finish, FlowInv, BodyInv
<1>2. addr # func
  BY AddrFacts DEF Finish, AtEnd, AtNextFunc, WalkInv, TypeOK, Addr
<1>3. func < addr
  BY <1>2, EntryFacts
<1>4. addr = Size \/ addr \in Entries
  BY <1>1, <1>2, NextIsEntry DEF Finish, AtEnd, AtNextFunc, HomeInv
<1>5. Together(Entries, func, addr - 1)
  BY <1>2 DEF HomeInv, RangeInv
<1>6. ASSUME NEW k \in bbMap PROVE k < addr \/ (addr = Size /\ k = Size)
  <2>1. k \in BBAddr /\ k \in Nat
    BY EntryFacts
  <2>2. CASE addr = Size
    BY <2>1, <2>2, AddrFacts DEF BBAddr
  <2>3. CASE addr \in Entries
    <3>1. k >= func => Together(Entries, func, k)
      BY DEF FlowInv, BodyInv
    <3>2. k >= func => ~ (addr <= k)
      BY <1>3, <2>3, <3>1, EntryFacts DEF Together
    <3> QED BY <1>3, <2>1, <3>2, EntryFacts
  <2> QED BY <1>4, <2>2, <2>3
<1> QED BY <1>1, <1>2, <1>3, <1>4, <1>5, <1>6

\* It erases at most the block behind the range.
LEMMA FinishErases ==
    ASSUME WalkInv, FoundInv, HomeInv, FlowInv, Finish
    PROVE  erased' \subseteq (IF addr = Size THEN {Size} ELSE {})
<1> DEFINE k == Max(OwnMap)
<1>1. erased = {}
  BY FinishFacts DEF FlowInv, BodyInv
<1>2. k \in bbMap
  <2>1. OwnMap \subseteq bbMap /\ OwnMap # {}
    BY LastBBInMap DEF OwnMap, AtOrAfter
  <2>2. OwnMap \subseteq 0 .. Size /\ Size \in Nat
    BY <2>1, AddrFacts DEF WalkInv, TypeOK, BBAddr
  <2>3. \E m \in OwnMap : \A j \in OwnMap : j <= m
    BY <2>1, <2>2, MaxExists
  <2>4. \E m \in OwnMap : \A j \in OwnMap : m >= j
    BY <2>2, <2>3
  <2>5. k \in OwnMap
    BY <2>4 DEF Max
  <2> QED BY <2>1, <2>5
<1> HIDE DEF k
<1>3. k \in BBAddr /\ k \in Nat
  BY <1>2, EntryFacts
<1>4. ASSUME k < addr PROVE k \in Addr /\ instrMap[k] = k
  <2>1. k \in Addr
    BY <1>3, <1>4, AddrFacts, EntryFacts DEF Addr, BBAddr
  <2>2. Nearest(instrMap[k], k) /\ instrMap[k] \in BBAddr
    BY <1>4, <2>1, BlockOf
  <2>3. instrMap[k] <= k /\ k <= instrMap[k]
    <3>1. k <= k
      BY <1>3
    <3> QED BY <1>2, <2>2, <3>1 DEF Nearest
  <2>4. instrMap[k] \in Nat
    BY <2>2, AddrFacts
  <2> QED BY <1>3, <2>1, <2>3, <2>4
<1>5. erased' = {j \in {k} : IsEmptyBB(j, term')}
  BY <1>1 DEF Finish, ErasedByFinish, k
<1>6. k < addr => ~IsEmptyBB(k, term')
  BY <1>4 DEF IsEmptyBB
<1>7. k < addr \/ (addr = Size /\ k = Size)
  BY <1>2, FinishFacts
<1> QED BY <1>5, <1>6, <1>7

\* The labels that the walk has passed in the function are its labels.
LEMMA OwnLabelsPassed ==
    ASSUME WalkInv, FoundInv, HomeInv, FlowInv, Finish,
           NEW a \in Addr, func <= a, a < addr
    PROVE  OwnLabels(a) = indBBs
<1>1. /\ indBBs = {l \in labels : func <= l /\ l < addr}
      /\ labels \subseteq Addr /\ Addr \subseteq Nat /\ a \in Nat
  BY AddrFacts DEF FlowInv, LabelsDone, WalkInv, TypeOK
<1>2. /\ func < addr /\ Together(Entries, func, addr - 1)
      /\ addr = Size \/ addr \in Entries
  BY FinishFacts
<1> SUFFICES ASSUME NEW l \in labels
             PROVE  Together(Entries, a, l) <=> func <= l /\ l < addr
  BY <1>1 DEF OwnLabels
<1>3. l \in Nat /\ l \in Addr /\ func \in Nat /\ addr \in Nat /\ Entries \subseteq Nat
  BY <1>1, EntryFacts
<1>4. ASSUME Together(Entries, a, l) PROVE func <= l /\ l < addr
  <2>1. func \in Entries
    BY DEF HomeInv, RangeInv
  <2>2. func <= l
    BY <1>4, <2>1 DEF Together
  <2>3. CASE addr = Size
    BY <1>3, <2>2, <2>3, AddrFacts DEF Addr
  <2>4. CASE addr \in Entries
    <3>1. ~ (addr <= a)
      BY <1>1, <1>3
    <3>2. ~ (addr <= l)
      BY <1>4, <2>4, <3>1 DEF Together
    <3> QED BY <1>3, <2>2, <3>2
  <2> QED BY <1>2, <2>3, <2>4
<1>5. ASSUME func <= l, l < addr PROVE Together(Entries, a, l)
  <2> SUFFICES ASSUME NEW t \in Entries PROVE t <= a <=> t <= l
    BY DEF Together
  <2>1. t <= func <=> t <= addr - 1
    BY <1>2 DEF Together
  <2> QED BY <1>1, <1>3, <1>5, <2>1
<1> QED BY <1>4, <1>5

\* What finish() makes of a terminator.
LEMMA FinishTermIs ==
    ASSUME Finish, NEW b \in Block
    PROVE  term'[b] = IF term[b].kind = "indbr" /\ b[1] >= func
                      THEN [kind |-> "indbr", succ |-> {Tracked(l) : l \in indBBs}]
                      ELSE IF b = insertBlock /\ ~Terminated(b) THEN Ret ELSE term[b]
BY DEF Finish, FinishTerm

\* What an instruction of a finished function should leave.
LEMMA TermFinished ==
    ASSUME WalkInv, FoundInv, HomeInv, FlowInv, Finish, NEW a \in Addr, a < addr
    PROVE  /\ TermOf(a)' = FinalTerm(a) /\ ExitBlock(a)' = ExitBlock(a)
           /\ TermOf(a) = IF func <= a THEN ExitTerm(a) ELSE FinalTerm(a)
<1>1. /\ UNCHANGED <<code, labels, instrMap, addr>> /\ pc' \in {"switch", "done"}
      /\ pc = "enter"
  BY FinishFacts
<1>2. Entries' = Entries
  BY <1>1 DEF Entries, Found
<1>3. FinalTerm(a)' = FinalTerm(a)
  BY <1>1, <1>2 DEF FinalTerm, ExitTerm, LastOf, OwnLabels
<1>4. Finished' = addr /\ Finished = func
  BY <1>1 DEF Finished
<1>5. TermOf(a)' = FinalTerm(a)
  BY <1>1, <1>3, <1>4 DEF TermOf
<1>6. a \in Nat /\ func \in Nat
  BY AddrFacts, EntryFacts
<1>7. TermOf(a) = IF func <= a THEN ExitTerm(a) ELSE FinalTerm(a)
  BY <1>4, <1>6 DEF TermOf
<1> QED BY <1>1, <1>5, <1>7 DEF ExitBlock

\* The last instruction of a block in the function, or of any before.
LEMMA FinishLeaves ==
    ASSUME WalkInv, FoundInv, HomeInv, FlowInv, Finish,
           NEW a \in Addr, a + 1 < addr, Leaves(a)
    PROVE  Leaves(a)'
<1>0. /\ a \in Nat /\ addr \in Nat /\ func \in Nat /\ a < addr /\ TypeOK
      /\ WholeFunction(code, labels)
  <2>1. a \in Nat /\ addr \in Nat /\ func \in Nat
    BY AddrFacts, EntryFacts
  <2>2. TypeOK /\ WholeFunction(code, labels)
    BY FinishFacts DEF WalkInv
  <2> QED BY <2>1, <2>2
<1> DEFINE x == ExitBlock(a)
           k == Tracked(instrMap[a])
<1>1. x \in Block /\ k \in Block
  BY <1>0, BlockOf
<1>2. term[x] = TermOf(a) /\ (code[a].op = "region" => term[k] = RegionOf(a))
  BY DEF Leaves
<1>3. x[1] \in Nat /\ x[1] <= a /\ (func <= a => func <= x[1])
  BY <1>0, ExitAt
<1>4. /\ TermOf(a)' = FinalTerm(a) /\ ExitBlock(a)' = x
      /\ TermOf(a) = IF func <= a THEN ExitTerm(a) ELSE FinalTerm(a)
  BY <1>0, TermFinished
<1>5. TermOf(a).kind # "none"
  BY <1>0, TermOfFacts
<1>6. code'[a] = code[a] /\ Tracked(instrMap[a])' = k /\ RegionOf(a)' = RegionOf(a)
  BY FinishFacts
<1> HIDE DEF x, k
<1>7. term'[x] = FinalTerm(a)
  <2>1. CASE ~ (func <= a)
    <3>1. ~ (x[1] >= func)
      BY <1>0, <1>3, <2>1
    <3>2. term'[x] = term[x]
      BY <1>1, <1>2, <1>5, <3>1, FinishTermIs DEF Terminated
    <3> QED BY <1>2, <1>4, <2>1, <3>2
  <2>2. CASE func <= a /\ code[a].op = "ijump"
    <3>1. term[x] = IndBr /\ x[1] >= func
      BY <1>2, <1>3, <1>4, <2>2, <1>0 DEF ExitTerm
    <3>2. term'[x] = [kind |-> "indbr", succ |-> {Tracked(l) : l \in indBBs}]
      BY <1>1, <3>1, FinishTermIs DEF IndBr
    <3>3. OwnLabels(a) = indBBs
      BY <1>0, <2>2, OwnLabelsPassed
    <3> QED BY <2>2, <3>2, <3>3 DEF FinalTerm
  <2>3. CASE func <= a /\ code[a].op # "ijump"
    <3>1. term[x] = ExitTerm(a) /\ ExitTerm(a).kind \notin {"none", "indbr"}
      BY <1>0, <1>2, <1>4, <2>3, OpFacts
    <3>2. term'[x] = term[x]
      BY <1>1, <3>1, FinishTermIs DEF Terminated
    <3>3. ~ LastOf(a)
      <4>1. a + 1 # Size
        BY <1>0, AddrFacts, EntryFacts DEF BBAddr
      <4>2. Together(Entries, func, addr - 1) /\ a + 1 <= addr - 1 /\ ~ (a + 1 <= func)
        BY <1>0, <2>3, FinishFacts
      <4>3. a + 1 \notin Entries
        BY <4>2 DEF Together
      <4> QED BY <4>1, <4>3 DEF LastOf
    <3>4. FinalTerm(a) = ExitTerm(a)
      BY <2>3, <3>3 DEF FinalTerm
    <3> QED BY <3>1, <3>2, <3>4
  <2> QED BY <2>1, <2>2, <2>3
<1>8. code[a].op = "region" => term'[k] = RegionOf(a)
  BY <1>0, <1>1, <1>2, FinishTermIs, OpFacts DEF Terminated
<1> QED BY <1>4, <1>6, <1>7, <1>8 DEF Leaves, k

\* The last instruction of the function.
LEMMA FinishLast ==
    ASSUME WalkInv, FoundInv, HomeInv, FlowInv, Finish, NEW a \in Addr, a + 1 = addr
    PROVE  Leaves(a)'
<1>0. /\ a \in Nat /\ addr \in Nat /\ func \in Nat /\ a < addr /\ func <= a /\ TypeOK
      /\ WholeFunction(code, labels)
  BY AddrFacts, EntryFacts, FinishFacts DEF WalkInv
<1> DEFINE x == ExitBlock(a)
           k == Tracked(instrMap[a])
<1>1. x \in Block /\ k \in Block /\ x[1] >= func
  BY <1>0, BlockOf, ExitAt
<1>2. Leaving(a, instrMap[a])
  BY FinishFacts DEF ShapeInv, BehindInv
<1>3. TermOf(a)' = FinalTerm(a) /\ ExitBlock(a)' = x /\ LastOf(a)
  BY <1>0, TermFinished, FinishFacts DEF LastOf
<1>4. code'[a] = code[a] /\ Tracked(instrMap[a])' = k /\ RegionOf(a)' = RegionOf(a)
  BY FinishFacts
<1>5. CASE code[a].op \in Onward \cup {"region"}
  <2>1. insertBlock = x /\ term[x] = Open
    BY <1>2, <1>5 DEF Leaving, ExitBlock, Onward
  <2>2. term'[x] = Ret
    <3>1. x = insertBlock /\ term[x].kind = "none" /\ x \in Block
      BY <1>1, <2>1 DEF Open
    <3> HIDE DEF x
    <3> QED BY <3>1, FinishTermIs DEF Terminated
  <2>3. FinalTerm(a) = Ret
    BY <1>3, <1>5 DEF FinalTerm, Onward
  <2>4. code[a].op = "region" => term'[k] = RegionOf(a)
    BY <1>0, <1>1, <1>2, FinishTermIs, OpFacts DEF Leaving, Terminated
  <2> QED BY <1>3, <1>4, <2>2, <2>3, <2>4 DEF Leaves
<1>6. CASE code[a].op \notin Onward \cup {"region"}
  <2>1. term[x] = ExitTerm(a)
    BY <1>2, <1>6 DEF Leaving, ExitBlock
  <2>2. term'[x] = FinalTerm(a)
    <3>1. CASE code[a].op = "ijump"
      <4>1. term[x] = IndBr
        BY <2>1, <3>1 DEF ExitTerm
      <4>2. term'[x] = [kind |-> "indbr", succ |-> {Tracked(l) : l \in indBBs}]
        BY <1>1, <4>1, FinishTermIs DEF IndBr
      <4>3. OwnLabels(a) = indBBs
        BY <1>0, OwnLabelsPassed
      <4> QED BY <3>1, <4>2, <4>3 DEF FinalTerm
    <3>2. CASE code[a].op # "ijump"
      <4>1. term'[x] = ExitTerm(a)
        BY <1>0, <1>1, <2>1, <3>2, FinishTermIs, OpFacts DEF Terminated
      <4> QED BY <1>6, <3>2, <4>1 DEF FinalTerm
    <3> QED BY <3>1, <3>2
  <2> QED BY <1>3, <1>4, <1>6, <2>2 DEF Leaves
<1> QED BY <1>5, <1>6

LEMMA FinishShape == WalkInv /\ FoundInv /\ HomeInv /\ FlowInv /\ Finish => ShapeInv'
<1> SUFFICES ASSUME WalkInv, FoundInv, HomeInv, FlowInv, Finish PROVE ShapeInv'
  OBVIOUS
<1>0. /\ ShapeInv /\ UNCHANGED <<code, labels, addr, func, instrMap, insertBlock>>
      /\ pc = "enter" /\ pc' \in {"switch", "done"} /\ addr # func
      /\ addr \in Nat /\ BBAddr \subseteq Nat /\ func \in Nat
  BY FinishFacts, EntryFacts
<1>1. PairsInv'
  <2> SUFFICES ASSUME NEW a \in Addr, a + 1 < addr PROVE GoesTo(a, instrMap[a + 1])'
    BY <1>0 DEF PairsInv
  <2>1. GoesTo(a, instrMap[a + 1])
    BY <1>0 DEF ShapeInv, PairsInv
  <2> QED BY <1>0, <2>1, FinishLeaves DEF GoesTo
<1>2. BehindInv'
  BY <1>0, FinishLast DEF BehindInv
<1>3. AtHandInv'
  BY <1>0 DEF AtHandInv
<1>4. RegionsAhead'
  <2> SUFFICES ASSUME NEW k \in BBAddr, k >= addr PROVE term'[Untracked(k)] = Open
    BY <1>0 DEF RegionsAhead
  <2>1. insertBlock[1] < addr
    BY <1>0 DEF WalkInv, EnterInv
  <2>2. Untracked(k) \in Block /\ Untracked(k) # insertBlock
    BY <1>0, <2>1, BlockFacts
  <2>3. term[Untracked(k)] = Open
    BY <1>0 DEF ShapeInv, RegionsAhead
  <2>4. term[Untracked(k)].kind = "none"
    BY <2>3 DEF Open
  <2> QED BY <2>2, <2>3, <2>4, FinishTermIs
<1> QED BY <1>1, <1>2, <1>3, <1>4 DEF ShapeInv

LEMMA FinishBlocks == WalkInv /\ FoundInv /\ HomeInv /\ FlowInv /\ Finish => BlocksInv'
<1> SUFFICES ASSUME WalkInv, FoundInv, HomeInv, FlowInv, Finish PROVE BlocksInv'
  OBVIOUS
<1>1. /\ BlocksInv /\ TypeOK /\ UNCHANGED <<code, labels, bbMap, addr, nextBB>>
      /\ pc = "enter" /\ pc' \in {"switch", "done"}
  BY FinishFacts DEF Finish, FlowInv, WalkInv
<1>2. StartsInv'
  BY <1>1, StartsStay DEF BlocksInv, StartsInv
<1>3. TargetsInv'
  BY <1>1 DEF BlocksInv, TargetsInv
<1>4. InRange' /\ OpenInv'
  <2> DEFINE T == [kind |-> "indbr", succ |-> {Tracked(l) : l \in indBBs}]
  <2>1. indBBs \in SUBSET Addr
    BY <1>1 DEF TypeOK
  <2>2. T.kind # "none" /\ Tracked(Size) \notin T.succ
    BY <2>1, ProperTerms
  <2>3. \A b \in Block : term'[b] = term[b] \/ term'[b] = Ret \/ term'[b] = T
    BY FinishTermIs
  <2> HIDE DEF T
  <2> QED BY <1>1, <2>2, <2>3, ProperTerms, TermsStay DEF BlocksInv
<1> QED BY <1>2, <1>3, <1>4 DEF BlocksInv

\* The function that starts here has no blocks yet, or one that was made for it.
LEMMA StartNextFunctionFlow ==
    WalkInv /\ FoundInv /\ HomeInv /\ FlowInv /\ StartNextFunction => FlowInv'
<1> SUFFICES ASSUME WalkInv, FoundInv, HomeInv, FlowInv, StartNextFunction
             PROVE  FlowInv'
  OBVIOUS
<1>0. /\ pc = "switch" /\ pc' \in {"enter", "undefined"} /\ func' = addr
      /\ (addr \notin erased => pc' = "enter")
      /\ UNCHANGED <<code, labels, addr, instrMap, term, pending, erased>>
      /\ bodies' = bodies \cup {addr} /\ bbMap' = bbMap \cup {addr} /\ indBBs' = {}
      /\ BodyInv /\ LabelsDone /\ BlocksInv /\ ShapeInv
  BY DEF StartNextFunction, FlowInv, input
<1>1. /\ func < addr /\ addr \in Entries /\ Together(Entries, func, addr - 1)
      /\ Entries \subseteq Nat /\ addr \in Nat /\ func \in Nat /\ bbMap \subseteq Nat
      /\ labels \subseteq Nat
  <2>1. func < addr /\ addr \in Nat /\ func \in Nat /\ labels \subseteq Nat /\ bbMap \subseteq Nat
    BY <1>0, EntryFacts, AddrFacts DEF WalkInv, FuncInv, TypeOK
  <2>2. addr # func
    BY <2>1
  <2> QED BY <1>0, <2>1, <2>2, EntryFacts DEF HomeInv, RangeInv
<1>2. Entries' = Entries /\ Starts' = Starts
  BY <1>0, StartsStay
<1>3. pc' = "enter" /\ erased = {}
  BY <1>0 DEF BodyInv
<1>4. BodyInv'
  <2>1. \A t \in Entries : t <= addr <=> t = addr \/ t <= func
    <3> SUFFICES ASSUME NEW t \in Entries PROVE t <= addr <=> t = addr \/ t <= func
      OBVIOUS
    <3>1. t <= func <=> t <= addr - 1
      BY <1>1 DEF Together
    <3> QED BY <1>1, <3>1
  <2>2. bodies' = {t \in Entries : t <= addr}
    BY <1>0, <1>1, <2>1 DEF BodyInv
  <2>3. ASSUME NEW k \in bbMap, k >= addr PROVE k = addr
    <3>1. k >= func /\ addr <= k /\ ~ (addr <= func)
      BY <1>1, <2>3
    <3>2. Together(Entries, func, k)
      BY <1>0, <3>1 DEF BodyInv
    <3> QED BY <1>1, <3>1, <3>2 DEF Together
  <2>4. Together(Entries, addr, addr)
    BY DEF Together
  <2>5. \A k \in bbMap' : k >= addr => Together(Entries, addr, k)
    BY <1>0, <2>3, <2>4
  <2> QED BY <1>0, <1>2, <1>3, <2>2, <2>5 DEF BodyInv
<1>5. LabelsDone'
  <2>1. \A l \in labels : ~ (addr <= l /\ l < addr)
    BY <1>1
  <2> QED BY <1>0, <2>1 DEF LabelsDone
<1>6. BlocksInv'
  <2>1. StartsInv'
    <3>1. addr \in Starts /\ 0 \in Starts /\ bbMap \subseteq Starts
      BY <1>0, <1>1, StartsFacts DEF WalkInv, BlocksInv, StartsInv
    <3>2. nextBB' \in bbMap \cup {0}
      <4>1. addr + 1 \in Nat
        BY <1>1
      <4>2. LowerBound(bbMap, addr + 1) = None \/ LowerBound(bbMap, addr + 1) \in bbMap
        BY <1>1, <4>1, LowerBoundFound
      <4> QED BY <4>2 DEF StartNextFunction, NextBBAddr
    <3> QED BY <1>0, <1>2, <3>1, <3>2 DEF StartsInv
  <2>2. TargetsInv'
    BY <1>0, <1>3 DEF BlocksInv, TargetsInv
  <2>3. InRange' /\ OpenInv'
    BY <1>0 DEF BlocksInv, InRange, OpenInv, Terminated
  <2> QED BY <2>1, <2>2, <2>3 DEF BlocksInv
<1>7. ShapeInv'
  <2>1. \A a \in Addr : /\ TermOf(a)' = TermOf(a) /\ ExitBlock(a)' = ExitBlock(a)
                        /\ Leaves(a)' = Leaves(a)
    <3> SUFFICES ASSUME NEW a \in Addr
                 PROVE  /\ TermOf(a)' = TermOf(a) /\ ExitBlock(a)' = ExitBlock(a)
                        /\ Leaves(a)' = Leaves(a)
      OBVIOUS
    <3>1. Finished' = Finished
      BY <1>0, <1>3 DEF Finished
    <3>2. TermOf(a)' = TermOf(a) /\ ExitBlock(a)' = ExitBlock(a)
      BY <1>0, <3>1, TermOfStays DEF ExitBlock
    <3> QED BY <1>0, <3>2 DEF Leaves
  <2>2. PairsInv'
    BY <1>0, <2>1 DEF ShapeInv, PairsInv, GoesTo
  <2>3. BehindInv'
    BY <1>0, <1>3, <2>1 DEF ShapeInv, BehindInv
  <2>4. AtHandInv' /\ RegionsAhead'
    BY <1>0, <1>3 DEF ShapeInv, AtHandInv, RegionsAhead
  <2> QED BY <2>2, <2>3, <2>4 DEF ShapeInv
<1> QED BY <1>4, <1>5, <1>6, <1>7 DEF FlowInv

-----------------------------------------------------------------------------
(* All steps.                                                              *)

\* The translator does nothing more once it is done.
LEMMA DoneStays == Next => pc # "done"
BY DEF Next, EnterStep, InstrStep, RecordStep, StayInBlock, EnterBlock,
       EnterErasedBlock, Translating, TranslatePlain, TranslateRegion,
       TranslateLeave, TranslateCall, JumpForward, JumpBack, JumpBackSplit,
       JumpAsserts, JumpToErased, Advance, RecordInstr, RecordLabel,
       RecordLabelSplit, Finish, StartNextFunction

\* A step that goes on in the function at hand adds blocks to that one alone.
LEMMA BodyGoesOn ==
    ASSUME BodyInv, UNCHANGED <<code, labels, func, bodies, erased>>,
           pc # "done", pc' \notin {"undefined", "done"},
           \A k \in bbMap' : k >= func => k \in bbMap \/ Together(Entries, func, k)
    PROVE  BodyInv'
<1>1. Entries' = Entries
  BY DEF Entries, Found
<1>2. \A k \in bbMap' : k >= func => Together(Entries, func, k)
  BY DEF BodyInv
<1> QED BY <1>1, <1>2 DEF BodyInv

\* The blocks of a jump are in the function.
LEMMA JumpBody ==
    ASSUME WalkInv, HomeInv, BodyInv, Translating(Jumps),
           Target > addr \/ (Target < addr /\ BackTargetFound),
           UNCHANGED <<code, labels, func, bodies, erased>>,
           bbMap' \subseteq bbMap \cup {Target, addr + 1}
    PROVE  BodyInv'
<1>1. pc = "instr" /\ Op \in Jumps /\ pc' = "record"
  BY DEF Translating
<1>2. /\ Together(Entries, addr, Target) /\ Together(Entries, addr, addr + 1)
      /\ Together(Entries, func, addr) /\ Entries \subseteq Nat
      /\ func \in Int /\ addr \in Int /\ Target \in Int /\ addr + 1 \in Int
  BY <1>1, JumpTogether, AtHandHome
<1>3. Together(Entries, func, Target) /\ Together(Entries, func, addr + 1)
  BY <1>2, TogetherFacts
<1> QED BY <1>1, <1>3, BodyGoesOn

\* Blocks are made in the function at hand alone, and none is erased before the end.
LEMMA BodyStep ==
    ASSUME WalkInv, FoundInv, HomeInv, HomeInv', FlowInv, Next
    PROVE  BodyInv'
<1> USE DEF input, funcVars, bbVars
<1>1. BodyInv /\ pc # "done" /\ erased = {}
  BY DoneStays DEF FlowInv, BodyInv
<1>2. CASE StayInBlock
  BY <1>1, <1>2, BodyGoesOn DEF StayInBlock
<1>3. CASE EnterBlock
  <2>1. /\ UNCHANGED <<code, labels, func, bodies, erased, addr>> /\ pc' = "instr"
        /\ bbMap' = bbMap \cup {addr}
    BY <1>3 DEF EnterBlock, NewBBs
  <2>2. Together(Entries, func, addr)
    <3>1. Entries' = Entries
      BY <2>1 DEF Entries, Found
    <3> QED BY <2>1, <3>1 DEF HomeInv, RangeInv
  <2> QED BY <1>1, <2>1, <2>2, BodyGoesOn
<1>4. CASE EnterErasedBlock \/ JumpToErased
  BY <1>1, <1>4 DEF EnterErasedBlock, JumpToErased, JumpUsesErased
<1>5. CASE TranslatePlain \/ TranslateRegion \/ TranslateLeave \/ TranslateCall
  BY <1>1, <1>5, BodyGoesOn
  DEF Translating, TranslatePlain, TranslateRegion, TranslateLeave, TranslateCall
<1>6. CASE JumpForward
  BY <1>1, <1>6, JumpBody DEF JumpForward, NewBBs
<1>7. CASE JumpBack
  BY <1>1, <1>7, JumpBody DEF JumpBack, NewBBs
<1>8. CASE JumpBackSplit
  BY <1>1, <1>8, JumpBody DEF JumpBackSplit
<1>9. CASE JumpAsserts
  BY <1>1, <1>9, BodyGoesOn DEF JumpAsserts
<1>10. CASE RecordStep
  <2>1. /\ pc = "record" /\ pc' = "enter" /\ bbMap' \subseteq bbMap \cup {addr}
        /\ UNCHANGED <<code, labels, func, bodies, erased>>
    BY <1>10 DEF RecordStep, Advance, RecordInstr, RecordLabel, RecordLabelSplit
  <2>2. Together(Entries, func, addr)
    BY <2>1 DEF HomeInv, RangeInv
  <2> QED BY <1>1, <2>1, <2>2, BodyGoesOn
<1>11. CASE Finish
  <2>1. Entries' = Entries
    BY <1>11, FinishFacts DEF Entries, Found
  <2>2. /\ UNCHANGED <<code, labels, func, bodies, bbMap, addr>>
        /\ pc' = IF addr = Size THEN "done" ELSE "switch"
    BY <1>11 DEF Finish
  <2>3. erased' \subseteq (IF addr = Size THEN {Size} ELSE {})
    BY <1>11, FinishErases
  <2> QED BY <1>1, <2>1, <2>2, <2>3 DEF BodyInv
<1>12. CASE StartNextFunction
  BY <1>12, StartNextFunctionFlow DEF FlowInv
<1> QED BY <1>2, <1>3, <1>4, <1>5, <1>6, <1>7, <1>8, <1>9, <1>10, <1>11, <1>12
        DEF Next, EnterStep, InstrStep

\* A label is passed when its instruction is recorded.
LEMMA LabelsStep ==
    ASSUME WalkInv, FoundInv, HomeInv, FlowInv, Next
    PROVE  LabelsDone'
<1> USE DEF input, funcVars
<1>1. LabelsDone /\ TypeOK
  BY DEF FlowInv, WalkInv
<1>2. CASE EnterStep \/ InstrStep \/ Finish
  BY <1>1, <1>2
  DEF LabelsDone, EnterStep, InstrStep, StayInBlock, EnterBlock, EnterErasedBlock,
      TranslatePlain, TranslateRegion, TranslateLeave, TranslateCall, JumpForward,
      JumpBack, JumpBackSplit, JumpAsserts, JumpToErased, Finish
<1>3. CASE RecordStep
  <2>1. /\ addr \in Nat /\ labels \subseteq Nat /\ addr' = addr + 1
        /\ labels' = labels /\ func' = func /\ func \in Nat /\ func <= addr
    BY <1>1, <1>3, RecordFacts, AddrFacts
    DEF RecordStep, Advance, RecordInstr, RecordLabel, RecordLabelSplit, TypeOK
  <2>2. \A l \in labels : /\ l >= addr + 1 <=> l >= addr /\ l # addr
                          /\ l < addr + 1 <=> l < addr \/ l = addr
    BY <2>1
  <2>3. /\ {l \in labels : l >= addr + 1} = {l \in labels : l >= addr} \ {addr}
        /\ {l \in labels : func <= l /\ l < addr + 1}
              = {l \in labels : func <= l /\ l < addr} \cup ({addr} \cap labels)
    BY <2>1, <2>2
  <2>4. addr \in pending <=> addr \in labels
    BY <1>1, <2>1 DEF LabelsDone
  <2>5. CASE RecordInstr
    BY <1>1, <2>1, <2>3, <2>4, <2>5 DEF RecordInstr, LabelsDone
  <2>6. CASE RecordLabel \/ RecordLabelSplit
    BY <1>1, <2>1, <2>3, <2>4, <2>6 DEF RecordLabel, RecordLabelSplit, LabelsDone
  <2> QED BY <1>3, <2>5, <2>6 DEF RecordStep
<1>4. CASE StartNextFunction
  BY <1>4, StartNextFunctionFlow DEF FlowInv
<1> QED BY <1>2, <1>3, <1>4 DEF Next

\* The blocks.
LEMMA BlocksStep ==
    ASSUME WalkInv, FoundInv, HomeInv, FlowInv, Next
    PROVE  BlocksInv'
<1> USE DEF input, funcVars, bbVars
<1>1. BodyInv /\ BlocksInv /\ erased = {}
  BY DoneStays DEF FlowInv, BodyInv
<1>2. CASE StayInBlock \/ EnterBlock
  BY <1>2, StayInBlockBlocks, EnterBlockBlocks
<1>3. CASE TranslatePlain \/ TranslateCall \/ TranslateRegion \/ TranslateLeave
  BY <1>3, TranslateOnwardBlocks, TranslateRegionBlocks, TranslateLeaveBlocks
<1>4. CASE JumpForward \/ JumpBack \/ JumpBackSplit
  BY <1>4, JumpForwardBlocks, JumpBackBlocks, JumpBackSplitBlocks
<1>5. CASE JumpAsserts
  <2>1. /\ UNCHANGED <<code, labels, addr, bbMap, term, nextBB>>
        /\ pc = "instr" /\ pc' = "abort"
    BY <1>5 DEF JumpAsserts
  <2>2. StartsInv'
    BY <1>1, <2>1, StartsStay DEF BlocksInv, StartsInv
  <2>3. TargetsInv'
    BY <1>1, <2>1 DEF BlocksInv, TargetsInv
  <2>4. InRange' /\ OpenInv'
    BY <1>1, <2>1 DEF BlocksInv, InRange, OpenInv, Terminated
  <2> QED BY <2>2, <2>3, <2>4 DEF BlocksInv
<1>6. CASE RecordInstr \/ RecordLabel
  BY <1>6, RecordInPlaceBlocks DEF RecordInstr, RecordLabel
<1>7. CASE RecordLabelSplit
  BY <1>7, RecordLabelSplitBlocks
<1>8. CASE Finish
  BY <1>8, FinishBlocks
<1>9. CASE EnterErasedBlock \/ JumpToErased
  BY <1>1, <1>9 DEF EnterErasedBlock, JumpToErased, JumpUsesErased
<1>10. CASE StartNextFunction
  BY <1>10, StartNextFunctionFlow DEF FlowInv
<1> QED BY <1>2, <1>3, <1>4, <1>5, <1>6, <1>7, <1>8, <1>9, <1>10
        DEF Next, EnterStep, InstrStep, RecordStep

\* What the instructions leave behind.
LEMMA ShapeStep ==
    ASSUME WalkInv, FoundInv, HomeInv, FlowInv, Next, pc' # "abort"
    PROVE  ShapeInv'
<1> USE DEF input, funcVars, bbVars
<1>1. erased = {}
  BY DoneStays DEF FlowInv, BodyInv
<1>2. CASE StayInBlock \/ EnterBlock
  BY <1>2, StayInBlockShape, EnterBlockShape
<1>3. CASE TranslatePlain \/ TranslateCall \/ TranslateRegion \/ TranslateLeave
  BY <1>3, TranslateOnwardShape, TranslateRegionShape, TranslateLeaveShape
<1>4. CASE JumpForward
  BY <1>4, JumpShape DEF JumpForward
<1>5. CASE JumpBack
  BY <1>5, JumpShape DEF JumpBack
<1>6. CASE JumpBackSplit
  BY <1>6, JumpBackSplitShape
<1>7. CASE RecordInstr \/ RecordLabel
  BY <1>7, RecordInPlaceShape DEF RecordInstr, RecordLabel
<1>8. CASE RecordLabelSplit
  BY <1>8, RecordLabelSplitShape
<1>9. CASE Finish
  BY <1>9, FinishShape
<1>10. CASE EnterErasedBlock \/ JumpToErased \/ JumpAsserts
  BY <1>1, <1>10 DEF EnterErasedBlock, JumpToErased, JumpUsesErased, JumpAsserts
<1>11. CASE StartNextFunction
  <2>1. FlowInv'
    BY <1>11, StartNextFunctionFlow
  <2> QED BY <2>1 DEF FlowInv
<1> QED BY <1>2, <1>3, <1>4, <1>5, <1>6, <1>7, <1>8, <1>9, <1>10, <1>11
        DEF Next, EnterStep, InstrStep, RecordStep

LEMMA InitFlow ==
    ASSUME WholeFunctions, Init
    PROVE  FlowInv
<1>1. code \in Codes /\ labels \in LabelSets(code) /\ TypeOK /\ WalkInv
  BY InitWalk DEF Init, WalkInv
<1>2. BodyInv
  <2>1. /\ WholeFunction(code, labels) /\ pc = "enter" /\ erased = {} /\ func = 0
        /\ bodies = {0} /\ bbMap = {0}
    BY <1>1 DEF Init, WholeFunctions
  <2>2. {t \in Entries : t <= 0} = {0}
    <3>1. 0 \in Entries /\ \A t \in Entries : t \in Nat /\ 0 \in Nat
      BY <1>1, EntryFacts
    <3>2. \A t \in Entries : t <= 0 <=> t = 0
      BY <3>1
    <3> QED BY <3>1, <3>2
  <2> QED BY <2>1, <2>2 DEF BodyInv, Together
<1>3. LabelsDone
  <2>1. \A l \in labels : l >= 0 /\ ~ (0 <= l /\ l < 0)
    BY <1>1, AddrFacts DEF TypeOK
  <2> QED BY <2>1 DEF Init, LabelsDone
<1>4. BlocksInv
  <2>1. StartsInv
    BY <1>1, StartsFacts DEF Init, StartsInv
  <2>2. TargetsInv
    BY AddrFacts DEF Init, TargetsInv, Addr
  <2>3. InRange /\ OpenInv
    BY DEF Init, InRange, OpenInv, Open
  <2> QED BY <2>1, <2>2, <2>3 DEF BlocksInv
<1>5. ShapeInv
  <2>1. PairsInv /\ BehindInv /\ AtHandInv
    BY AddrFacts DEF Init, PairsInv, BehindInv, AtHandInv
  <2>2. RegionsAhead
    BY BlockFacts DEF Init, RegionsAhead
  <2> QED BY <2>1, <2>2 DEF ShapeInv
<1> QED BY <1>2, <1>3, <1>4, <1>5 DEF FlowInv

LEMMA StepFlow ==
    ASSUME WalkInv, FoundInv, HomeInv, HomeInv', FlowInv, [Next]_vars
    PROVE  FlowInv'
<1>1. CASE Next
  BY <1>1, BodyStep, LabelsStep, BlocksStep, ShapeStep DEF FlowInv
<1>2. CASE UNCHANGED vars
  <2>1. /\ UNCHANGED <<code, labels, pc, func, bodies, addr, bbMap, instrMap, term,
                       insertBlock, first, nextBB, pending, indBBs, erased>>
    BY <1>2 DEF vars, input, funcVars, bbVars
  <2>2. Entries' = Entries /\ Starts' = Starts
    BY <2>1, StartsStay DEF Entries, Found
  <2>3. BodyInv' /\ LabelsDone'
    BY <2>1, <2>2 DEF FlowInv, BodyInv, LabelsDone
  <2>4. BlocksInv'
    BY <2>1, <2>2 DEF FlowInv, BlocksInv, StartsInv, TargetsInv, InRange, OpenInv,
                      Terminated
  <2>5. ASSUME pc # "abort" PROVE ShapeInv'
    <3>1. ShapeInv /\ Finished' = Finished
      BY <2>1, <2>5 DEF FlowInv, Finished
    <3>2. \A a : /\ TermOf(a)' = TermOf(a) /\ ExitBlock(a)' = ExitBlock(a)
                 /\ ExitTerm(a)' = ExitTerm(a)
      BY <2>1, <3>1, TermOfStays DEF ExitBlock
    <3>3. \A a : Leaves(a)' = Leaves(a)
      BY <2>1, <3>2 DEF Leaves
    <3>4. \A a, k : Leaving(a, k) => Leaving(a, k)'
      BY <2>1, <3>2 DEF Leaving
    <3>5. PairsInv'
      BY <2>1, <3>1, <3>3 DEF ShapeInv, PairsInv, GoesTo
    <3>6. BehindInv'
      BY <2>1, <3>1, <3>3, <3>4 DEF ShapeInv, BehindInv, GoesTo
    <3>7. AtHandInv'
      BY <2>1, <3>1, <3>4 DEF ShapeInv, AtHandInv
    <3>8. RegionsAhead'
      BY <2>1, <3>1 DEF ShapeInv, RegionsAhead
    <3> QED BY <3>5, <3>6, <3>7, <3>8 DEF ShapeInv
  <2> QED BY <2>1, <2>3, <2>4, <2>5 DEF FlowInv
<1> QED BY <1>1, <1>2

-----------------------------------------------------------------------------
(* The finished range.                                                     *)

\* What its instructions have left behind.
LEMMA DoneFacts ==
    ASSUME WalkInv, FlowInv, pc = "done", NEW a \in Addr
    PROVE  IF EndsBlock(a)
           THEN /\ term[ExitBlock(a)] = FinalTerm(a)
                /\ code[a].op = "region" => term[Tracked(instrMap[a])] = RegionOf(a)
           ELSE code[a].op \in Onward
<1>1. addr = Size /\ ShapeInv
  BY DEF FlowInv, BodyInv
<1>2. a \in Nat /\ a < Size /\ (a + 1 # Size => a + 1 < Size)
  BY AddrFacts DEF Addr
<1>3. TermOf(a) = FinalTerm(a)
  BY <1>1, <1>2 DEF TermOf, Finished
<1>4. CASE a + 1 = Size
  <2>1. Leaves(a)
    BY <1>1, <1>4 DEF ShapeInv, BehindInv
  <2> QED BY <1>3, <1>4, <2>1 DEF Leaves, EndsBlock
<1>5. CASE a + 1 # Size
  <2>1. GoesTo(a, instrMap[a + 1])
    BY <1>1, <1>2, <1>5 DEF ShapeInv, PairsInv
  <2>2. EndsBlock(a) <=> instrMap[a + 1] # instrMap[a]
    BY <1>5 DEF EndsBlock
  <2>3. EndsBlock(a) => Leaves(a)
    BY <2>1, <2>2 DEF GoesTo
  <2>4. ~EndsBlock(a) => code[a].op \in Onward
    BY <2>1, <2>2 DEF GoesTo
  <2> QED BY <1>3, <2>3, <2>4 DEF Leaves
<1> QED BY <1>4, <1>5

\* All functions of the range have received their bodies.
LEMMA DoneEntries ==
    ASSUME WalkInv, HomeInv, FlowInv, pc = "done"
    PROVE  /\ bodies = Entries /\ Entries \subseteq Addr /\ 0 \in Entries
           /\ Entries \subseteq bbMap
<1>1. TypeOK /\ addr = Size /\ func \in Addr /\ bodies = {t \in Entries : t <= func}
  BY DEF WalkInv, TypeOK, FlowInv, BodyInv
<1>2. Entries \subseteq Addr /\ 0 \in Entries
  <2>1. \A a \in Addr : code[a].target \in Addr
    BY <1>1 DEF TypeOK, Instr
  <2> QED BY <2>1, AddrFacts DEF Entries, Found
<1>3. addr # func
  BY <1>1 DEF Addr
<1>4. Together(Entries, func, Size - 1) /\ \A t \in Entries : t <= func => t \in bbMap
  BY <1>1, <1>3 DEF HomeInv, RangeInv
<1>5. \A t \in Entries : t <= func
  <2>1. \A t \in Entries : t <= Size - 1
    BY <1>2 DEF Addr
  <2> QED BY <1>4, <2>1 DEF Together
<1> QED BY <1>1, <1>2, <1>4, <1>5

\* The addresses of a function are those that no function starts in between.
LEMMA BodyIsTogether ==
    ASSUME NEW B, B \subseteq Addr, 0 \in B, NEW a \in Addr
    PROVE  BodyOf(B, a) = {x \in Addr : Together(B, a, x)}
<1>0. B \subseteq Nat /\ a \in Nat /\ a + 1 \in Nat /\ Size \in Nat /\ a < Size
  BY AddrFacts DEF Addr
<1>1. PICK f \in AtOrBefore(B, a) : \A k \in AtOrBefore(B, a) : k <= f
  <2>1. \A k \in B : k \in Nat /\ (k <= a => k \in 0 .. a)
    BY <1>0
  <2>2. AtOrBefore(B, a) \subseteq 0 .. a
    BY <2>1 DEF AtOrBefore
  <2>3. 0 \in AtOrBefore(B, a)
    BY <1>0 DEF AtOrBefore
  <2> QED BY <1>0, <2>2, <2>3, MaxExists
<1>2. f \in B /\ f \in Nat /\ f <= a /\ \A k \in B : k <= a => k <= f
  BY <1>0, <1>1 DEF AtOrBefore
<1>3. FirstOf(B, a) = f
  BY <1>0, <1>2, MaxIsNearest DEF FirstOf
<1> DEFINE e == EndOf(B, a)
<1>4. /\ e \in Nat /\ a < e /\ e <= Size /\ (e = Size \/ e \in B)
      /\ \A k \in B : k <= a \/ e <= k
  <2>1. \/ LowerBound(B, a + 1) = None /\ \A k \in B : k < a + 1
        \/ /\ LowerBound(B, a + 1) \in B /\ LowerBound(B, a + 1) >= a + 1
           /\ \A k \in B : k >= a + 1 => LowerBound(B, a + 1) <= k
    BY <1>0, LowerBoundFound
  <2>2. e = IF LowerBound(B, a + 1) = None THEN Size ELSE LowerBound(B, a + 1)
    BY DEF EndOf, NextBBAddr
  <2>3. None \notin B
    BY <1>0 DEF None
  <2> DEFINE n == LowerBound(B, a + 1)
  <2> HIDE DEF n, e
  <2>4. CASE n = None /\ \A k \in B : k < a + 1
    BY <1>0, <2>2, <2>4 DEF n
  <2>5. CASE n \in B /\ n >= a + 1 /\ \A k \in B : k >= a + 1 => n <= k
    <3>1. e = n
      BY <2>2, <2>3, <2>5 DEF n
    <3>2. n \in Nat /\ n <= Size
      BY <1>0, <2>5 DEF Addr
    <3> QED BY <1>0, <2>5, <3>1, <3>2
  <2> QED BY <2>1, <2>4, <2>5 DEF n
<1> HIDE DEF e
<1>5. ASSUME NEW x \in Addr
      PROVE  f <= x /\ x < e <=> Together(B, a, x)
  <2>0. x \in Nat /\ x < Size
    BY AddrFacts DEF Addr
  <2>1. ASSUME f <= x, x < e PROVE Together(B, a, x)
    <3> SUFFICES ASSUME NEW t \in B PROVE t <= a <=> t <= x
      BY DEF Together
    <3>1. t \in Nat /\ (t <= a => t <= f) /\ (t <= a \/ e <= t)
      BY <1>0, <1>2, <1>4
    <3> QED BY <1>0, <1>2, <1>4, <2>0, <2>1, <3>1
  <2>2. ASSUME Together(B, a, x) PROVE f <= x /\ x < e
    <3>1. f <= x
      BY <1>2, <2>2 DEF Together
    <3>2. e \in B => ~ (e <= x)
      BY <1>0, <1>4, <2>2 DEF Together
    <3> QED BY <1>4, <2>0, <3>1, <3>2
  <2> QED BY <2>1, <2>2
<1>6. BodyOf(B, a) = f .. e - 1
  BY <1>3 DEF BodyOf, e
<1>7. \A x : x \in f .. e - 1 <=> x \in Addr /\ f <= x /\ x < e
  BY <1>0, <1>2, <1>4 DEF Addr
<1> QED BY <1>5, <1>6, <1>7

\* Where a block ends, the next instruction starts one.
LEMMA EndsBeforeStart ==
    ASSUME WalkInv, addr = Size, NEW a \in Addr, a + 1 \in Addr, EndsBlock(a)
    PROVE  a + 1 \in bbMap
<1>1. a < addr /\ a + 1 < addr /\ a \in Nat /\ bbMap \subseteq Nat
  <2>1. bbMap \subseteq BBAddr
    BY DEF WalkInv, TypeOK
  <2> QED BY <2>1, AddrFacts DEF Addr
<1>2. /\ Nearest(instrMap[a], a) /\ Nearest(instrMap[a + 1], a + 1)
      /\ instrMap[a + 1] \in bbMap
  BY <1>1, BlockOf
<1>3. instrMap[a + 1] # instrMap[a]
  BY <1>1 DEF EndsBlock
<1> QED BY <1>1, <1>2, <1>3, NextNearest

\* Where the guest goes, told without the functions' ranges.
LEMMA GuestGoes ==
    ASSUME WalkInv, HomeInv, FlowInv, pc = "done", NEW a \in Addr
    PROVE  /\ code[a].op = "ret" => GuestSucc(a) = {}
           /\ code[a].op = "ijump" => GuestSucc(a) = OwnLabels(a)
           /\ code[a].op = "jump" => GuestSucc(a) = {code[a].target}
           /\ code[a].op = "branch" => GuestSucc(a) = {code[a].target, a + 1}
           /\ code[a].op \in Onward \cup {"region"} =>
                 GuestSucc(a) = IF LastOf(a) THEN {} ELSE {a + 1}
<1>1. BodyOf(bodies, a) = {x \in Addr : Together(Entries, a, x)}
  BY DoneEntries, BodyIsTogether
<1>2. /\ code[a].op = "ret" => GuestSucc(a) = {}
      /\ code[a].op = "jump" => GuestSucc(a) = {code[a].target}
      /\ code[a].op = "branch" => GuestSucc(a) = {code[a].target, a + 1}
  BY DEF GuestSucc, SuccOf
<1>3. ASSUME code[a].op = "ijump" PROVE GuestSucc(a) = OwnLabels(a)
  <2>1. GuestSucc(a) = labels \cap BodyOf(bodies, a)
    BY <1>3 DEF GuestSucc, SuccOf
  <2>2. labels \subseteq Addr
    BY DEF WalkInv, TypeOK
  <2> QED BY <1>1, <2>1, <2>2 DEF OwnLabels
<1>4. ASSUME code[a].op \in Onward \cup {"region"}
      PROVE  GuestSucc(a) = IF LastOf(a) THEN {} ELSE {a + 1}
  <2>1. GuestSucc(a) = {a + 1} \cap BodyOf(bodies, a)
    BY <1>4 DEF GuestSucc, SuccOf, Onward
  <2>2. a + 1 \in Addr <=> a + 1 # Size
    BY AddrFacts DEF Addr
  <2>3. Together(Entries, a, a + 1) <=> a + 1 \notin Entries
    <3>1. Entries \subseteq Nat /\ a \in Nat
      BY EntryFacts, AddrFacts
    <3>2. ASSUME a + 1 \in Entries PROVE ~Together(Entries, a, a + 1)
      BY <3>1, <3>2 DEF Together
    <3>3. ASSUME a + 1 \notin Entries PROVE Together(Entries, a, a + 1)
      <4>1. \A t \in Entries : t # a + 1
        BY <3>3
      <4> QED BY <3>1, <4>1 DEF Together
    <3> QED BY <3>2, <3>3
  <2>4. a + 1 \in BodyOf(bodies, a) <=> ~LastOf(a)
    BY <1>1, <2>2, <2>3 DEF LastOf
  <2> QED BY <2>1, <2>4
<1> QED BY <1>2, <1>3, <1>4

\* The terminator of a finished block leads where the guest goes.
LEMMA FinalSucc ==
    ASSUME WalkInv, HomeInv, FlowInv, pc = "done", NEW a \in Addr
    PROVE  /\ FinalTerm(a).kind \notin {"none", "region"}
           /\ FinalTerm(a).succ = {Tracked(s) : s \in GuestSucc(a)}
<1>1. TypeOK /\ WholeFunction(code, labels)
  BY DEF WalkInv, FlowInv, BodyInv
<1>2. /\ code[a].op \in {"plain", "call", "region", "ret", "ijump", "jump", "branch"}
      /\ FinalTerm(a).kind \notin {"none", "region"}
  BY <1>1, OpFacts, TermOfFacts
<1>3. CASE code[a].op = "ijump"
  <2>1. GuestSucc(a) = OwnLabels(a)
    BY <1>3, GuestGoes
  <2> QED BY <1>2, <1>3, <2>1 DEF FinalTerm
<1>4. CASE code[a].op \in Onward \cup {"region"}
  <2>1. GuestSucc(a) = IF LastOf(a) THEN {} ELSE {a + 1}
    BY <1>4, GuestGoes
  <2>2. CASE LastOf(a)
    <3>1. FinalTerm(a) = Ret
      BY <1>4, <2>2 DEF FinalTerm, Onward
    <3> QED BY <1>2, <2>1, <2>2, <3>1 DEF Ret
  <2>3. CASE ~LastOf(a)
    <3>1. FinalTerm(a) = BrTo({a + 1})
      BY <1>4, <2>3 DEF FinalTerm, ExitTerm, Onward
    <3> QED BY <1>2, <2>1, <2>3, <3>1 DEF BrTo
  <2> QED BY <2>2, <2>3
<1>5. CASE code[a].op \in {"ret", "jump", "branch"}
  <2>1. FinalTerm(a) = ExitTerm(a)
    BY <1>5 DEF FinalTerm, Onward
  <2>2. CASE code[a].op = "ret"
    BY <1>2, <2>1, <2>2, GuestGoes DEF ExitTerm, Ret
  <2>3. CASE code[a].op = "jump"
    BY <1>2, <2>1, <2>3, GuestGoes DEF ExitTerm, BrTo
  <2>4. CASE code[a].op = "branch"
    BY <1>2, <2>1, <2>4, GuestGoes DEF ExitTerm, CondBrTo
  <2> QED BY <1>5, <2>2, <2>3, <2>4
<1> QED BY <1>2, <1>3, <1>4, <1>5 DEF Onward

LEMMA EdgesAtEnd == WalkInv /\ HomeInv /\ FlowInv => EdgesFollowGuest
<1> SUFFICES ASSUME WalkInv, HomeInv, FlowInv, pc = "done", NEW a \in Addr
             PROVE  IF EndsBlock(a)
                    THEN /\ Terminated(ExitBlock(a))
                         /\ term[ExitBlock(a)].succ = {Tracked(s) : s \in GuestSucc(a)}
                    ELSE code[a].op \in Onward
  BY DEF EdgesFollowGuest, Onward
<1>1. EndsBlock(a) => term[ExitBlock(a)] = FinalTerm(a)
  BY DoneFacts
<1>2. ~EndsBlock(a) => code[a].op \in Onward
  BY DoneFacts
<1> QED BY <1>1, <1>2, FinalSucc DEF Terminated

LEMMA LeadersAtEnd == WalkInv /\ HomeInv /\ FlowInv => BlocksAreLeaders
<1> SUFFICES ASSUME WalkInv, HomeInv, FlowInv, pc = "done"
             PROVE  bbMap \cap Addr = LeadersOf(code, labels, Entries)
  BY DoneEntries DEF BlocksAreLeaders
<1>1. /\ TypeOK /\ addr = Size /\ BlocksInv /\ WholeFunction(code, labels)
      /\ Size \notin Addr
  BY AddrFacts DEF WalkInv, FlowInv, BodyInv, Addr
<1>2. bbMap \cap Addr \subseteq LeadersOf(code, labels, Entries)
  BY <1>1 DEF BlocksInv, StartsInv, Starts
<1>3. LeadersOf(code, labels, Entries) \subseteq Addr
  BY <1>1, DoneEntries DEF LeadersOf, TypeOK, Instr
<1>4. Entries \subseteq bbMap /\ labels \subseteq bbMap
  <2>1. labels \ pending \subseteq bbMap
    BY DEF WalkInv, LabelInv
  <2>2. \A l \in labels : ~(l >= Size)
    BY <1>1, AddrFacts DEF TypeOK, Addr
  <2>3. pending = {}
    BY <1>1, <2>2 DEF FlowInv, LabelsDone
  <2> QED BY <2>1, <2>3, DoneEntries
<1>5. \A a \in Addr : code[a].op \in Jumps => code[a].target \in bbMap
  <2>1. \A a \in Addr : a < addr
    BY <1>1, AddrFacts DEF Addr
  <2> QED BY <1>1, <2>1 DEF BlocksInv, TargetsInv
<1>6. \A a \in Addr :
        code[a].op \notin Onward /\ a + 1 \in Addr => a + 1 \in bbMap
  BY <1>1, EndsBeforeStart, DoneFacts
<1>7. LeadersOf(code, labels, Entries) \subseteq bbMap
  BY <1>4, <1>5, <1>6 DEF LeadersOf, Onward
<1> QED BY <1>2, <1>3, <1>7

LEMMA ErasedAtEnd == FlowInv => NoUseOfErased
BY DEF FlowInv, BodyInv, BlocksInv, InRange, NoUseOfErased

-----------------------------------------------------------------------------
(* The theorems about the translation.                                     *)

GraphOK == WalkInv /\ FoundInv /\ HomeInv /\ FlowInv

LEMMA InitGraph ==
    ASSUME NoSelfCalls, FunctionsApart, WholeFunctions
    PROVE  Init => GraphOK
BY InitWalk, InitFound, InitHome, InitFlow DEF GraphOK

LEMMA StepGraph == GraphOK /\ [Next]_vars => GraphOK'
BY StepWalk, StepFound, StepHome, StepFlow DEF GraphOK

LEMMA GraphCorrect ==
    ASSUME NoSelfCalls, FunctionsApart, WholeFunctions
    PROVE  Spec => []GraphOK
BY InitGraph, StepGraph, PTL DEF Spec

(* The control-flow graph that Function::translate builds of a range is the       *)
(* guest's, however long it is and whatever functions are found on the way: each  *)
(* block ends in a terminator that leads exactly where the guest goes.            *)
THEOREM EdgesCorrect ==
    ASSUME NoSelfCalls, FunctionsApart, WholeFunctions
    PROVE  Spec => []EdgesFollowGuest
<1>1. GraphOK => EdgesFollowGuest
  BY EdgesAtEnd DEF GraphOK
<1> QED BY <1>1, GraphCorrect, PTL

(* Its blocks, made ahead of the walk and split behind it, are the basic blocks.  *)
THEOREM LeadersCorrect ==
    ASSUME NoSelfCalls, FunctionsApart, WholeFunctions
    PROVE  Spec => []BlocksAreLeaders
<1>1. GraphOK => BlocksAreLeaders
  BY LeadersAtEnd DEF GraphOK
<1> QED BY <1>1, GraphCorrect, PTL

(* finish() erases at most the block behind the last instruction, to which no     *)
(* branch leads.                                                                  *)
THEOREM ErasedCorrect ==
    ASSUME NoSelfCalls, FunctionsApart, WholeFunctions
    PROVE  Spec => []NoUseOfErased
<1>1. GraphOK => NoUseOfErased
  BY ErasedAtEnd DEF GraphOK
<1> QED BY <1>1, GraphCorrect, PTL

-----------------------------------------------------------------------------
(* A run of the finished function.                                         *)

\* The host is at an instruction of its block, once the function is finished.
HostInv ==
    /\ hostAt \in Addr \cup {Idle, Exited}
    /\ pc # "done" => hostAt = Idle
    /\ hostAt \in Addr => hostBlock = Tracked(instrMap[hostAt])

RunInv == GraphOK /\ HostInv

\* Idle and Exited are no addresses.
LEMMA NotAddr == Idle \notin Addr /\ Exited \notin Addr /\ Idle # Exited
BY AddrFacts DEF Addr, Idle, Exited

\* A block begins with the instruction at its address.
LEMMA FirstInBlock ==
    ASSUME WalkInv, addr = Size, NEW s \in bbMap \cap Addr
    PROVE  FirstIn(s) = s /\ instrMap[s] = s
<1>1. bbMap \subseteq Nat /\ Addr \subseteq Nat /\ \A a \in Addr : a < addr
  <2>1. bbMap \subseteq BBAddr
    BY DEF WalkInv, TypeOK
  <2>2. \A a \in Addr : a < addr
    BY AddrFacts DEF Addr
  <2> QED BY <2>1, <2>2, AddrFacts
<1>2. instrMap[s] = s
  <2>1. instrMap[s] \in bbMap /\ instrMap[s] <= s /\ s <= instrMap[s]
    <3>1. Nearest(instrMap[s], s) /\ s \in Nat /\ s <= s
      BY <1>1, BlockOf
    <3> QED BY <3>1 DEF Nearest
  <2>2. instrMap[s] \in Nat /\ s \in Nat
    BY <1>1, <2>1
  <2> QED BY <2>1, <2>2
<1> DEFINE S == {a \in Addr : instrMap[a] = s}
<1>3. S \subseteq Nat /\ s \in S
  BY <1>1, <1>2
<1>4. \A a \in S : s <= a
  BY <1>1, BlockOf
<1> HIDE DEF S
<1>5. Min(S) \in S /\ \A k \in S : Min(S) <= k
  BY <1>3, MinIsLeast
<1>6. Min(S) <= s /\ s <= Min(S) /\ Min(S) \in Nat /\ s \in Nat
  BY <1>3, <1>4, <1>5
<1>7. Min(S) = s
  BY <1>6
<1> QED BY <1>2, <1>7 DEF FirstIn, S

\* Where a block ends, the guest goes on at the start of one.
LEMMA SuccStart ==
    ASSUME GraphOK, pc = "done", NEW a \in Addr, EndsBlock(a)
    PROVE  GuestSucc(a) \subseteq bbMap \cap Addr
<1>1. /\ TypeOK /\ addr = Size /\ WholeFunction(code, labels)
      /\ bbMap \cap Addr = LeadersOf(code, labels, bodies)
  BY LeadersAtEnd DEF GraphOK, WalkInv, FlowInv, BodyInv, BlocksAreLeaders
<1>2. /\ code[a].op \in {"plain", "call", "region", "ret", "ijump", "jump", "branch"}
      /\ code[a].op = "branch" => a + 1 \in Addr
  BY <1>1, OpFacts
<1>3. labels \subseteq bbMap \cap Addr
  BY <1>1 DEF LeadersOf
<1>4. code[a].op \in Jumps => code[a].target \in bbMap \cap Addr
  BY <1>1 DEF LeadersOf
<1>5. a + 1 \in Addr => a + 1 \in bbMap \cap Addr
  BY <1>1, EndsBeforeStart DEF GraphOK
<1>6. ~LastOf(a) => a + 1 \in Addr
  BY AddrFacts DEF LastOf
<1>7. CASE code[a].op \in Onward \cup {"region"}
  BY <1>5, <1>6, <1>7, GuestGoes DEF GraphOK
<1>8. CASE code[a].op \in {"ret", "ijump", "jump", "branch"}
  BY <1>2, <1>3, <1>4, <1>5, <1>8, GuestGoes DEF GraphOK, OwnLabels, Jumps
<1> QED BY <1>2, <1>7, <1>8 DEF Onward

\* A host step from an instruction of a finished block.
LEMMA HostFacts ==
    ASSUME GraphOK, HostInv, hostAt \in Addr
    PROVE  /\ pc = "done" /\ addr = Size
           /\ hostBlock = Tracked(instrMap[hostAt])
           /\ hostBlock[1] = instrMap[hostAt]
           /\ GoesOnIn(hostBlock[1], hostAt) <=> ~EndsBlock(hostAt)
           /\ EndsBlock(hostAt) =>
                 /\ Terminated(LastBlock)
                 /\ term[LastBlock].succ = {Tracked(s) : s \in GuestSucc(hostAt)}
                 /\ GuestSucc(hostAt) \subseteq bbMap \cap Addr
<1> DEFINE a == hostAt
<1>0. WalkInv /\ HomeInv /\ FlowInv
  BY DEF GraphOK
<1>1. pc = "done" /\ hostBlock = Tracked(instrMap[a]) /\ TypeOK
  BY <1>0, NotAddr DEF HostInv, WalkInv
<1>2. addr = Size
  BY <1>0, <1>1 DEF FlowInv, BodyInv
<1>3. a < addr
  BY <1>2, AddrFacts DEF Addr
<1>4. instrMap[a] \in BBAddr
  BY <1>0, <1>3, BlockOf
<1>5. hostBlock[1] = instrMap[a]
  BY <1>1, <1>4, BlockFacts
<1>6. GoesOnIn(hostBlock[1], a) <=> ~EndsBlock(a)
  BY <1>5, AddrFacts DEF GoesOnIn, EndsBlock, Addr
<1>7. ASSUME EndsBlock(a) PROVE LastBlock = ExitBlock(a)
  <2>1. term[ExitBlock(a)] = FinalTerm(a)
    BY <1>0, <1>1, <1>7, DoneFacts
  <2>2. CASE code[a].op = "region"
    <3>1. term[hostBlock] = RegionOf(a)
      BY <1>0, <1>1, <1>7, <2>2, DoneFacts
    <3> QED BY <2>2, <3>1 DEF LastBlock, RegionOf, ExitBlock
  <2>3. CASE code[a].op # "region"
    <3>1. ExitBlock(a) = hostBlock
      BY <1>1, <2>3 DEF ExitBlock
    <3>2. term[hostBlock].kind # "region"
      BY <1>0, <1>1, <2>1, <3>1, FinalSucc
    <3> QED BY <3>1, <3>2 DEF LastBlock
  <2> QED BY <2>2, <2>3
<1>8. EndsBlock(a) => /\ Terminated(LastBlock)
                      /\ term[LastBlock].succ = {Tracked(s) : s \in GuestSucc(a)}
  BY <1>0, <1>1, <1>7, EdgesAtEnd DEF EdgesFollowGuest
<1>9. EndsBlock(a) => GuestSucc(a) \subseteq bbMap \cap Addr
  BY <1>1, SuccStart
<1> QED BY <1>1, <1>2, <1>5, <1>6, <1>8, <1>9

LEMMA InitRun ==
    ASSUME NoSelfCalls, FunctionsApart, WholeFunctions, RunInit
    PROVE  RunInv
<1>1. GraphOK
  BY InitGraph DEF RunInit
<1>2. HostInv
  BY NotAddr DEF RunInit, Init, HostInv
<1> QED BY <1>1, <1>2 DEF RunInv

\* What the run reads does not change once the function is finished.
LEMMA RunStays ==
    ASSUME RunInv, vars' = vars
    PROVE  /\ GraphOK' /\ pc' = pc /\ instrMap' = instrMap
           /\ code' = code /\ labels' = labels /\ bodies' = bodies
<1>1. /\ pc' = pc /\ instrMap' = instrMap
      /\ code' = code /\ labels' = labels /\ bodies' = bodies
  BY DEF vars, input, funcVars, bbVars
<1>2. GraphOK'
  BY StepGraph DEF RunInv
<1> QED BY <1>1, <1>2

\* The entry block is the one of the first instruction.
LEMMA CallFacts ==
    ASSUME RunInv, HostCall
    PROVE  hostAt' = 0 /\ hostBlock' = Tracked(0) /\ instrMap[0] = 0 /\ 0 \in Addr
<1>1. pc = "done" /\ WalkInv /\ HomeInv /\ FlowInv
  BY DEF RunInv, GraphOK, HostCall
<1>2. addr = Size /\ 0 \in bbMap \cap Addr
  BY <1>1, DoneEntries DEF FlowInv, BodyInv
<1>3. FirstIn(0) = 0 /\ instrMap[0] = 0
  BY <1>1, <1>2, FirstInBlock
<1> QED BY <1>2, <1>3 DEF HostCall

\* A branch goes to the first instruction of the block.
LEMMA BranchFacts ==
    ASSUME RunInv, HostBranch
    PROVE  /\ hostAt' \in GuestSucc(hostAt) /\ hostAt' \in Addr
           /\ hostBlock' = Tracked(instrMap[hostAt'])
<1>1. GraphOK /\ WalkInv /\ HostInv /\ hostAt \in Addr
  BY DEF RunInv, GraphOK, HostBranch
<1>2. /\ EndsBlock(hostAt) /\ addr = Size
      /\ term[LastBlock].succ = {Tracked(s) : s \in GuestSucc(hostAt)}
      /\ GuestSucc(hostAt) \subseteq bbMap \cap Addr
  BY <1>1, HostFacts DEF HostBranch
<1>3. PICK s \in GuestSucc(hostAt) :
         hostBlock' = Tracked(s) /\ hostAt' = FirstIn(Tracked(s)[1])
  BY <1>2 DEF HostBranch
<1>4. s \in bbMap \cap Addr /\ Tracked(s)[1] = s
  BY <1>2 DEF Tracked
<1>5. FirstIn(s) = s /\ instrMap[s] = s
  BY <1>1, <1>2, <1>4, FirstInBlock
<1> QED BY <1>3, <1>4, <1>5

LEMMA StepRun == RunInv /\ [RunNext]_<<vars, hostVars>> => RunInv'
<1> SUFFICES ASSUME RunInv, [RunNext]_<<vars, hostVars>> PROVE RunInv'
  OBVIOUS
<1> USE DEF hostVars
<1>1. GraphOK /\ WalkInv /\ HostInv
  BY DEF RunInv, GraphOK
<1>2. CASE Translate
  <2>1. GraphOK'
    BY <1>1, <1>2, StepGraph DEF Translate
  <2>2. pc # "done" /\ hostAt' = hostAt
    BY <1>2, DoneStays DEF Translate
  <2> QED BY <1>1, <2>1, <2>2, NotAddr DEF HostInv, RunInv
<1>3. CASE HostCall
  <2>1. vars' = vars /\ pc = "done"
    BY <1>3 DEF HostCall
  <2> QED BY <1>3, <2>1, RunStays, CallFacts DEF HostInv, RunInv
<1>4. CASE HostStep
  <2>1. vars' = vars /\ hostAt \in Addr /\ hostBlock' = hostBlock
        /\ hostAt' = hostAt + 1 /\ GoesOnIn(hostBlock[1], hostAt)
    BY <1>4 DEF HostStep
  <2>2. /\ pc = "done" /\ hostBlock = Tracked(instrMap[hostAt])
        /\ hostBlock[1] = instrMap[hostAt]
    BY <1>1, <2>1, HostFacts
  <2>3. hostAt' \in Addr /\ instrMap[hostAt'] = instrMap[hostAt]
    BY <2>1, <2>2 DEF GoesOnIn
  <2>4. GraphOK' /\ pc' = pc /\ instrMap' = instrMap
    BY <2>1, RunStays
  <2> QED BY <2>1, <2>2, <2>3, <2>4 DEF HostInv, RunInv
<1>5. CASE HostBranch
  <2>1. vars' = vars /\ hostAt \in Addr
    BY <1>5 DEF HostBranch
  <2>2. pc = "done"
    BY <1>1, <2>1, HostFacts
  <2> QED BY <1>5, <2>1, <2>2, RunStays, BranchFacts DEF HostInv, RunInv
<1>6. CASE HostReturn
  <2>1. vars' = vars /\ hostAt \in Addr /\ hostAt' = Exited
    BY <1>6 DEF HostReturn
  <2>2. pc = "done"
    BY <1>1, <2>1, HostFacts
  <2> QED BY <2>1, <2>2, RunStays, NotAddr DEF HostInv, RunInv
<1>7. CASE UNCHANGED <<vars, hostVars>>
  <2>1. vars' = vars /\ hostAt' = hostAt /\ hostBlock' = hostBlock
    BY <1>7
  <2> QED BY <1>1, <2>1, RunStays DEF HostInv, RunInv
<1> QED BY <1>2, <1>3, <1>4, <1>5, <1>6, <1>7 DEF RunNext

\* The guest's view of the code is the translator's.
LEMMA GuestView ==
    /\ Guest!Addr = Addr /\ Guest!Idle = Idle /\ Guest!Exited = Exited
    /\ \A a \in Addr : Guest!SuccOf(code, labels, bodies, a) = GuestSucc(a)
<1>1. Guest!Addr = Addr /\ Guest!Idle = Idle /\ Guest!Exited = Exited
  BY DEF Guest!Addr, Addr, Guest!Idle, Idle, Guest!Exited, Exited
<1>2. \A B, a : Guest!BodyOf(B, a) = BodyOf(B, a)
  BY DEF Guest!BodyOf, Guest!FirstOf, Guest!EndOf, Guest!NextBBAddr,
         Guest!LowerBound, Guest!AtOrAfter, Guest!AtOrBefore, Guest!Max, Guest!Min,
         Guest!None, BodyOf, FirstOf, EndOf, NextBBAddr, LowerBound, AtOrAfter,
         AtOrBefore, Max, Min, None
<1>3. \A a \in Addr : Guest!SuccOf(code, labels, bodies, a) = GuestSucc(a)
  BY <1>2 DEF Guest!SuccOf, GuestSucc, SuccOf
<1> QED BY <1>1, <1>3

GuestNext == Guest!Prepare \/ Guest!GuestCall \/ Guest!GuestStep

\* Every step of the host is one of the guest.
LEMMA StepGuest ==
    RunInv /\ [RunNext]_<<vars, hostVars>>
      => [GuestNext]_<<code, labels, bodies, hostAt>>
<1> SUFFICES ASSUME RunInv, [RunNext]_<<vars, hostVars>>
             PROVE  GuestNext \/ UNCHANGED <<code, labels, bodies, hostAt>>
  OBVIOUS
<1> USE DEF hostVars
<1>1. GraphOK /\ WalkInv /\ HostInv
  BY DEF RunInv, GraphOK
<1>2. CASE Translate
  <2>1. hostAt = Idle /\ hostAt' = Idle
    BY <1>1, <1>2, DoneStays DEF Translate, HostInv
  <2>2. code' = code /\ labels' = labels
    BY <1>2
    DEF Translate, Next, EnterStep, InstrStep, RecordStep, input, StayInBlock,
        EnterBlock, EnterErasedBlock, TranslatePlain, TranslateRegion, TranslateLeave,
        TranslateCall, JumpForward, JumpBack, JumpBackSplit, JumpAsserts,
        JumpToErased, RecordInstr, RecordLabel, RecordLabelSplit, Finish,
        StartNextFunction
  <2>3. Guest!Prepare
    BY <2>1, <2>2, GuestView DEF Guest!Prepare
  <2> QED BY <2>3 DEF GuestNext
<1>3. CASE HostCall
  <2>1. hostAt = Idle /\ vars' = vars
    BY <1>3 DEF HostCall
  <2>2. Guest!GuestCall
    BY <1>3, <2>1, RunStays, CallFacts, GuestView DEF Guest!GuestCall
  <2> QED BY <2>2 DEF GuestNext
<1>4. CASE HostStep
  <2>1. vars' = vars /\ hostAt \in Addr /\ hostAt' = hostAt + 1
        /\ GoesOnIn(hostBlock[1], hostAt)
    BY <1>4 DEF HostStep
  <2>2. /\ pc = "done" /\ addr = Size /\ ~EndsBlock(hostAt) /\ hostAt + 1 \in Addr
        /\ instrMap[hostAt + 1] = instrMap[hostAt]
    BY <1>1, <2>1, HostFacts DEF GoesOnIn
  <2>3. code[hostAt].op \in Onward
    BY <1>1, <2>1, <2>2, DoneFacts DEF GraphOK
  <2>4. ~LastOf(hostAt)
    <3>1. hostAt \in Nat /\ hostAt < Size /\ hostAt + 1 # Size
      BY <2>1, <2>2, AddrFacts DEF Addr
    <3>2. instrMap[hostAt] <= hostAt /\ instrMap[hostAt] \in Nat
      BY <1>1, <2>1, <2>2, <3>1, BlockOf, AddrFacts
    <3>3. hostAt + 1 \notin bbMap
      BY <1>1, <2>2, <3>1, <3>2, FirstInBlock
    <3> QED BY <1>1, <2>2, <3>1, <3>3, DoneEntries DEF GraphOK, LastOf
  <2>5. GuestSucc(hostAt) = {hostAt + 1}
    BY <1>1, <2>1, <2>2, <2>3, <2>4, GuestGoes DEF GraphOK
  <2>6. Guest!GuestStep
    BY <2>1, <2>5, RunStays, GuestView DEF Guest!GuestStep
  <2> QED BY <2>6 DEF GuestNext
<1>5. CASE HostBranch
  <2>1. vars' = vars /\ hostAt \in Addr /\ hostAt' \in GuestSucc(hostAt)
    BY <1>5, BranchFacts DEF HostBranch
  <2>2. Guest!GuestStep
    BY <2>1, RunStays, GuestView DEF Guest!GuestStep
  <2> QED BY <2>2 DEF GuestNext
<1>6. CASE HostReturn
  <2>1. vars' = vars /\ hostAt \in Addr /\ hostAt' = Exited
        /\ term[LastBlock].succ = {} /\ ~GoesOnIn(hostBlock[1], hostAt)
    BY <1>6 DEF HostReturn
  <2>2. GuestSucc(hostAt) = {}
    BY <1>1, <2>1, HostFacts
  <2>3. Guest!GuestStep
    BY <2>1, <2>2, RunStays, GuestView DEF Guest!GuestStep
  <2> QED BY <2>3 DEF GuestNext
<1>7. CASE UNCHANGED <<vars, hostVars>>
  BY <1>7 DEF vars, input, funcVars, bbVars
<1> QED BY <1>2, <1>3, <1>4, <1>5, <1>6, <1>7 DEF RunNext

LEMMA RunKept ==
    ASSUME NoSelfCalls, FunctionsApart, WholeFunctions
    PROVE  RunSpec => []RunInv
BY InitRun, StepRun, PTL DEF RunSpec

(* The translated code, run by the host, does a run of the guest function: the    *)
(* same instructions in the same order, and it returns where the guest does.      *)
THEOREM RunCorrect ==
    ASSUME NoSelfCalls, FunctionsApart, WholeFunctions
    PROVE  RunSpec => ImplementsGuest
<1>1. RunInit => Guest!GuestInit
  BY GuestView DEF RunInit, Guest!GuestInit
<1>2. RunInv /\ [RunNext]_<<vars, hostVars>>
        => [GuestNext]_<<code, labels, bodies, hostAt>>
  BY StepGuest
<1> QED BY <1>1, <1>2, RunKept, PTL
        DEF RunSpec, ImplementsGuest, Guest!GuestSpec, GuestNext

(* The host is never stuck in it: a block ends in a terminator, and the blocks    *)
(* that it leads to hold the instructions that the guest goes on with.            *)
THEOREM NotStuckCorrect ==
    ASSUME NoSelfCalls, FunctionsApart, WholeFunctions
    PROVE  RunSpec => []HostNotStuck
<1>1. RunInv => HostNotStuck
  <2> SUFFICES ASSUME GraphOK, WalkInv, HostInv, hostAt \in Addr,
                      ~GoesOnIn(hostBlock[1], hostAt)
               PROVE  /\ Terminated(LastBlock)
                      /\ \A b \in term[LastBlock].succ :
                            \E a \in Addr : instrMap[a] = b[1]
    BY DEF RunInv, GraphOK, HostNotStuck
  <2>1. /\ addr = Size /\ Terminated(LastBlock)
        /\ term[LastBlock].succ = {Tracked(s) : s \in GuestSucc(hostAt)}
        /\ GuestSucc(hostAt) \subseteq bbMap \cap Addr
    BY HostFacts
  <2>2. ASSUME NEW b \in term[LastBlock].succ
        PROVE  \E a \in Addr : instrMap[a] = b[1]
    <3>1. PICK s \in bbMap \cap Addr : b = Tracked(s)
      BY <2>1
    <3>2. b[1] = s
      BY <3>1 DEF Tracked
    <3>3. instrMap[s] = s
      BY <2>1, FirstInBlock
    <3> QED BY <3>2, <3>3
  <2> QED BY <2>1, <2>2
<1> QED BY <1>1, RunKept, PTL
=============================================================================
