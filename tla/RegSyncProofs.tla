--------------------------- MODULE RegSyncProofs ---------------------------
(***************************************************************************)
(* The register copies of a translated program, for every set of registers *)
(* and values and every depth of calls, provided that functions which make *)
(* a call access the stack pointer; and how the copies implement the       *)
(* register file of the guest, each step of RegSync being one of GuestRegs. *)
(***************************************************************************)
EXTENDS RegSync, DataFacts

Frames == UNION {FrameOf(acc) : acc \in Accesses}

\* A function's frame, by its fields.
LEMMA FrameFacts ==
    \A f : f \in Frames <=>
        /\ f = [acc |-> f.acc, regs |-> f.regs, tail |-> f.tail, saved |-> f.saved]
        /\ f.acc \in Accesses /\ f.regs \in [f.acc -> Val]
        /\ f.tail \in BOOLEAN
        /\ f.saved \in [Guest!Preserved -> Val] \cup {<< >>}
<1> DEFINE P == [Guest!Preserved -> Val] \cup {<< >>}
<1>1. \A f, acc : f \in FrameOf(acc) <=>
        /\ f = [acc |-> f.acc, regs |-> f.regs, tail |-> f.tail, saved |-> f.saved]
        /\ f.acc = acc /\ f.regs \in [acc -> Val] /\ f.tail \in BOOLEAN
        /\ f.saved \in P
  <2> HIDE DEF P
  <2> QED BY DEF FrameOf, P
<1> HIDE DEF P
<1> QED BY <1>1 DEF Frames, P

\* The frame on top.
LEMMA TopFacts ==
    TypeOK => /\ Top \in Frames /\ Top = frames[Len(frames)]
              /\ Len(frames) \in Nat /\ Len(frames) > 0
              /\ frames \in Seq(Frames)
              /\ \A i \in 1 .. Len(frames) : frames[i] \in Frames
<1> SUFFICES ASSUME TypeOK PROVE
        /\ Top \in Frames /\ Top = frames[Len(frames)]
        /\ Len(frames) \in Nat /\ Len(frames) > 0
        /\ frames \in Seq(Frames)
        /\ \A i \in 1 .. Len(frames) : frames[i] \in Frames
  OBVIOUS
<1>1. frames \in Seq(Frames) /\ Len(frames) \in Nat /\ Len(frames) > 0
  BY RegAssumption, LenProperties DEF TypeOK, Frames
<1> QED BY <1>1, FrontFacts, ElementOfSeq DEF Top

\* A register that a callee preserves is moved by no sync point of the ABI mode
\* but, if it is the stack pointer, by those of a call.
LEMMA PreservedFacts ==
    \A r \in Guest!Preserved :
        /\ r \in reg /\ mode = "abi" /\ r # "a0" /\ r # "ra"
        /\ \A p : SyncReg(r, p) => r = "sp" /\ p \in {"call", "func_start"}
BY DEF Guest!Preserved, Guest!SavedRegs, SyncReg, SyncRegCall, SyncRegRet

\* Storing and loading keep the types, and a frame what it is.
LEMMA SyncTypes ==
    ASSUME NEW f \in Frames, NEW g \in [reg -> Val], NEW p
    PROVE  /\ StoreRegisters(f, g, p) \in [reg -> Val]
           /\ LoadRegisters(f, g, p) \in Frames
           /\ LoadRegisters(f, g, p).acc = f.acc
           /\ LoadRegisters(f, g, p).tail = f.tail
           /\ LoadRegisters(f, g, p).saved = f.saved
           /\ LoadRegisters(f, g, p).regs =
                [r \in f.acc |-> IF SyncReg(r, p) THEN g[r] ELSE f.regs[r]]
<1>1. /\ f.acc \in Accesses /\ f.regs \in [f.acc -> Val]
      /\ f = [acc |-> f.acc, regs |-> f.regs, tail |-> f.tail, saved |-> f.saved]
      /\ f.tail \in BOOLEAN
      /\ f.saved \in [Guest!Preserved -> Val] \cup {<< >>}
  BY FrameFacts
<1>2. f.acc \subseteq reg
  BY <1>1 DEF Accesses
<1>3. StoreRegisters(f, g, p) \in [reg -> Val]
  BY <1>1 DEF StoreRegisters
<1> DEFINE m == [r \in f.acc |-> IF SyncReg(r, p) THEN g[r] ELSE f.regs[r]]
<1>4. m \in [f.acc -> Val]
  BY <1>1, <1>2
<1> HIDE DEF m
<1>5. LoadRegisters(f, g, p) =
        [acc |-> f.acc, regs |-> m, tail |-> f.tail, saved |-> f.saved]
  BY <1>1 DEF LoadRegisters, m
<1>6. LoadRegisters(f, g, p) \in Frames
  BY <1>1, <1>4, <1>5, FrameFacts
<1> QED BY <1>3, <1>5, <1>6 DEF m

\* So does a store to a register of the function on top.
LEMMA PutTypes ==
    ASSUME NEW f \in Frames, NEW g \in [reg -> Val], NEW r \in reg, NEW v \in Val
    PROVE  /\ PutGlobal(f, g, r, v) \in [reg -> Val]
           /\ PutLocal(f, r, v) \in Frames
           /\ PutLocal(f, r, v).acc = f.acc
           /\ PutLocal(f, r, v).tail = f.tail
           /\ PutLocal(f, r, v).saved = f.saved
           /\ PutLocal(f, r, v).regs =
                IF r \in f.acc THEN [f.regs EXCEPT ![r] = v] ELSE f.regs
<1>1. /\ f.acc \in Accesses /\ f.regs \in [f.acc -> Val]
      /\ f = [acc |-> f.acc, regs |-> f.regs, tail |-> f.tail, saved |-> f.saved]
      /\ f.tail \in BOOLEAN
      /\ f.saved \in [Guest!Preserved -> Val] \cup {<< >>}
  BY FrameFacts
<1> DEFINE m == IF r \in f.acc THEN [f.regs EXCEPT ![r] = v] ELSE f.regs
<1>2. m \in [f.acc -> Val]
  BY <1>1
<1> HIDE DEF m
<1>3. PutLocal(f, r, v) = [acc |-> f.acc, regs |-> m, tail |-> f.tail, saved |-> f.saved]
  BY <1>1 DEF PutLocal, m
<1>4. PutLocal(f, r, v) \in Frames
  BY <1>1, <1>2, <1>3, FrameFacts
<1> QED BY <1>3, <1>4 DEF m, PutGlobal

-----------------------------------------------------------------------------
(* RegInv is inductive.                                                    *)

\* The functions below the top are what they were, and the global copies of
\* what a callee preserves too, but for the stack pointer.
LEMMA KeepSuspended ==
    ASSUME RegInv, TypeOK', opts' = opts, reg' = reg, "sp" \in UsedByCallers,
           Len(frames') <= Len(frames),
           \A i \in 1 .. Len(frames') - 1 : frames'[i] = frames[i],
           \A r \in Guest!Preserved : r # "sp" => x'[r] = x[r]
    PROVE  RegInv'
<1>1. Guest!Preserved' = Guest!Preserved /\ mode' = mode
  BY DEF Guest!Preserved, mode
<1>2. Len(frames) \in Nat /\ Len(frames') \in Nat
  BY TopFacts, LenProperties DEF RegInv, TypeOK
<1>3. CallersUseTheirOwn'
  BY <1>1, <1>2 DEF RegInv, CallersUseTheirOwn
<1>4. CallersKeepRegisters'
  <2> SUFFICES ASSUME NEW i \in 1 .. Len(frames') - 1, ~frames'[i].tail,
                      NEW r \in Guest!Preserved
               PROVE  GetReg(frames'[i], x', r) = frames'[i].saved[r]
    BY <1>1 DEF CallersKeepRegisters, GetReg
  <2>1. i \in 1 .. Len(frames) - 1 /\ frames'[i] = frames[i]
    BY <1>2
  <2>2. GetReg(frames[i], x, r) = frames[i].saved[r]
    BY <2>1 DEF RegInv, CallersKeepRegisters
  <2>3. r = "sp" => r \in frames[i].acc
    BY <2>1, PreservedFacts DEF RegInv, CallersUseTheirOwn
  <2>4. CASE r \in frames[i].acc
    BY <2>1, <2>2, <2>4 DEF GetReg
  <2>5. CASE r \notin frames[i].acc
    BY <2>1, <2>2, <2>3, <2>5 DEF GetReg
  <2> QED BY <2>4, <2>5
<1> QED BY <1>3, <1>4 DEF RegInv

\* A change of the frame on top keeps the type of the stack of frames.
LEMMA WithTopFacts ==
    ASSUME TypeOK, NEW f \in Frames
    PROVE  /\ WithTop(f) \in Seq(Frames) /\ Len(WithTop(f)) = Len(frames)
           /\ \A i \in 1 .. Len(frames) - 1 : WithTop(f)[i] = frames[i]
           /\ WithTop(f)[Len(frames)] = f
<1>1. frames \in Seq(Frames) /\ Len(frames) \in 1 .. Len(frames)
  BY TopFacts
<1>2. /\ WithTop(f) \in Seq(Frames) /\ Len(WithTop(f)) = Len(frames)
      /\ \A j \in 1 .. Len(frames) :
            WithTop(f)[j] = IF j = Len(frames) THEN f ELSE frames[j]
  BY <1>1, ExceptSeq DEF WithTop
<1> QED BY <1>1, <1>2

\* What types the steps must keep.
LEMMA TypesKept ==
    ASSUME TypeOK, reg' = reg, opts' = opts, x' \in [reg -> Val],
           ext' \in [arg : Val, res : Val], frames' \in Seq(Frames),
           Len(frames') \in 1 .. MaxDepth
    PROVE  TypeOK'
<1>1. Frames' = Frames
  BY DEF Frames, FrameOf, Accesses, mode, Guest!Preserved
<1>2. frames' \in Seq(Frames')
  BY <1>1
<1>3. /\ reg' \in RegSets /\ opts' \in OptionSets /\ x' \in [reg' -> Val]
  BY DEF TypeOK
<1> QED BY <1>2, <1>3 DEF TypeOK, Frames

\* A main function that has made no call has lost nothing.
LEMMA InitRegs == Init => RegInv
<1> SUFFICES ASSUME Init PROVE RegInv
  OBVIOUS
<1>0. PICK acc \in Accesses : \E regs \in [acc -> Val] : frames = <<Frame(acc, regs)>>
  BY DEF Init, Uninitialized
<1>1. PICK regs \in [acc -> Val] : frames = <<Frame(acc, regs)>>
  BY <1>0
<1>2. Frame(acc, regs) \in Frames
  BY FrameFacts DEF Frame
<1>3. frames \in Seq(Frames) /\ Len(frames) = 1
  BY <1>1, <1>2
<1>4. reg \in RegSets /\ opts \in OptionSets /\ x \in [reg -> Val]
      /\ ext \in [arg : Val, res : Val]
  BY RegAssumption DEF Init
<1>5. TypeOK
  BY <1>3, <1>4, RegAssumption DEF TypeOK, Frames
<1> QED BY <1>3, <1>5 DEF RegInv, CallersKeepRegisters, CallersUseTheirOwn

\* What the function on top may access, it has a copy of in the ABI mode.
LEMMA AccessFacts ==
    ASSUME TypeOK
    PROVE  /\ mode = "abi" => \A r : CanAccess(r) => r \in Top.acc
           /\ "a0" \in reg /\ Top.acc \subseteq reg
<1>1. Top.acc \in Accesses /\ reg \in RegSets
  BY TopFacts, FrameFacts DEF TypeOK
<1>2. Top.acc \subseteq reg
  BY <1>1 DEF Accesses
<1> QED BY <1>1, <1>2, RegAssumption DEF CanAccess

\* A function writes its own copies, and global ones only in other modes than ABI.
LEMMA WriteRegs == "sp" \in UsedByCallers /\ RegInv /\ Write => RegInv'
<1> SUFFICES ASSUME "sp" \in UsedByCallers, RegInv, Write PROVE RegInv'
  OBVIOUS
<1>1. PICK r \in reg : \E v \in Val :
         /\ CanAccess(r)
         /\ frames' = WithTop(PutLocal(Top, r, v))
         /\ x' = PutGlobal(Top, x, r, v)
  BY DEF Write
<1>2. PICK v \in Val :
         /\ CanAccess(r)
         /\ frames' = WithTop(PutLocal(Top, r, v))
         /\ x' = PutGlobal(Top, x, r, v)
  BY <1>1
<1>3. TypeOK /\ Top \in Frames /\ x \in [reg -> Val]
  BY TopFacts DEF RegInv, TypeOK
<1>4. reg' = reg /\ opts' = opts /\ ext' = ext
  BY DEF Write
<1>5. x' \in [reg -> Val] /\ PutLocal(Top, r, v) \in Frames
  BY <1>2, <1>3, PutTypes
<1>6. /\ frames' \in Seq(Frames) /\ Len(frames') = Len(frames)
      /\ \A i \in 1 .. Len(frames) - 1 : frames'[i] = frames[i]
  BY <1>2, <1>3, <1>5, WithTopFacts
<1>7. TypeOK'
  BY <1>3, <1>4, <1>5, <1>6, TypesKept DEF TypeOK
<1>8. \A q \in Guest!Preserved : x'[q] = x[q]
  BY <1>2, <1>3, AccessFacts, PreservedFacts DEF PutGlobal
<1>9. Len(frames) \in Nat
  BY <1>3, TopFacts
<1> QED BY <1>4, <1>6, <1>7, <1>8, <1>9, KeepSuspended

\* The link register is the only one that link() writes.
LEMMA LinkFacts ==
    ASSUME TypeOK, NEW tail \in BOOLEAN, NEW v \in Val
    PROVE  /\ LinkLocal(tail, v) \in Frames
           /\ LinkLocal(tail, v).acc = Top.acc
           /\ LinkLocal(tail, v).tail = Top.tail
           /\ LinkGlobal(tail, v) \in [reg -> Val]
           /\ \A r \in reg : r # "ra" => LinkGlobal(tail, v)[r] = x[r]
           /\ \A r \in reg : r # "ra" =>
                GetReg(LinkLocal(tail, v), LinkGlobal(tail, v), r) = GetReg(Top, x, r)
<1>1. Top \in Frames /\ x \in [reg -> Val]
  BY TopFacts DEF TypeOK
<1>2. CASE Links(tail)
  <2>1. "ra" \in reg
    BY <1>2 DEF Links
  <2>2. LinkLocal(tail, v) = PutLocal(Top, "ra", v)
        /\ LinkGlobal(tail, v) = PutGlobal(Top, x, "ra", v)
    BY <1>2 DEF LinkLocal, LinkGlobal
  <2>3. /\ LinkLocal(tail, v) \in Frames /\ LinkLocal(tail, v).acc = Top.acc
        /\ LinkLocal(tail, v).tail = Top.tail
        /\ LinkGlobal(tail, v) \in [reg -> Val]
        /\ LinkLocal(tail, v).regs = IF "ra" \in Top.acc
              THEN [Top.regs EXCEPT !["ra"] = v] ELSE Top.regs
    BY <1>1, <2>1, <2>2, PutTypes
  <2>4. \A r \in reg : r # "ra" => LinkGlobal(tail, v)[r] = x[r]
    BY <1>1, <2>2 DEF PutGlobal
  <2>5. Top.regs \in [Top.acc -> Val]
    BY <1>1, FrameFacts
  <2> QED BY <2>3, <2>4, <2>5 DEF GetReg
<1>3. CASE ~Links(tail)
  BY <1>1, <1>3 DEF LinkLocal, LinkGlobal
<1> QED BY <1>2, <1>3

\* What a function reads is the same before and after it stores its copies.
LEMMA StoreKeepsView ==
    ASSUME NEW f \in Frames, NEW g \in [reg -> Val], NEW p
    PROVE  \A r \in reg : GetReg(f, StoreRegisters(f, g, p), r) = GetReg(f, g, r)
BY DEF GetReg, StoreRegisters

\* A register holds a value in each function.
LEMMA ViewType ==
    ASSUME NEW f \in Frames, NEW g \in [reg -> Val]
    PROVE  /\ \A r \in reg : GetReg(f, g, r) \in Val /\ View(f, g)[r] = GetReg(f, g, r)
           /\ View(f, g) \in [reg -> Val]
<1>1. f.regs \in [f.acc -> Val]
  BY FrameFacts
<1>2. \A r \in reg : GetReg(f, g, r) \in Val
  BY <1>1 DEF GetReg
<1> QED BY <1>2 DEF View

\* The frame of the function that makes a call, and what it stores.
LEMMA CallerFacts ==
    ASSUME TypeOK, NEW tail \in BOOLEAN, NEW v \in Val
    PROVE  /\ CallGlobals(tail, v) \in [reg -> Val]
           /\ CallerFrame(tail, v) \in Frames
           /\ CallerFrame(tail, v).acc = Top.acc
           /\ CallerFrame(tail, v).regs = LinkLocal(tail, v).regs
           /\ CallerFrame(tail, v).tail = tail
           /\ CallerFrame(tail, v).saved \in [Guest!Preserved -> Val]
           /\ CallerFrame(tail, v).saved = [r \in Guest!Preserved |->
                    View(LinkLocal(tail, v), CallGlobals(tail, v))[r]]
<1> DEFINE f == LinkLocal(tail, v)
           g == CallGlobals(tail, v)
           saved == [r \in Guest!Preserved |-> View(f, g)[r]]
<1>1. f \in Frames /\ f.acc = Top.acc /\ LinkGlobal(tail, v) \in [reg -> Val]
  BY LinkFacts
<1>2. g \in [reg -> Val]
  BY <1>1, SyncTypes DEF CallGlobals
<1> HIDE DEF f, g
<1>3. saved \in [Guest!Preserved -> Val]
  BY <1>1, <1>2, ViewType, PreservedFacts
<1> HIDE DEF saved
<1>5. CallerFrame(tail, v) =
        [acc |-> Top.acc, regs |-> f.regs, tail |-> tail, saved |-> saved]
  BY DEF CallerFrame, f, g, saved
<1>6. f.acc \in Accesses /\ f.regs \in [f.acc -> Val]
  BY <1>1, FrameFacts
<1>7. CallerFrame(tail, v) \in Frames
  BY <1>1, <1>3, <1>5, <1>6, FrameFacts
<1> QED BY <1>2, <1>3, <1>5, <1>7 DEF f, g, saved

\* The frame of the function that is called.
LEMMA CalleeFacts ==
    ASSUME NEW acc \in Accesses, NEW regs \in [acc -> Val], NEW g \in [reg -> Val]
    PROVE  /\ CalleeFrame(acc, regs, g) \in Frames
           /\ CalleeFrame(acc, regs, g).acc = acc
           /\ CalleeFrame(acc, regs, g).tail = FALSE
           /\ CalleeFrame(acc, regs, g).regs =
                [r \in acc |-> IF SyncReg(r, "func_start") THEN g[r] ELSE regs[r]]
<1> DEFINE fr == Frame(acc, regs)
           loaded == LoadRegisters(fr, g, "func_start")
<1>1. /\ fr \in Frames /\ fr.acc = acc /\ fr.regs = regs /\ fr.tail = FALSE
  BY FrameFacts DEF Frame
<1>2. CalleeFrame(acc, regs, g) = loaded
  BY DEF CalleeFrame
<1> HIDE DEF fr
<1>3. /\ loaded \in Frames /\ loaded.acc = fr.acc /\ loaded.tail = fr.tail
      /\ loaded.regs = [r \in fr.acc |-> IF SyncReg(r, "func_start") THEN g[r]
                                                              ELSE fr.regs[r]]
  BY <1>1, SyncTypes
<1> HIDE DEF loaded
<1> QED BY <1>1, <1>2, <1>3

\* A call suspends the function on top under a new one.
LEMMA PushFacts ==
    ASSUME TypeOK, NEW mid \in Frames, NEW new \in Frames
    PROVE  LET stack == Append(WithTop(mid), new)
           IN  /\ stack \in Seq(Frames) /\ Len(stack) = Len(frames) + 1
               /\ \A i \in 1 .. Len(frames) - 1 : stack[i] = frames[i]
               /\ stack[Len(frames)] = mid
               /\ stack[Len(frames) + 1] = new
<1> DEFINE old == WithTop(mid)
<1>1. Len(frames) \in Nat /\ Len(frames) > 0
  BY TopFacts
<1>2. /\ old \in Seq(Frames) /\ Len(old) = Len(frames)
      /\ \A i \in 1 .. Len(frames) - 1 : old[i] = frames[i]
      /\ old[Len(frames)] = mid
  BY WithTopFacts
<1> HIDE DEF old
<1>3. /\ Append(old, new) \in Seq(Frames)
      /\ Len(Append(old, new)) = Len(old) + 1
      /\ \A i \in 1 .. Len(old) : Append(old, new)[i] = old[i]
      /\ Append(old, new)[Len(old) + 1] = new
  BY <1>2, AppendProperties
<1> QED BY <1>1, <1>2, <1>3 DEF old

\* The callee starts with what the caller stored, and the caller waits with its
\* own copies or, for what it does not access, with the global ones.
LEMMA CallRegs == "sp" \in UsedByCallers /\ RegInv /\ Call => RegInv'
<1> SUFFICES ASSUME "sp" \in UsedByCallers, RegInv, Call PROVE RegInv'
  OBVIOUS
<1> DEFINE Do(tail, v, acc, regs) ==
        /\ Len(frames) < MaxDepth
        /\ ~tail /\ mode = "abi" => UsedByCallers \cap reg \subseteq Top.acc
        /\ x' = CallGlobals(tail, v)
        /\ frames' = Append(WithTop(CallerFrame(tail, v)),
                            CalleeFrame(acc, regs, CallGlobals(tail, v)))
<1>1. \E tail \in TailCalls, v \in Val, acc \in Accesses :
        \E regs \in [acc -> Val] : Do(tail, v, acc, regs)
  BY DEF Call, Uninitialized
<1>2. PICK tail \in TailCalls, v \in Val, acc \in Accesses :
        \E regs \in [acc -> Val] : Do(tail, v, acc, regs)
  BY <1>1
<1>3. PICK regs \in [acc -> Val] : Do(tail, v, acc, regs)
  BY <1>2
<1> DEFINE mid == CallerFrame(tail, v)
           g   == CallGlobals(tail, v)
           new == CalleeFrame(acc, regs, g)
           link == LinkLocal(tail, v)
<1>4. TypeOK /\ tail \in BOOLEAN
  BY RegAssumption DEF RegInv
<1>5. reg' = reg /\ opts' = opts /\ ext' = ext
  BY DEF Call
<1>6. /\ g \in [reg -> Val] /\ mid \in Frames /\ mid.acc = Top.acc
      /\ mid.tail = tail /\ mid.regs = link.regs
      /\ mid.saved \in [Guest!Preserved -> Val]
      /\ mid.saved = [r \in Guest!Preserved |-> View(link, g)[r]]
  BY <1>4, CallerFacts
<1>7. new \in Frames
  BY <1>6, CalleeFacts
<1>8. link \in Frames /\ link.acc = Top.acc
  BY <1>4, LinkFacts
<1>9. /\ frames' = Append(WithTop(mid), new) /\ x' = g
      /\ Len(frames) < MaxDepth
      /\ ~tail /\ mode = "abi" => UsedByCallers \cap reg \subseteq Top.acc
  BY <1>3
<1> HIDE DEF mid, g, new, link, Do
<1>10. /\ frames' \in Seq(Frames) /\ Len(frames') = Len(frames) + 1
       /\ \A i \in 1 .. Len(frames) - 1 : frames'[i] = frames[i]
       /\ frames'[Len(frames)] = mid
  <2> DEFINE stack == Append(WithTop(mid), new)
  <2>1. /\ stack \in Seq(Frames) /\ Len(stack) = Len(frames) + 1
        /\ \A i \in 1 .. Len(frames) - 1 : stack[i] = frames[i]
        /\ stack[Len(frames)] = mid
    <3>1. TypeOK /\ mid \in Frames /\ new \in Frames
      BY <1>4, <1>6, <1>7
    <3> QED BY ONLY <3>1, PushFacts, Zenon
  <2>2. frames' = stack
    BY <1>9
  <2> HIDE DEF stack
  <2> QED BY <2>1, <2>2
<1>11. Len(frames) \in Nat /\ Len(frames) > 0
  BY <1>4, TopFacts
<1>12. Guest!Preserved' = Guest!Preserved /\ mode' = mode
  BY <1>5 DEF Guest!Preserved, mode
<1>13. TypeOK'
  <2>1. Len(frames') \in 1 .. MaxDepth
    BY <1>9, <1>10, <1>11, RegAssumption
  <2>2. x' \in [reg -> Val] /\ ext' \in [arg : Val, res : Val]
    BY <1>4, <1>5, <1>6, <1>9 DEF TypeOK
  <2> QED BY <1>4, <1>5, <1>10, <2>1, <2>2, TypesKept
<1>14. CallersUseTheirOwn'
  <2> SUFFICES ASSUME NEW i \in 1 .. Len(frames') - 1
               PROVE  /\ frames'[i].saved \in [Guest!Preserved -> Val]
                      /\ mode = "abi" /\ ~frames'[i].tail
                            => UsedByCallers \cap reg \subseteq frames'[i].acc
    BY <1>5, <1>12 DEF CallersUseTheirOwn
  <2>1. CASE i = Len(frames)
    BY <2>1, <1>6, <1>9, <1>10
  <2>2. CASE i # Len(frames)
    <3>1. i \in 1 .. Len(frames) - 1 /\ frames'[i] = frames[i]
      BY <2>2, <1>10, <1>11
    <3> QED BY <3>1 DEF RegInv, CallersUseTheirOwn
  <2> QED BY <2>1, <2>2
<1>15. CallersKeepRegisters'
  <2> SUFFICES ASSUME NEW i \in 1 .. Len(frames') - 1, ~frames'[i].tail,
                      NEW r \in Guest!Preserved
               PROVE  GetReg(frames'[i], x', r) = frames'[i].saved[r]
    BY <1>12 DEF CallersKeepRegisters, GetReg
  <2>1. CASE i = Len(frames)
    <3>1. GetReg(mid, g, r) = GetReg(link, g, r)
      BY <1>6, <1>8 DEF GetReg
    <3>2. mid.saved[r] = GetReg(link, g, r)
      BY <1>6, <1>8, PreservedFacts, ViewType
    <3> QED BY <2>1, <3>1, <3>2, <1>9, <1>10
  <2>2. CASE i # Len(frames)
    <3>1. i \in 1 .. Len(frames) - 1 /\ frames'[i] = frames[i]
      BY <2>2, <1>10, <1>11
    <3>2. GetReg(frames[i], x, r) = frames[i].saved[r]
      BY <3>1 DEF RegInv, CallersKeepRegisters
    <3>3. r = "sp" => r \in frames[i].acc
      BY <3>1, PreservedFacts DEF RegInv, CallersUseTheirOwn
    <3>4. r # "sp" => g[r] = x[r]
      BY <1>4, PreservedFacts, LinkFacts DEF g, CallGlobals, StoreRegisters
    <3> QED BY <1>9, <3>1, <3>2, <3>3, <3>4 DEF GetReg
  <2> QED BY <2>1, <2>2
<1> QED BY <1>13, <1>14, <1>15 DEF RegInv

\* A return drops the function on top; what its caller loads from the global
\* copies is nothing that the callee must preserve.
LEMMA ReturnRegs == "sp" \in UsedByCallers /\ RegInv /\ Return => RegInv'
<1> SUFFICES ASSUME "sp" \in UsedByCallers, RegInv, Return PROVE RegInv'
  OBVIOUS
<1> DEFINE g == StoreRegisters(Top, x, "func_return")
           n == Len(frames) - 1
           rest == Front(frames)
           caller == LoadRegisters(rest[n], g, "call_returned")
<1>1. /\ Len(frames) > 1 /\ x' = g
      /\ frames' = [rest EXCEPT ![n] = caller]
      /\ reg' = reg /\ opts' = opts /\ ext' = ext
  BY DEF Return
<1>2. TypeOK /\ Top \in Frames /\ x \in [reg -> Val] /\ Len(frames) \in Nat
      /\ frames \in Seq(Frames)
  BY TopFacts DEF RegInv, TypeOK
<1>3. g \in [reg -> Val]
  BY <1>2, SyncTypes
<1>4. /\ rest \in Seq(Frames) /\ Len(rest) = n
      /\ \A i \in 1 .. n : rest[i] = frames[i]
  BY <1>1, <1>2, FrontFacts
<1>5. n \in 1 .. n /\ n \in Nat
  BY <1>1, <1>2
<1> HIDE DEF rest, g
<1>6. rest[n] \in Frames
  BY <1>4, <1>5, ElementOfSeq
<1>7. caller \in Frames
  BY <1>3, <1>6, SyncTypes
<1> HIDE DEF caller
<1>8. /\ frames' \in Seq(Frames) /\ Len(frames') = n
      /\ \A i \in 1 .. n - 1 : frames'[i] = rest[i]
  BY <1>1, <1>4, <1>5, <1>7, ExceptSeq
<1>9. TypeOK'
  <2>1. Len(frames') \in 1 .. MaxDepth
    BY <1>1, <1>2, <1>5, <1>8, RegAssumption DEF TypeOK
  <2>2. ext' \in [arg : Val, res : Val]
    BY <1>1, <1>2 DEF TypeOK
  <2> QED BY <1>1, <1>2, <1>3, <1>8, <2>1, <2>2, TypesKept
<1>10. \A r \in Guest!Preserved : x'[r] = x[r]
  BY <1>1, PreservedFacts DEF g, StoreRegisters
<1>11. Len(frames') <= Len(frames)
       /\ \A i \in 1 .. Len(frames') - 1 : frames'[i] = frames[i]
  BY <1>4, <1>5, <1>8, <1>2
<1> QED BY <1>1, <1>9, <1>10, <1>11, KeepSuspended

\* The option stores no register that an external function must preserve, but
\* for the stack pointer.
LEMMA ExternalFacts ==
    ASSUME TypeOK, NEW f \in Frames, NEW g \in [reg -> Val]
    PROVE  /\ StoreForExternal(f, g) \in [reg -> Val]
           /\ \A r \in Guest!Preserved : r # "sp" => StoreForExternal(f, g)[r] = g[r]
           /\ LoadAfterCaller(f, g) \in Frames
           /\ LoadAfterICaller(f, g) \in Frames
<1>1. \A r \in Guest!Preserved : r # "sp" => StoreForExternal(f, g)[r] = g[r]
  BY PreservedFacts DEF StoreForExternal, StoreRegisters
<1>2. /\ \A p : StoreRegisters(f, g, p) \in [reg -> Val]
      /\ \A p : LoadRegisters(f, g, p) \in Frames
  BY SyncTypes
<1>3. StoreForExternal(f, g) \in [reg -> Val] /\ LoadAfterCaller(f, g) \in Frames
  BY <1>2 DEF StoreForExternal, LoadAfterCaller
<1>4. LoadAfterICaller(f, g) \in Frames
  BY <1>2 DEF LoadAfterICaller
<1> QED BY <1>1, <1>3, <1>4

\* A step that changes no more than the frame on top and global copies of
\* registers which callees need not preserve.
LEMMA TopStep ==
    ASSUME RegInv, "sp" \in UsedByCallers, reg' = reg, opts' = opts,
           ext' \in [arg : Val, res : Val], x' \in [reg -> Val],
           NEW f \in Frames, frames' = WithTop(f),
           \A r \in Guest!Preserved : r # "sp" => x'[r] = x[r]
    PROVE  RegInv'
<1>1. TypeOK /\ Len(frames) \in Nat
  BY TopFacts DEF RegInv
<1>2. /\ frames' \in Seq(Frames) /\ Len(frames') = Len(frames)
      /\ \A i \in 1 .. Len(frames) - 1 : frames'[i] = frames[i]
  BY <1>1, WithTopFacts
<1>3. TypeOK'
  BY <1>1, <1>2, TypesKept DEF TypeOK
<1> QED BY <1>1, <1>2, <1>3, KeepSuspended

\* An external function called directly.
LEMMA CallExternalRegs == "sp" \in UsedByCallers /\ RegInv /\ CallExternal => RegInv'
<1> SUFFICES ASSUME "sp" \in UsedByCallers, RegInv, CallExternal PROVE RegInv'
  OBVIOUS
<1> DEFINE f(tail, v) == LinkLocal(tail, v)
           g(tail, v) == StoreForExternal(f(tail, v), LinkGlobal(tail, v))
           back(tail, v, res) == [PutLocal(f(tail, v), "a0", res) EXCEPT !.tail = tail]
           Do(tail, v, res) ==
                /\ ext' = [arg |-> GetReg(f(tail, v), g(tail, v), "a0"), res |-> res]
                /\ x' = PutGlobal(f(tail, v), g(tail, v), "a0", res)
                /\ frames' = WithTop(LoadAfterCaller(back(tail, v, res), x'))
                /\ reg' = reg /\ opts' = opts
<1>1. PICK tail \in TailCalls, v \in Val, res \in Val : Do(tail, v, res)
  BY DEF CallExternal
<1> DEFINE l == f(tail, v)
           h == g(tail, v)
           p == PutLocal(l, "a0", res)
           b == back(tail, v, res)
           after == LoadAfterCaller(b, x')
<1>2. TypeOK /\ tail \in BOOLEAN /\ "a0" \in reg
  BY RegAssumption, AccessFacts DEF RegInv
<1>3. l \in Frames /\ LinkGlobal(tail, v) \in [reg -> Val]
      /\ \A r \in reg : r # "ra" => LinkGlobal(tail, v)[r] = x[r]
  BY <1>2, LinkFacts
<1>4. /\ x' = PutGlobal(l, h, "a0", res) /\ frames' = WithTop(after)
      /\ ext' = [arg |-> GetReg(l, h, "a0"), res |-> res]
      /\ reg' = reg /\ opts' = opts
  BY <1>1
<1>5. b = [p EXCEPT !.tail = tail] /\ h = StoreForExternal(l, LinkGlobal(tail, v))
  OBVIOUS
<1> HIDE DEF l, h, b, after
<1>6. h \in [reg -> Val] /\ \A r \in Guest!Preserved : r # "sp" => h[r] = x[r]
  BY <1>2, <1>3, <1>5, ExternalFacts, PreservedFacts
<1>7. x' \in [reg -> Val] /\ p \in Frames
  BY <1>2, <1>3, <1>4, <1>6, PutTypes
<1> HIDE DEF p
<1>8. b \in Frames
  <2>1. /\ p.acc \in Accesses /\ p.regs \in [p.acc -> Val]
        /\ p = [acc |-> p.acc, regs |-> p.regs, tail |-> p.tail, saved |-> p.saved]
        /\ p.saved \in [Guest!Preserved -> Val] \cup {<< >>}
    BY <1>7, FrameFacts
  <2>2. b = [acc |-> p.acc, regs |-> p.regs, tail |-> tail, saved |-> p.saved]
    BY <1>5, <2>1
  <2> QED BY <1>2, <2>1, <2>2, FrameFacts
<1>9. after \in Frames
  BY <1>2, <1>7, <1>8, ExternalFacts DEF after
<1>10. ext' \in [arg : Val, res : Val]
  BY <1>2, <1>3, <1>4, <1>6, ViewType
<1>11. \A r \in Guest!Preserved : r # "sp" => x'[r] = x[r]
  BY <1>4, <1>6, PreservedFacts DEF PutGlobal
<1> QED BY <1>4, <1>7, <1>9, <1>10, <1>11, TopStep

\* An external function called through icaller.
LEMMA ICallExternalRegs == "sp" \in UsedByCallers /\ RegInv /\ ICallExternal => RegInv'
<1> SUFFICES ASSUME "sp" \in UsedByCallers, RegInv, ICallExternal PROVE RegInv'
  OBVIOUS
<1> DEFINE f(v) == LinkLocal(FALSE, v)
           g(v) == StoreForExternal(f(v), LinkGlobal(FALSE, v))
           Do(v, res) ==
                /\ ext' = [arg |-> GetReg(f(v), g(v), "a0"), res |-> res]
                /\ x' = [g(v) EXCEPT !["a0"] = res]
                /\ frames' = WithTop(LoadAfterICaller(f(v), x'))
                /\ reg' = reg /\ opts' = opts
<1>1. PICK v \in Val, res \in Val : Do(v, res)
  BY DEF ICallExternal
<1> DEFINE l == f(v)
           h == g(v)
           after == LoadAfterICaller(l, x')
<1>2. TypeOK /\ "a0" \in reg
  BY AccessFacts DEF RegInv
<1>3. l \in Frames /\ LinkGlobal(FALSE, v) \in [reg -> Val]
      /\ \A r \in reg : r # "ra" => LinkGlobal(FALSE, v)[r] = x[r]
  BY <1>2, LinkFacts
<1>4. /\ x' = [h EXCEPT !["a0"] = res] /\ frames' = WithTop(after)
      /\ ext' = [arg |-> GetReg(l, h, "a0"), res |-> res]
      /\ reg' = reg /\ opts' = opts
  BY <1>1
<1>5. h = StoreForExternal(l, LinkGlobal(FALSE, v))
  OBVIOUS
<1> HIDE DEF l, h, after
<1>6. h \in [reg -> Val] /\ \A r \in Guest!Preserved : r # "sp" => h[r] = x[r]
  BY <1>2, <1>3, <1>5, ExternalFacts, PreservedFacts
<1>7. x' \in [reg -> Val]
  BY <1>2, <1>4, <1>6
<1>8. after \in Frames
  BY <1>2, <1>3, <1>7, ExternalFacts DEF after
<1>9. ext' \in [arg : Val, res : Val]
  BY <1>2, <1>3, <1>4, <1>6, ViewType
<1>10. \A r \in Guest!Preserved : r # "sp" => x'[r] = x[r]
  BY <1>2, <1>4, <1>6, PreservedFacts
<1> QED BY <1>4, <1>7, <1>8, <1>9, <1>10, TopStep

\* Every step keeps RegInv.
LEMMA StepRegs == "sp" \in UsedByCallers /\ RegInv /\ [Next]_vars => RegInv'
<1> SUFFICES ASSUME "sp" \in UsedByCallers, RegInv, [Next]_vars PROVE RegInv'
  OBVIOUS
<1>1. CASE Write
  BY <1>1, WriteRegs
<1>2. CASE Call
  BY <1>2, CallRegs
<1>3. CASE Return
  BY <1>3, ReturnRegs
<1>4. CASE CallExternal
  BY <1>4, CallExternalRegs
<1>5. CASE ICallExternal
  BY <1>5, ICallExternalRegs
<1>6. CASE UNCHANGED vars
  <2>1. TypeOK /\ Len(frames) \in Nat
    BY TopFacts DEF RegInv
  <2>2. TypeOK'
    BY <1>6, <2>1 DEF vars, TypeOK, FrameOf, Accesses, mode, Guest!Preserved
  <2> QED BY <1>6, <2>1, <2>2, KeepSuspended DEF vars
<1> QED BY <1>1, <1>2, <1>3, <1>4, <1>5, <1>6 DEF Next

-----------------------------------------------------------------------------
\* No function loses, in the functions that it calls, a register that they must
\* preserve (cleanRegs, loadRegisters, storeRegisters), whatever the registers,
\* the options and the depth of calls, if functions with a call use sp.
THEOREM RegistersKept ==
    ASSUME "sp" \in UsedByCallers
    PROVE  Spec => []RegInv
<1>1. Init => RegInv
  BY InitRegs
<1>2. RegInv /\ [Next]_vars => RegInv'
  BY StepRegs
<1> QED BY <1>1, <1>2, PTL DEF Spec

-----------------------------------------------------------------------------
(* The guest's register file.                                              *)

\* The conditions: functions with a call access the stack pointer, and the
\* option syncOnExternalCalls is used with global registers only.
GoodPrograms == /\ "sp" \in UsedByCallers
                /\ \A o \in OptionSets : o.regs # "globals" => ~o.syncOnExternalCalls

\* What the refinement maps the registers and the suspended functions to.
FileNow  == View(Top, x)
CallsNow == [i \in 1 .. Len(frames) - 1 |->
                [saved |-> frames[i].saved, tail |-> frames[i].tail]]

\* The guest's file and its suspended functions.
LEMMA MapFacts ==
    ASSUME RegInv
    PROVE  /\ FileNow \in [reg -> Val]
           /\ \A r \in reg : FileNow[r] = GetReg(Top, x, r)
           /\ Len(CallsNow) = Len(frames) - 1
           /\ CallsNow \in Seq([saved : [Guest!Preserved -> Val], tail : BOOLEAN])
<1>1. TypeOK /\ Top \in Frames /\ x \in [reg -> Val] /\ Len(frames) \in Nat
      /\ Len(frames) > 0
  BY TopFacts DEF RegInv, TypeOK
<1>2. /\ FileNow \in [reg -> Val]
      /\ \A r \in reg : FileNow[r] = GetReg(Top, x, r)
  BY <1>1, ViewType DEF FileNow
<1> DEFINE n == Len(frames) - 1
           C == [saved : [Guest!Preserved -> Val], tail : BOOLEAN]
           c(i) == [saved |-> frames[i].saved, tail |-> frames[i].tail]
<1>3. n \in Nat /\ \A i \in 1 .. n : i \in 1 .. Len(frames)
  BY <1>1
<1>4. \A i \in 1 .. n : c(i) \in C
  <2> SUFFICES ASSUME NEW i \in 1 .. n PROVE c(i) \in C
    OBVIOUS
  <2>1. frames[i] \in Frames
    BY <1>1, <1>3, TopFacts
  <2>2. frames[i].tail \in BOOLEAN
    BY <2>1, FrameFacts
  <2>3. frames[i].saved \in [Guest!Preserved -> Val]
    BY DEF RegInv, CallersUseTheirOwn
  <2> QED BY <2>2, <2>3
<1>5. CallsNow = [i \in 1 .. n |-> c(i)]
  BY DEF CallsNow
<1> HIDE DEF n, C, c
<1>6. [i \in 1 .. n |-> c(i)] \in [1 .. n -> C]
  BY <1>4
<1>7. CallsNow \in Seq(C) /\ Len(CallsNow) = n
  BY <1>3, <1>5, <1>6, SeqDef, LenProperties
<1> QED BY <1>2, <1>7 DEF n, C

\* A step that changes the function on top alone suspends nothing.
LEMMA CallsKept ==
    ASSUME TypeOK, NEW f \in Frames, frames' = WithTop(f)
    PROVE  CallsNow' = CallsNow /\ Top' = f
<1>1. Len(frames) \in Nat /\ Len(frames) > 0
  BY TopFacts
<1>2. /\ frames' \in Seq(Frames) /\ Len(frames') = Len(frames)
      /\ \A i \in 1 .. Len(frames) - 1 : frames'[i] = frames[i]
      /\ frames'[Len(frames)] = f
  BY WithTopFacts
<1>3. CallsNow' = CallsNow
  BY <1>1, <1>2 DEF CallsNow
<1>4. Top' = f
  BY <1>1, <1>2 DEF Top, Last
<1> QED BY <1>3, <1>4

\* main has called nothing.
LEMMA InitRefines == Init => Guest!GuestInit
<1> SUFFICES ASSUME Init PROVE Guest!GuestInit
  OBVIOUS
<1>1. RegInv
  BY InitRegs
<1>2. FileNow \in [reg -> Val]
  BY <1>1, MapFacts
<1>3. Len(frames) = 1
  BY DEF Init
<1>4. CallsNow = << >>
  BY <1>3 DEF CallsNow
<1> QED BY <1>2, <1>4 DEF Guest!GuestInit, Guest!File, FileNow, CallsNow

\* An instruction writes the register of the guest, wherever its copy is.
LEMMA WriteRefines == RegInv /\ RegInv' /\ Write => Guest!GuestWrite
<1> SUFFICES ASSUME RegInv, RegInv', Write PROVE Guest!GuestWrite
  OBVIOUS
<1>1. PICK r \in reg, v \in Val :
         /\ frames' = WithTop(PutLocal(Top, r, v))
         /\ x' = PutGlobal(Top, x, r, v)
  BY DEF Write
<1> DEFINE f == PutLocal(Top, r, v)
<1>2. TypeOK /\ Top \in Frames /\ x \in [reg -> Val]
  BY TopFacts DEF RegInv, TypeOK
<1>3. reg' = reg /\ opts' = opts /\ ext' = ext
  BY DEF Write
<1>4. /\ f \in Frames /\ f.acc = Top.acc
      /\ f.regs = IF r \in Top.acc THEN [Top.regs EXCEPT ![r] = v] ELSE Top.regs
  BY <1>2, PutTypes
<1>5. Top.regs \in [Top.acc -> Val]
  BY <1>2, FrameFacts
<1>6. frames' = WithTop(f)
  BY <1>1
<1> HIDE DEF f
<1>7. CallsNow' = CallsNow /\ Top' = f
  BY <1>2, <1>4, <1>6, CallsKept
<1>8. \A q \in reg : GetReg(f, x', q) = IF q = r THEN v ELSE GetReg(Top, x, q)
  BY <1>1, <1>2, <1>4, <1>5 DEF GetReg, PutGlobal
<1>9. FileNow' = [FileNow EXCEPT ![r] = v]
  BY <1>3, <1>7, <1>8 DEF FileNow, View
<1>10. mode' = mode
  BY <1>3 DEF mode
<1> QED BY <1>3, <1>7, <1>9, <1>10 DEF Guest!GuestWrite, FileNow, CallsNow

\* What a call passes down reaches the callee through the global copies, where
\* both the caller and the callee have a copy of their own and where not.
LEMMA PassedFacts ==
    ASSUME NEW f \in Frames, NEW g \in [reg -> Val],
           NEW acc \in Accesses, NEW regs \in [acc -> Val],
           NEW r \in Guest!Passed
    PROVE  LET stored == StoreRegisters(f, g, "call")
           IN  GetReg(CalleeFrame(acc, regs, stored), stored, r) = GetReg(f, g, r)
<1> DEFINE stored == StoreRegisters(f, g, "call")
           new == CalleeFrame(acc, regs, stored)
<1>1. r \in reg /\ SyncReg(r, "call") /\ SyncReg(r, "func_start")
  BY DEF Guest!Passed, Guest!ArgRegs, SyncReg, SyncRegCall, SyncRegRet
<1>2. stored \in [reg -> Val]
  BY SyncTypes
<1>3. stored[r] = GetReg(f, g, r)
  BY <1>1 DEF GetReg, StoreRegisters
<1> HIDE DEF stored
<1>4. /\ CalleeFrame(acc, regs, stored).acc = acc
      /\ r \in acc => CalleeFrame(acc, regs, stored).regs[r] = stored[r]
  BY <1>1 DEF CalleeFrame, LoadRegisters, Frame
<1>5. GetReg(new, stored, r) = stored[r]
  BY <1>4 DEF GetReg
<1> QED BY <1>3, <1>5 DEF stored

\* A call and the start of the function called.
LEMMA CallRefines == RegInv /\ RegInv' /\ Call => Guest!GuestCall
<1> SUFFICES ASSUME RegInv, RegInv', Call PROVE Guest!GuestCall
  OBVIOUS
<1> DEFINE Do(tail, v, acc, regs) ==
        /\ x' = CallGlobals(tail, v)
        /\ frames' = Append(WithTop(CallerFrame(tail, v)),
                            CalleeFrame(acc, regs, CallGlobals(tail, v)))
<1>1. \E tail \in TailCalls, v \in Val, acc \in Accesses :
        \E regs \in [acc -> Val] : Do(tail, v, acc, regs)
  BY DEF Call, Uninitialized
<1>2. PICK tail \in TailCalls, v \in Val, acc \in Accesses :
        \E regs \in [acc -> Val] : Do(tail, v, acc, regs)
  BY <1>1
<1>3. PICK regs \in [acc -> Val] : Do(tail, v, acc, regs)
  BY <1>2
<1> DEFINE mid == CallerFrame(tail, v)
           g   == CallGlobals(tail, v)
           new == CalleeFrame(acc, regs, g)
           link == LinkLocal(tail, v)
           linkG == LinkGlobal(tail, v)
           linked == View(link, g)
           saved == [r \in Guest!Preserved |-> linked[r]]
<1>4. TypeOK /\ tail \in BOOLEAN
  BY RegAssumption DEF RegInv
<1>5. reg' = reg /\ opts' = opts /\ ext' = ext
  BY DEF Call
<1>6. /\ g \in [reg -> Val] /\ mid \in Frames /\ mid.tail = tail
      /\ mid.saved = saved
  BY <1>4, CallerFacts
<1>7. new \in Frames
  BY <1>6, CalleeFacts
<1>8. /\ link \in Frames /\ linkG \in [reg -> Val]
      /\ \A r \in reg : r # "ra" => GetReg(link, linkG, r) = GetReg(Top, x, r)
  BY <1>4, LinkFacts
<1>9. g = StoreRegisters(link, linkG, "call")
  BY DEF CallGlobals
<1>10. \A r \in reg : GetReg(link, g, r) = GetReg(link, linkG, r)
  BY <1>8, <1>9, StoreKeepsView
<1>11. linked \in [reg -> Val] /\ \A r \in reg : linked[r] = GetReg(link, g, r)
  BY <1>6, <1>8, ViewType
<1>12. \A r \in Guest!Passed : GetReg(new, g, r) = GetReg(link, linkG, r)
  BY <1>8, <1>9, PassedFacts
<1>13. frames' = Append(WithTop(mid), new) /\ x' = g
  BY <1>3
<1> HIDE DEF mid, g, new, link, linkG, linked, Do
<1>14. /\ frames' \in Seq(Frames) /\ Len(frames') = Len(frames) + 1
       /\ \A i \in 1 .. Len(frames) - 1 : frames'[i] = frames[i]
       /\ frames'[Len(frames)] = mid
       /\ frames'[Len(frames) + 1] = new
  <2> DEFINE stack == Append(WithTop(mid), new)
  <2>1. /\ stack \in Seq(Frames) /\ Len(stack) = Len(frames) + 1
        /\ \A i \in 1 .. Len(frames) - 1 : stack[i] = frames[i]
        /\ stack[Len(frames)] = mid
        /\ stack[Len(frames) + 1] = new
    BY <1>4, <1>6, <1>7, PushFacts
  <2>2. frames' = stack
    BY <1>13
  <2> HIDE DEF stack
  <2> QED BY <2>1, <2>2
<1>15. Len(frames) \in Nat /\ Len(frames) > 0
  BY <1>4, TopFacts
<1>16. Top' = new
  BY <1>14, <1>15 DEF Top, Last
<1>17. CallsNow' = Append(CallsNow, [saved |-> saved, tail |-> tail])
  <2> DEFINE e == [saved |-> saved, tail |-> tail]
  <2>1. e = [saved |-> mid.saved, tail |-> mid.tail]
    BY <1>6
  <2> HIDE DEF e
  <2>2. /\ CallsNow \in Seq([saved : [Guest!Preserved -> Val], tail : BOOLEAN])
        /\ Len(CallsNow) = Len(frames) - 1
    BY MapFacts
  <2>3. CallsNow' \in Seq([saved : [Guest!Preserved -> Val], tail : BOOLEAN])
        /\ Len(CallsNow') = Len(frames)
    <3> DEFINE C == [saved : [Guest!Preserved -> Val], tail : BOOLEAN]
               n == Len(frames)
               c(i) == [saved |-> frames'[i].saved, tail |-> frames'[i].tail]
    <3>1. e \in C
      BY <1>4, <1>6, <1>11, PreservedFacts DEF e
    <3>2. \A i \in 1 .. n : c(i) \in C
      <4> SUFFICES ASSUME NEW i \in 1 .. n PROVE c(i) \in C
        OBVIOUS
      <4>1. CASE i = n
        BY <2>1, <3>1, <4>1, <1>14
      <4>2. CASE i # n
        <5>1. i \in 1 .. n - 1
          BY <1>15, <4>2
        <5>2. CallsNow[i] \in C
          BY <2>2, <5>1, ElementOfSeq
        <5>3. CallsNow[i] = [saved |-> frames[i].saved, tail |-> frames[i].tail]
          BY <5>1 DEF CallsNow
        <5> QED BY <5>1, <5>2, <5>3, <1>14
      <4> QED BY <4>1, <4>2
    <3>3. CallsNow' = [i \in 1 .. n |-> c(i)]
      BY <1>14, <1>15 DEF CallsNow
    <3> HIDE DEF C, c, n
    <3>4. [i \in 1 .. n |-> c(i)] \in [1 .. n -> C]
      BY <3>2
    <3>5. n \in Nat
      BY <1>15 DEF n
    <3>6. CallsNow' \in Seq(C) /\ Len(CallsNow') = n
      BY <3>3, <3>4, <3>5, SeqDef, LenProperties
    <3> QED BY <3>6 DEF C, n
  <2>4. e \in [saved : [Guest!Preserved -> Val], tail : BOOLEAN]
    BY <1>4, <1>6, <1>11, PreservedFacts DEF e
  <2>5. \A i \in 1 .. Len(frames) :
          CallsNow'[i] = [saved |-> frames'[i].saved, tail |-> frames'[i].tail]
    BY <1>14, <1>15 DEF CallsNow
  <2>6. \A i \in 1 .. Len(frames) : CallsNow'[i] = Append(CallsNow, e)[i]
    <3> SUFFICES ASSUME NEW i \in 1 .. Len(frames)
                 PROVE  CallsNow'[i] = Append(CallsNow, e)[i]
      OBVIOUS
    <3>1. CASE i = Len(frames)
      BY <2>1, <2>2, <2>4, <2>5, <3>1, <1>14, AppendProperties
    <3>2. CASE i # Len(frames)
      <4>1. i \in 1 .. Len(frames) - 1
        BY <1>15, <3>2
      <4>2. Append(CallsNow, e)[i] = CallsNow[i]
        BY <4>1, <2>2, <2>4, AppendProperties
      <4>3. CallsNow[i] = [saved |-> frames[i].saved, tail |-> frames[i].tail]
        BY <4>1 DEF CallsNow
      <4> QED BY <4>1, <4>2, <4>3, <2>5, <1>14
    <3> QED BY <3>1, <3>2
  <2>7. CallsNow' = Append(CallsNow, e)
    <3> DEFINE S == Seq([saved : [Guest!Preserved -> Val], tail : BOOLEAN])
    <3>1. Append(CallsNow, e) \in S /\ Len(Append(CallsNow, e)) = Len(frames)
      BY <1>15, <2>2, <2>4, AppendProperties
    <3> QED BY <2>3, <2>6, <3>1, SeqEqual
  <2> QED BY <2>7 DEF e
<1>18. FileNow' \in [reg -> Val] /\ \A r \in reg : FileNow'[r] = GetReg(new, g, r)
  <2>1. View(new, g) \in [reg -> Val] /\ \A r \in reg : View(new, g)[r] = GetReg(new, g, r)
    BY <1>6, <1>7, ViewType
  <2> QED BY <2>1, <1>5, <1>13, <1>16 DEF FileNow, View
<1>19. \A r \in reg \ {"ra"} : linked[r] = FileNow[r]
  BY <1>8, <1>10, <1>11, MapFacts
<1>20. \A r \in Guest!Passed : FileNow'[r] = linked[r]
  <2>1. Guest!Passed \subseteq reg
    BY DEF Guest!Passed
  <2> QED BY <2>1, <1>10, <1>11, <1>12, <1>18
<1>21. mode' = mode
  BY <1>5 DEF mode
<1> HIDE DEF saved
<1>22. /\ linked \in Guest!File
       /\ Guest!Agree(linked, FileNow, reg \ {"ra"})
       /\ FileNow' \in Guest!File /\ Guest!Agree(FileNow', linked, Guest!Passed)
  BY <1>11, <1>18, <1>19, <1>20 DEF Guest!File, Guest!Agree
<1>23. CallsNow' = Append(CallsNow, [saved |-> [r \in Guest!Preserved |-> linked[r]],
                                     tail |-> tail])
  BY <1>17 DEF saved
<1> QED BY <1>4, <1>5, <1>21, <1>22, <1>23 DEF Guest!GuestCall, FileNow, CallsNow

\* A load changes the copies of the registers that are synchronized.
LEMMA LoadFacts ==
    ASSUME NEW f \in Frames, NEW g \in [reg -> Val], NEW p
    PROVE  /\ LoadRegisters(f, g, p) \in Frames
           /\ LoadRegisters(f, g, p).acc = f.acc
           /\ LoadRegisters(f, g, p).tail = f.tail
           /\ LoadRegisters(f, g, p).saved = f.saved
           /\ \A r \in f.acc : LoadRegisters(f, g, p).regs[r] =
                IF SyncReg(r, p) THEN g[r] ELSE f.regs[r]
<1> DEFINE m == [r \in f.acc |-> IF SyncReg(r, p) THEN g[r] ELSE f.regs[r]]
<1>1. f = [acc |-> f.acc, regs |-> f.regs, tail |-> f.tail, saved |-> f.saved]
  BY FrameFacts
<1>2. LoadRegisters(f, g, p) =
        [acc |-> f.acc, regs |-> m, tail |-> f.tail, saved |-> f.saved]
  <2> HIDE DEF m
  <2>1. [f EXCEPT !.regs = m] =
           [acc |-> f.acc, regs |-> m, tail |-> f.tail, saved |-> f.saved]
    BY <1>1
  <2> QED BY <2>1 DEF LoadRegisters, m
<1>3. \A r \in f.acc : m[r] = IF SyncReg(r, p) THEN g[r] ELSE f.regs[r]
  OBVIOUS
<1>4. LoadRegisters(f, g, p) \in Frames
  BY SyncTypes
<1> HIDE DEF m
<1> QED BY <1>2, <1>3, <1>4

\* What is stored at a return and loaded by the caller is what is handed back.
LEMMA ReturnedFacts ==
    ASSUME NEW f \in Frames, NEW caller \in Frames, NEW g \in [reg -> Val],
           NEW r \in Guest!Returned
    PROVE  LET stored == StoreRegisters(f, g, "func_return")
           IN  GetReg(LoadRegisters(caller, stored, "call_returned"), stored, r)
                 = GetReg(f, g, r)
<1> DEFINE stored == StoreRegisters(f, g, "func_return")
<1>1. r \in reg /\ SyncReg(r, "func_return") /\ SyncReg(r, "call_returned")
  BY DEF Guest!Returned, Guest!RetRegs, SyncReg, SyncRegCall, SyncRegRet
<1>2. stored \in [reg -> Val]
  BY SyncTypes
<1>3. stored[r] = GetReg(f, g, r)
  BY <1>1 DEF GetReg, StoreRegisters
<1> HIDE DEF stored
<1> DEFINE back == LoadRegisters(caller, stored, "call_returned")
<1>4. back.acc = caller.acc /\ (r \in caller.acc => back.regs[r] = stored[r])
  BY <1>1, <1>2, LoadFacts
<1> HIDE DEF back
<1>6. GetReg(back, stored, r) = stored[r]
  BY <1>4 DEF GetReg
<1> QED BY <1>3, <1>6 DEF back, stored

\* A return, and what the caller loads.
LEMMA ReturnRefines == RegInv /\ RegInv' /\ Return => Guest!GuestReturn
<1> SUFFICES ASSUME RegInv, RegInv', Return PROVE Guest!GuestReturn
  OBVIOUS
<1> DEFINE g == StoreRegisters(Top, x, "func_return")
           n == Len(frames) - 1
           rest == Front(frames)
           back == LoadRegisters(rest[n], g, "call_returned")
           C == [saved : [Guest!Preserved -> Val], tail : BOOLEAN]
<1>1. /\ Len(frames) > 1 /\ x' = g
      /\ frames' = [rest EXCEPT ![n] = back]
      /\ reg' = reg /\ opts' = opts /\ ext' = ext
  BY DEF Return
<1>2. TypeOK /\ Top \in Frames /\ x \in [reg -> Val] /\ Len(frames) \in Nat
      /\ frames \in Seq(Frames)
  BY TopFacts DEF RegInv, TypeOK
<1>3. g \in [reg -> Val]
  BY <1>2, SyncTypes
<1>4. /\ rest \in Seq(Frames) /\ Len(rest) = n
      /\ \A i \in 1 .. n : rest[i] = frames[i]
  BY <1>1, <1>2, FrontFacts
<1>5. n \in 1 .. n /\ n \in Nat /\ n = Len(frames) - 1
  BY <1>1, <1>2
<1>6. \A r \in Guest!Preserved : g[r] = x[r]
  BY PreservedFacts DEF StoreRegisters
<1>7. ASSUME frames[n] \in Frames
      PROVE  \A r \in Guest!Returned :
                GetReg(LoadRegisters(frames[n], g, "call_returned"), g, r) = GetReg(Top, x, r)
  BY <1>2, <1>7, ReturnedFacts
<1> HIDE DEF rest, g, n
<1>8. rest[n] \in Frames /\ rest[n] = frames[n]
  BY <1>4, <1>5, ElementOfSeq
<1>9. /\ back \in Frames /\ back.acc = frames[n].acc
      /\ \A r \in frames[n].acc : back.regs[r] =
            IF SyncReg(r, "call_returned") THEN g[r] ELSE frames[n].regs[r]
  BY <1>3, <1>8, LoadFacts
<1>10. \A r \in Guest!Returned : GetReg(back, g, r) = GetReg(Top, x, r)
  BY <1>7, <1>8
<1>11. ~frames[n].tail => \A r \in Guest!Preserved : GetReg(back, g, r) = frames[n].saved[r]
  <2> SUFFICES ASSUME ~frames[n].tail, NEW r \in Guest!Preserved
               PROVE  GetReg(back, g, r) = frames[n].saved[r]
    OBVIOUS
  <2>1. GetReg(frames[n], x, r) = frames[n].saved[r]
    BY <1>5 DEF RegInv, CallersKeepRegisters
  <2>2. CASE r \in frames[n].acc
    <3>1. ~SyncReg(r, "call_returned")
      BY PreservedFacts
    <3>2. back.regs[r] = frames[n].regs[r]
      BY <1>9, <2>2, <3>1
    <3> HIDE DEF back
    <3> QED BY <1>9, <2>1, <2>2, <3>2 DEF GetReg
  <2>3. CASE r \notin frames[n].acc
    <3> HIDE DEF back
    <3> QED BY <1>6, <1>9, <2>1, <2>3 DEF GetReg
  <2> QED BY <2>2, <2>3
<1> HIDE DEF back
<1>12. /\ frames' \in Seq(Frames) /\ Len(frames') = n
       /\ frames'[n] = back
       /\ \A i \in 1 .. n : i # n => frames'[i] = rest[i]
  BY <1>1, <1>4, <1>5, <1>9, ExceptSeq
<1>13. Top' = back
  BY <1>12 DEF Top, Last
<1>14. FileNow' \in [reg -> Val] /\ \A r \in reg : FileNow'[r] = GetReg(back, g, r)
  <2>1. View(back, g) \in [reg -> Val] /\ \A r \in reg : View(back, g)[r] = GetReg(back, g, r)
    BY <1>3, <1>9, ViewType
  <2> QED BY <2>1, <1>1, <1>13 DEF FileNow, View
<1>15. /\ CallsNow \in Seq(C) /\ Len(CallsNow) = n
  BY <1>5, MapFacts
<1>16. /\ CallsNow[n] = [saved |-> frames[n].saved, tail |-> frames[n].tail]
       /\ Last(CallsNow) = CallsNow[n] /\ CallsNow # << >>
  <2>1. CallsNow[n] = [saved |-> frames[n].saved, tail |-> frames[n].tail]
    BY <1>5 DEF CallsNow
  <2>2. Last(CallsNow) = CallsNow[n]
    BY <1>15 DEF Last
  <2>3. CallsNow # << >>
    BY <1>5, <1>15
  <2> QED BY <2>1, <2>2, <2>3
<1>17. CallsNow' = Front(CallsNow)
  <2> HIDE DEF C
  <2>0. Len(CallsNow) > 0
    BY <1>5, <1>15
  <2>1. /\ Front(CallsNow) \in Seq(C) /\ Len(Front(CallsNow)) = n - 1
        /\ \A i \in 1 .. n - 1 : Front(CallsNow)[i] = CallsNow[i]
    BY <1>15, <2>0, FrontFacts
  <2>2. CallsNow' = [i \in 1 .. n - 1 |->
                        [saved |-> frames'[i].saved, tail |-> frames'[i].tail]]
    BY <1>12 DEF CallsNow
  <2>3. \A i \in 1 .. n - 1 :
           CallsNow[i] = [saved |-> frames'[i].saved, tail |-> frames'[i].tail]
    <3> SUFFICES ASSUME NEW i \in 1 .. n - 1
                 PROVE  CallsNow[i] = [saved |-> frames'[i].saved,
                                       tail |-> frames'[i].tail]
      OBVIOUS
    <3>1. i \in 1 .. n /\ i # n
      BY <1>5
    <3>2. frames'[i] = frames[i]
      BY <1>4, <1>12, <3>1
    <3> QED BY <1>5, <3>1, <3>2 DEF CallsNow
  <2>4. Front(CallsNow) = [i \in 1 .. n - 1 |-> Front(CallsNow)[i]]
    BY <1>5, <2>1, SeqDef, LenProperties
  <2> QED BY <2>1, <2>2, <2>3, <2>4
<1>18. Guest!Returned \subseteq reg /\ Guest!Preserved \subseteq reg
  BY DEF Guest!Returned, Guest!Preserved
<1>19. /\ FileNow' \in Guest!File
       /\ Guest!Agree(FileNow', FileNow, Guest!Returned)
  BY <1>10, <1>14, <1>18, MapFacts DEF Guest!File, Guest!Agree
<1>20. ~Last(CallsNow).tail => Guest!Agree(FileNow', Last(CallsNow).saved, Guest!Preserved)
  BY <1>11, <1>14, <1>16, <1>18 DEF Guest!Agree
<1>21. mode' = mode
  BY <1>1 DEF mode
<1>22. Guest!Last(CallsNow) = Last(CallsNow) /\ Guest!Front(CallsNow) = Front(CallsNow)
  BY DEF Guest!Last, Last, Guest!Front, Front
<1> QED BY <1>1, <1>16, <1>17, <1>19, <1>20, <1>21, <1>22
        DEF Guest!GuestReturn, FileNow, CallsNow

\* A call of an external function leaves its result in a0 and what external
\* functions preserve as it was, for the function on top.
LEMMA ExternalRefines ==
    ASSUME RegInv, NEW f \in Frames, frames' = WithTop(f), x' \in [reg -> Val],
           reg' = reg, opts' = opts, NEW res \in Val,
           ext' = [arg |-> GetReg(Top, x, "a0"), res |-> res],
           GetReg(f, x', "a0") = res,
           \A r \in reg \cap Guest!SavedRegs : GetReg(f, x', r) = GetReg(Top, x, r)
    PROVE  Guest!GuestExternal
<1>1. TypeOK /\ "a0" \in reg
  BY AccessFacts DEF RegInv
<1>2. CallsNow' = CallsNow /\ Top' = f
  BY <1>1, CallsKept
<1>3. View(f, x') \in [reg -> Val] /\ \A r \in reg : View(f, x')[r] = GetReg(f, x', r)
  BY ViewType
<1>4. FileNow' = View(f, x')
  BY <1>2 DEF FileNow, View
<1>5. /\ FileNow' \in Guest!File
      /\ ext' = [arg |-> FileNow["a0"], res |-> FileNow'["a0"]]
  BY <1>1, <1>3, <1>4, MapFacts DEF Guest!File
<1>7. Guest!Agree(FileNow', FileNow, reg \cap Guest!SavedRegs)
  BY <1>3, <1>4, MapFacts DEF Guest!Agree
<1>8. mode' = mode
  BY DEF mode
<1> QED BY <1>2, <1>5, <1>7, <1>8 DEF Guest!GuestExternal, FileNow, CallsNow

\* Neither the link register nor a result is one that must be preserved.
LEMMA SavedFacts ==
    \A r \in Guest!SavedRegs : r # "ra" /\ ~SyncRegRet(r)
BY DEF Guest!SavedRegs, SyncRegRet

\* With the option, no function has copies of its own.
LEMMA SyncedExternals ==
    ASSUME GoodPrograms, RegInv, opts.syncOnExternalCalls
    PROVE  mode = "globals" /\ \A f \in Frames : f.acc = {}
<1>1. mode = "globals"
  BY DEF GoodPrograms, RegInv, TypeOK, mode
<1>2. Accesses = {{}}
  BY <1>1 DEF Accesses
<1> QED BY <1>1, <1>2, FrameFacts

\* An external function called directly.
LEMMA CallExternalRefines ==
    GoodPrograms /\ RegInv /\ CallExternal => Guest!GuestExternal
<1> SUFFICES ASSUME GoodPrograms, RegInv, CallExternal PROVE Guest!GuestExternal
  OBVIOUS
<1> DEFINE f(tail, v) == LinkLocal(tail, v)
           g(tail, v) == StoreForExternal(f(tail, v), LinkGlobal(tail, v))
           back(tail, v, res) == [PutLocal(f(tail, v), "a0", res) EXCEPT !.tail = tail]
           Do(tail, v, res) ==
                /\ ext' = [arg |-> GetReg(f(tail, v), g(tail, v), "a0"), res |-> res]
                /\ x' = PutGlobal(f(tail, v), g(tail, v), "a0", res)
                /\ frames' = WithTop(LoadAfterCaller(back(tail, v, res), x'))
                /\ reg' = reg /\ opts' = opts
<1>1. PICK tail \in TailCalls, v \in Val, res \in Val : Do(tail, v, res)
  BY DEF CallExternal
<1> DEFINE l == f(tail, v)
           lg == LinkGlobal(tail, v)
           h == g(tail, v)
           p == PutLocal(l, "a0", res)
           b == back(tail, v, res)
           after == LoadAfterCaller(b, x')
<1>2. TypeOK /\ tail \in BOOLEAN /\ "a0" \in reg
  BY RegAssumption, AccessFacts DEF RegInv
<1>3. /\ l \in Frames /\ lg \in [reg -> Val]
      /\ \A r \in reg : r # "ra" => GetReg(l, lg, r) = GetReg(Top, x, r)
  BY <1>2, LinkFacts
<1>4. /\ x' = PutGlobal(l, h, "a0", res) /\ frames' = WithTop(after)
      /\ ext' = [arg |-> GetReg(l, h, "a0"), res |-> res]
      /\ reg' = reg /\ opts' = opts
  BY <1>1
<1>5. b = [p EXCEPT !.tail = tail] /\ h = StoreForExternal(l, lg)
  OBVIOUS
<1> HIDE DEF l, lg, h, b, after
<1>6. h \in [reg -> Val] /\ \A r \in reg : GetReg(l, h, r) = GetReg(l, lg, r)
  BY <1>3, <1>5, SyncTypes, StoreKeepsView DEF StoreForExternal
<1>7. /\ x' \in [reg -> Val] /\ p \in Frames /\ p.acc = l.acc
      /\ p.regs = IF "a0" \in l.acc THEN [l.regs EXCEPT !["a0"] = res] ELSE l.regs
  BY <1>2, <1>3, <1>4, <1>6, PutTypes
<1> HIDE DEF p
<1>8. b \in Frames /\ b.acc = l.acc /\ b.regs = p.regs
  <2>1. /\ p.acc \in Accesses /\ p.regs \in [p.acc -> Val]
        /\ p = [acc |-> p.acc, regs |-> p.regs, tail |-> p.tail, saved |-> p.saved]
        /\ p.saved \in [Guest!Preserved -> Val] \cup {<< >>}
    BY <1>7, FrameFacts
  <2>2. b = [acc |-> p.acc, regs |-> p.regs, tail |-> tail, saved |-> p.saved]
    BY <1>5, <2>1
  <2>3. b \in Frames
    BY <1>2, <2>1, <2>2, FrameFacts
  <2> QED BY <1>7, <2>2, <2>3
<1>9. after \in Frames
  BY <1>2, <1>7, <1>8, ExternalFacts DEF after
<1>10. l.regs \in [l.acc -> Val]
  BY <1>3, FrameFacts
<1>11. \A r \in reg : GetReg(after, x', r) = IF r = "a0" THEN res ELSE GetReg(l, h, r)
  <2>1. CASE opts.syncOnExternalCalls
    <3>1. l.acc = {} /\ after.acc = {}
      BY <1>3, <1>9, <2>1, SyncedExternals
    <3> QED BY <1>2, <1>4, <1>6, <3>1 DEF GetReg, PutGlobal
  <2>2. CASE ~opts.syncOnExternalCalls
    <3>1. after = b
      BY <2>2 DEF after, LoadAfterCaller
    <3> QED BY <1>2, <1>4, <1>6, <1>7, <1>8, <1>10, <3>1 DEF GetReg, PutGlobal
  <2> QED BY <2>1, <2>2
<1>12. /\ GetReg(after, x', "a0") = res
       /\ \A r \in reg \cap Guest!SavedRegs : GetReg(after, x', r) = GetReg(Top, x, r)
  BY <1>2, <1>3, <1>6, <1>11, SavedFacts DEF SyncRegRet
<1>13. ext' = [arg |-> GetReg(Top, x, "a0"), res |-> res]
  BY <1>2, <1>3, <1>4, <1>6
<1> QED BY <1>4, <1>7, <1>9, <1>12, <1>13, ExternalRefines

\* An external function called through icaller.
LEMMA ICallExternalRefines ==
    GoodPrograms /\ RegInv /\ ICallExternal => Guest!GuestExternal
<1> SUFFICES ASSUME GoodPrograms, RegInv, ICallExternal PROVE Guest!GuestExternal
  OBVIOUS
<1> DEFINE f(v) == LinkLocal(FALSE, v)
           g(v) == StoreForExternal(f(v), LinkGlobal(FALSE, v))
           Do(v, res) ==
                /\ ext' = [arg |-> GetReg(f(v), g(v), "a0"), res |-> res]
                /\ x' = [g(v) EXCEPT !["a0"] = res]
                /\ frames' = WithTop(LoadAfterICaller(f(v), x'))
                /\ reg' = reg /\ opts' = opts
<1>1. PICK v \in Val, res \in Val : Do(v, res)
  BY DEF ICallExternal
<1> DEFINE l == f(v)
           lg == LinkGlobal(FALSE, v)
           h == g(v)
           after == LoadAfterICaller(l, x')
<1>2. TypeOK /\ "a0" \in reg
  BY AccessFacts DEF RegInv
<1>3. /\ l \in Frames /\ lg \in [reg -> Val]
      /\ \A r \in reg : r # "ra" => GetReg(l, lg, r) = GetReg(Top, x, r)
  BY <1>2, LinkFacts
<1>4. /\ x' = [h EXCEPT !["a0"] = res] /\ frames' = WithTop(after)
      /\ ext' = [arg |-> GetReg(l, h, "a0"), res |-> res]
      /\ reg' = reg /\ opts' = opts
  BY <1>1
<1>5. h = StoreForExternal(l, lg)
  OBVIOUS
<1> HIDE DEF l, lg, h, after
<1>6. h \in [reg -> Val] /\ \A r \in reg : GetReg(l, h, r) = GetReg(l, lg, r)
  BY <1>3, <1>5, SyncTypes, StoreKeepsView DEF StoreForExternal
<1>7. x' \in [reg -> Val] /\ x'["a0"] = res
      /\ \A r \in reg : r # "a0" => x'[r] = h[r]
  BY <1>2, <1>4, <1>6
<1>8. after \in Frames
  BY <1>2, <1>3, <1>7, ExternalFacts DEF after
<1>9. /\ GetReg(after, x', "a0") = res
      /\ \A r \in reg \cap Guest!SavedRegs : GetReg(after, x', r) = GetReg(l, h, r)
  <2>1. CASE opts.syncOnExternalCalls
    <3>1. l.acc = {} /\ after.acc = {}
      BY <1>3, <1>8, <2>1, SyncedExternals
    <3> QED BY <1>7, <3>1, SavedFacts DEF GetReg, SyncRegRet
  <2>2. CASE ~opts.syncOnExternalCalls
    <3>1. after = LoadRegisters(l, x', "ret_regs")
      BY <2>2 DEF after, LoadAfterICaller
    <3>2. /\ after.acc = l.acc
          /\ \A r \in l.acc : after.regs[r] =
                IF SyncReg(r, "ret_regs") THEN x'[r] ELSE l.regs[r]
      BY <1>3, <1>7, <3>1, LoadFacts
    <3>3. \A r : SyncReg(r, "ret_regs") <=> SyncRegRet(r)
      BY DEF SyncReg, SyncRegRet, SyncRegCall
    <3>4. GetReg(after, x', "a0") = res
      BY <1>7, <3>2, <3>3 DEF GetReg, SyncRegRet
    <3>5. ASSUME NEW r \in reg \cap Guest!SavedRegs
          PROVE  GetReg(after, x', r) = GetReg(l, h, r)
      <4>1. ~SyncReg(r, "ret_regs") /\ r # "a0"
        BY <3>3, SavedFacts DEF SyncRegRet
      <4> QED BY <1>7, <3>2, <4>1 DEF GetReg
    <3> QED BY <3>4, <3>5
  <2> QED BY <2>1, <2>2
<1>10. /\ ext' = [arg |-> GetReg(Top, x, "a0"), res |-> res]
       /\ \A r \in reg \cap Guest!SavedRegs : GetReg(after, x', r) = GetReg(Top, x, r)
  BY <1>2, <1>3, <1>4, <1>6, <1>9, SavedFacts
<1> QED BY <1>4, <1>7, <1>8, <1>9, <1>10, ExternalRefines

\* Every step of the copies is one of the guest's registers, or none.
LEMMA StepRefines ==
    GoodPrograms /\ RegInv /\ RegInv' /\ [Next]_vars
        => [Guest!GuestNext]_<<reg, mode = "abi", FileNow, CallsNow, ext>>
<1> SUFFICES ASSUME GoodPrograms, RegInv, RegInv', [Next]_vars
             PROVE  [Guest!GuestNext]_<<reg, mode = "abi", FileNow, CallsNow, ext>>
  OBVIOUS
<1>1. CASE Write
  BY <1>1, WriteRefines DEF Guest!GuestNext
<1>2. CASE Call
  BY <1>2, CallRefines DEF Guest!GuestNext
<1>3. CASE Return
  BY <1>3, ReturnRefines DEF Guest!GuestNext
<1>4. CASE CallExternal
  BY <1>4, CallExternalRefines DEF Guest!GuestNext
<1>5. CASE ICallExternal
  BY <1>5, ICallExternalRefines DEF Guest!GuestNext
<1>6. CASE UNCHANGED vars
  BY <1>6 DEF vars, mode, FileNow, CallsNow, View, GetReg, Top, Last
<1> QED BY <1>1, <1>2, <1>3, <1>4, <1>5, <1>6 DEF Next

-----------------------------------------------------------------------------
\* The copies of the registers that a translated program keeps (loadRegisters,
\* storeRegisters, cleanRegs, Caller) implement the guest's one register file,
\* for all registers, values and depths of calls, if functions with a call use
\* sp and registers are synchronized on external calls only where they are
\* global.
THEOREM RegistersImplementGuest ==
    ASSUME GoodPrograms
    PROVE  Spec => ImplementsGuestRegs
<1>1. Init => Guest!GuestInit
  BY InitRefines
<1>2. GoodPrograms /\ RegInv /\ RegInv' /\ [Next]_vars
        => [Guest!GuestNext]_<<reg, mode = "abi", View(Top, x),
              [i \in 1 .. Len(frames) - 1 |->
                 [saved |-> frames[i].saved, tail |-> frames[i].tail]], ext>>
  BY StepRefines DEF FileNow, CallsNow
<1>3. Spec => []RegInv
  BY RegistersKept DEF GoodPrograms
<1> QED BY <1>1, <1>2, <1>3, PTL DEF Spec, ImplementsGuestRegs, Guest!GuestSpec
=============================================================================
