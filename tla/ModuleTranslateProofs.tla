------------------------ MODULE ModuleTranslateProofs ------------------------
(***************************************************************************)
(* The translation of a module.  The function maps are right for every     *)
(* object file in which functions at different addresses have different    *)
(* names; the code, the calls and the data end where they should for those *)
(* whose calls and data words refer to what the walk can find.             *)
(***************************************************************************)
EXTENDS ModuleTranslate, DataFacts

\* Functions of one name are at one address.
DistinctNames(o) ==
    \A i, j \in 1 .. Len(o.symbols) :
        /\ o.symbols[i].func /\ o.symbols[j].func
        /\ o.symbols[i].name = o.symbols[j].name
        => o.symbols[i].addr = o.symbols[j].addr

NamedObjects == \A O \in Objects : \A o \in O : DistinctNames(o)

\* The names that a function at an address may have: those of its symbols, or
\* without a symbol the one made from the address.
FuncsAt(o, a) == {i \in 1 .. Len(o.symbols) : o.symbols[i].addr = a /\ o.symbols[i].func}
NamesAt(o, a) == IF FuncsAt(o, a) = {} THEN {<<"f", a>>}
                 ELSE {<<"sym", o.symbols[i].name>> : i \in FuncsAt(o, a)}

\* The maps of functions: what is found by its address has that address, one of
\* its names, and is owned by the map of names.
MapsOK(o, m) ==
    /\ m = [byAddr |-> m.byAddr, byName |-> m.byName, llvm |-> m.llvm,
            next |-> m.next, made |-> m.made]
    /\ \A a \in DOMAIN m.byAddr :
          LET f == m.byAddr[a]
          IN  /\ f.addr = a /\ f.name \in NamesAt(o, a)
              /\ f.name \in DOMAIN m.byName /\ m.byName[f.name] = f

\* The inductive invariant: the maps, and the name of the function found last.
FunctionsInv ==
    /\ ObjectFile(obj) /\ DistinctNames(obj)
    /\ sym \in Nat \ {0}
    /\ func # << >> => func[1].name \in NamesAt(obj, func[1].addr)
    /\ MapsOK(obj, fns)

-----------------------------------------------------------------------------
(* The names of functions.                                                 *)

\* The name that getByAddr gives to a function is one of those at its address.
LEMMA NameAtIsThere ==
    ASSUME NEW a, ObjectFile(obj)
    PROVE  NameAt(a) \in NamesAt(obj, a)
<1>0. FuncSymbols(a) = FuncsAt(obj, a)
  BY DEF FuncSymbols, FuncsAt, symbols
<1>1. CASE FuncsAt(obj, a) = {}
  BY <1>0, <1>1 DEF NameAt, NamesAt
<1>2. CASE FuncsAt(obj, a) # {}
  <2>1. FuncsAt(obj, a) \subseteq Nat
    BY DEF ObjectFile, FuncsAt
  <2>2. Min(FuncsAt(obj, a)) \in FuncsAt(obj, a)
    BY <1>2, <2>1, MinIsLeast
  <2> QED BY <1>0, <1>2, <2>2 DEF NameAt, NamesAt, SymName, symbols
<1> QED BY <1>1, <1>2

\* Functions at two addresses have two names.
LEMMA NamesApart ==
    ASSUME NEW a, NEW b, DistinctNames(obj), a # b
    PROVE  NamesAt(obj, a) \cap NamesAt(obj, b) = {}
<1>1. ASSUME NEW i \in FuncsAt(obj, a), NEW j \in FuncsAt(obj, b)
      PROVE  obj.symbols[i].name # obj.symbols[j].name
  BY <1>1 DEF DistinctNames, FuncsAt
<1>2. ASSUME NEW x PROVE <<"sym", x>> # <<"f", a>> /\ <<"sym", x>> # <<"f", b>>
  OBVIOUS
<1> QED BY <1>1, <1>2 DEF NamesAt

-----------------------------------------------------------------------------
(* The operations on the maps keep them.                                   *)

\* What leaves the two maps alone keeps them: the llvm functions, the next
\* address and the count are free.
LEMMA SameMaps ==
    ASSUME NEW m, NEW l, NEW n, NEW d, MapsOK(obj, m)
    PROVE  MapsOK(obj, [byAddr |-> m.byAddr, byName |-> m.byName, llvm |-> l,
                   next |-> n, made |-> d])
BY DEF MapsOK

LEMMA CreateKeeps ==
    ASSUME NEW m, NEW name, MapsOK(obj, m)
    PROVE  MapsOK(obj, Create(m, name))
<1> DEFINE l == IF name \in DOMAIN m.llvm THEN m.llvm ELSE Upsert(m.llvm, name, None)
<1>1. Create(m, name) = [byAddr |-> m.byAddr, byName |-> m.byName, llvm |-> l,
                         next |-> m.next, made |-> m.made]
  BY DEF MapsOK, Create
<1> HIDE DEF l
<1> QED BY <1>1, SameMaps

LEMMA UpdateKeeps ==
    ASSUME NEW m, NEW next, NEW at, MapsOK(obj, m)
    PROVE  MapsOK(obj, UpdateNextFuncAddr(m, next, at))
<1> DEFINE nfa == Min(AtOrAbove(m, next))
           n   == [m EXCEPT !.next = nfa]
<1>1. UpdateNextFuncAddr(m, next, at) \in {m, n}
  BY DEF UpdateNextFuncAddr
<1> HIDE DEF nfa
<1>2. n = [byAddr |-> m.byAddr, byName |-> m.byName, llvm |-> m.llvm,
           next |-> nfa, made |-> m.made]
  BY DEF MapsOK
<1> HIDE DEF n
<1>3. MapsOK(obj, n)
  BY <1>2, SameMaps
<1> QED BY <1>1, <1>3

LEMMA StartKeeps ==
    ASSUME NEW m, NEW f, MapsOK(obj, m)
    PROVE  MapsOK(obj, Start(m, f))
<1> DEFINE c == Create(m, f.name)
           l == [c.llvm EXCEPT ![f.name] = IF @ = None THEN f.addr ELSE @]
<1>1. MapsOK(obj, c)
  BY CreateKeeps
<1>2. Start(m, f) = [c EXCEPT !.llvm = l]
  BY DEF Start
<1> HIDE DEF c, l
<1>3. Start(m, f) = [byAddr |-> c.byAddr, byName |-> c.byName, llvm |-> l,
                     next |-> c.next, made |-> c.made]
  BY <1>1, <1>2 DEF MapsOK
<1> QED BY <1>1, <1>3, SameMaps

LEMMA TranslateKeeps ==
    ASSUME NEW m, NEW f, NEW at, MapsOK(obj, m)
    PROVE  MapsOK(obj, Translate(m, f, at))
BY UpdateKeeps, StartKeeps DEF Translate

\* addFunc frees the function that had the name: that is the one at the same
\* address, whose pointer is replaced, as no other has that name.
LEMMA AddFuncKeeps ==
    ASSUME NEW m, NEW f, MapsOK(obj, m), DistinctNames(obj), f.name \in NamesAt(obj, f.addr)
    PROVE  MapsOK(obj, AddFunc(m, f))
<1> DEFINE A == Upsert(m.byAddr, f.addr, f)
           B == Upsert(m.byName, f.name, f)
           n == AddFunc(m, f)
<1>1. n = [m EXCEPT !.byAddr = A, !.byName = B, !.made = @ + 1]
  BY DEF AddFunc
<1>2. /\ DOMAIN A = DOMAIN m.byAddr \cup {f.addr}
      /\ A[f.addr] = f
      /\ \A a \in DOMAIN m.byAddr : a # f.addr => A[a] = m.byAddr[a]
  BY DEF Upsert
<1>3. /\ DOMAIN B = DOMAIN m.byName \cup {f.name}
      /\ B[f.name] = f
      /\ \A s \in DOMAIN m.byName : s # f.name => B[s] = m.byName[s]
  BY DEF Upsert
<1> HIDE DEF A, B
<1>4. n = [byAddr |-> A, byName |-> B, llvm |-> m.llvm, next |-> m.next,
           made |-> m.made + 1]
  <2>1. m = [byAddr |-> m.byAddr, byName |-> m.byName, llvm |-> m.llvm,
             next |-> m.next, made |-> m.made]
    BY DEF MapsOK
  <2> HIDE DEF n
  <2> QED BY <1>1, <2>1
<1>5. ASSUME NEW a \in DOMAIN A
      PROVE  /\ A[a].addr = a /\ A[a].name \in NamesAt(obj, a)
             /\ A[a].name \in DOMAIN B /\ B[A[a].name] = A[a]
  <2>1. CASE a = f.addr
    BY <1>2, <1>3, <2>1
  <2>2. CASE a # f.addr
    <3>1. /\ a \in DOMAIN m.byAddr /\ A[a] = m.byAddr[a]
          /\ A[a].addr = a /\ A[a].name \in NamesAt(obj, a)
          /\ A[a].name \in DOMAIN m.byName /\ m.byName[A[a].name] = A[a]
      BY <1>2, <2>2 DEF MapsOK
    <3>2. A[a].name # f.name
      BY <2>2, <3>1, NamesApart
    <3> QED BY <1>3, <3>1, <3>2
  <2> QED BY <2>1, <2>2
<1>6. /\ n.byAddr = A /\ n.byName = B
      /\ n = [byAddr |-> n.byAddr, byName |-> n.byName, llvm |-> n.llvm,
              next |-> n.next, made |-> n.made]
  BY <1>4
<1> HIDE DEF n
<1>7. MapsOK(obj, n)
  BY <1>5, <1>6 DEF MapsOK
<1> QED BY <1>7 DEF n

LEMMA GetByAddrKeeps ==
    ASSUME NEW m, NEW a, NEW at, MapsOK(obj, m), DistinctNames(obj), ObjectFile(obj)
    PROVE  MapsOK(obj, GetByAddr(m, a, at))
<1>1. CASE a \in DOMAIN m.byAddr
  BY <1>1 DEF GetByAddr
<1>2. CASE a \notin DOMAIN m.byAddr
  <2> DEFINE f == Function(m, NameAt(a), a)
             c == Create(m, f.name)
  <2>1. f.name = NameAt(a) /\ f.addr = a
    BY DEF Function
  <2>2. f.name \in NamesAt(obj, f.addr)
    BY <2>1, NameAtIsThere
  <2>3. GetByAddr(m, a, at) = UpdateNextFuncAddr(AddFunc(c, f), a, at)
    BY <1>2 DEF GetByAddr
  <2> HIDE DEF f
  <2>4. MapsOK(obj, c)
    BY CreateKeeps
  <2> HIDE DEF c
  <2>5. MapsOK(obj, AddFunc(c, f))
    BY <2>2, <2>4, AddFuncKeeps
  <2> QED BY <2>3, <2>5, UpdateKeeps
<1> QED BY <1>1, <1>2

-----------------------------------------------------------------------------
(* The steps.                                                              *)

\* A step that keeps the maps and the symbols keeps the invariant.
LEMMA MapsKept ==
    ASSUME FunctionsInv, UNCHANGED <<obj, sym, func>>, MapsOK(obj, fns')
    PROVE  FunctionsInv'
BY DEF FunctionsInv

LEMMA InitFunctions ==
    ASSUME NamedObjects, Init
    PROVE  FunctionsInv
<1>1. ObjectFile(obj) /\ DistinctNames(obj)
  BY ObjectAssumption DEF Init, NamedObjects
<1>2. MapsOK(obj, fns)
  <2>1. DOMAIN << >> = {}
    OBVIOUS
  <2> QED BY <2>1 DEF Init, Functions, MapsOK
<1> QED BY <1>1, <1>2 DEF Init, FunctionsInv

LEMMA RelocateWordFunctions ==
    ASSUME FunctionsInv, RelocateWord
    PROVE  FunctionsInv'
<1>1. MapsOK(obj, fns) /\ DistinctNames(obj) /\ ObjectFile(obj)
  BY DEF FunctionsInv
<1>2. PICK i, a : RelocateFunction(i, a) \/ RelocateLabel(i, a)
  BY DEF RelocateWord
<1>3. CASE RelocateFunction(i, a)
  <2>1. fns' = GetByAddr(fns, a, addr)
    BY <1>3 DEF RelocateFunction
  <2> QED BY <1>1, <2>1, GetByAddrKeeps, MapsKept DEF RelocateWord, walk
<1>4. CASE RelocateLabel(i, a)
  BY <1>1, <1>4, MapsKept DEF RelocateLabel, RelocateWord, walk
<1> QED BY <1>2, <1>3, <1>4

LEMMA FunctionStartFunctions ==
    ASSUME FunctionsInv, FunctionStart
    PROVE  FunctionsInv'
<1>1. sym \in FuncsAt(obj, symbols[sym].addr)
  BY DEF FunctionsInv, FunctionStart, FuncsAt, symbols
<1>2. func' # << >> => func'[1].name \in NamesAt(obj, func'[1].addr)
  BY <1>1 DEF FunctionStart, NamesAt, SymName, symbols
<1>3. /\ obj' = obj /\ fns' = fns /\ sym' = sym + 1
  BY DEF FunctionStart
<1> QED BY <1>2, <1>3 DEF FunctionsInv

LEMMA SkipSymbolFunctions ==
    ASSUME FunctionsInv, SkipSymbol
    PROVE  FunctionsInv'
BY DEF SkipSymbol, FunctionsInv

LEMMA FunctionEndFunctions ==
    ASSUME FunctionsInv, FunctionEnd
    PROVE  FunctionsInv'
<1> DEFINE f == Function(fns, func[1].name, func[1].addr)
<1>1. f.name \in NamesAt(obj, f.addr)
  BY DEF FunctionsInv, FunctionEnd, Function
<1>2. fns' = Translate(AddFunc(fns, f), f, addr)
  BY DEF FunctionEnd
<1> HIDE DEF f
<1>3. MapsOK(obj, fns')
  BY <1>1, <1>2, AddFuncKeeps, TranslateKeeps DEF FunctionsInv
<1>4. obj' = obj /\ sym' = sym /\ func' = << >>
  BY DEF FunctionEnd
<1> QED BY <1>3, <1>4 DEF FunctionsInv

LEMMA SwitchFunctionFunctions ==
    ASSUME FunctionsInv, SwitchFunction
    PROVE  FunctionsInv'
<1>1. MapsOK(obj, fns')
  BY TranslateKeeps DEF SwitchFunction, FunctionsInv
<1> QED BY <1>1, MapsKept DEF SwitchFunction

LEMMA TranslateInstrFunctions ==
    ASSUME FunctionsInv, TranslateInstr
    PROVE  FunctionsInv'
<1> DEFINE o == obj.code[pos]
<1>1. MapsOK(obj, fns) /\ DistinctNames(obj) /\ ObjectFile(obj)
  BY DEF FunctionsInv
<1>2. fns' = fns \/ fns' = GetByAddr(fns, o.to, pos)
  BY DEF TranslateInstr, Emit, Refers
<1>3. MapsOK(obj, fns')
  BY <1>1, <1>2, GetByAddrKeeps
<1> QED BY <1>3, MapsKept DEF TranslateInstr

LEMMA StepFunctions ==
    ASSUME FunctionsInv, [Next]_vars
    PROVE  FunctionsInv'
<1>0. MapsOK(obj, fns)
  BY DEF FunctionsInv
<1>1. CASE CopyWord \/ ImageBuilt \/ SymbolsDone \/ FunctionDone
  BY <1>0, <1>1, MapsKept DEF CopyWord, ImageBuilt, SymbolsDone, FunctionDone, walk
<1>2. CASE RelocateWord
  BY <1>2, RelocateWordFunctions
<1>3. CASE SkipSymbol
  BY <1>3, SkipSymbolFunctions
<1>4. CASE FunctionStart
  BY <1>4, FunctionStartFunctions
<1>5. CASE FunctionEnd
  BY <1>5, FunctionEndFunctions
<1>6. CASE SwitchFunction
  BY <1>6, SwitchFunctionFunctions
<1>7. CASE TranslateInstr
  BY <1>7, TranslateInstrFunctions
<1>8. CASE UNCHANGED vars
  BY <1>0, <1>8, MapsKept DEF vars, walk
<1> QED BY <1>1, <1>2, <1>3, <1>4, <1>5, <1>6, <1>7, <1>8 DEF Next

\* What getByAddr finds in _funcByAddr is the function at that address, and the
\* map of names still owns it: no addFunc has freed it, as long as functions at
\* different addresses have different names.
THEOREM FunctionsFound ==
    ASSUME NamedObjects
    PROVE  Spec => []FunctionsByAddress
<1>1. Init => FunctionsInv
  BY InitFunctions
<1>2. FunctionsInv /\ [Next]_vars => FunctionsInv'
  BY StepFunctions
<1>3. FunctionsInv => FunctionsByAddress
  BY DEF FunctionsInv, MapsOK, FunctionsByAddress
<1> QED BY <1>1, <1>2, <1>3, PTL DEF Spec

-----------------------------------------------------------------------------
(* What the operations on the maps do.                                     *)

\* r has the llvm functions of m and the one of that name, which it leaves alone.
Extends(r, m, name) ==
    /\ DOMAIN r.llvm = DOMAIN m.llvm \cup {name}
    /\ \A n \in DOMAIN m.llvm : r.llvm[n] = m.llvm[n]
    /\ name \notin DOMAIN m.llvm => r.llvm[name] = None

LEMMA CreateEffect ==
    ASSUME NEW m, NEW name, MapsOK(obj, m)
    PROVE  LET r == Create(m, name)
           IN  /\ r.byAddr = m.byAddr /\ r.next = m.next
               /\ Extends(r, m, name)
<1> DEFINE l == IF name \in DOMAIN m.llvm THEN m.llvm ELSE Upsert(m.llvm, name, None)
<1>1. Create(m, name) = [byAddr |-> m.byAddr, byName |-> m.byName, llvm |-> l,
                         next |-> m.next, made |-> m.made]
  BY DEF MapsOK, Create
<1>2. /\ DOMAIN l = DOMAIN m.llvm \cup {name}
      /\ \A n \in DOMAIN m.llvm : l[n] = m.llvm[n]
      /\ name \notin DOMAIN m.llvm => l[name] = None
  BY DEF Upsert
<1> HIDE DEF l
<1> QED BY <1>1, <1>2 DEF Extends

LEMMA AddFuncEffect ==
    ASSUME NEW m, NEW f, MapsOK(obj, m)
    PROVE  LET r == AddFunc(m, f)
           IN  /\ DOMAIN r.byAddr = DOMAIN m.byAddr \cup {f.addr}
               /\ r.byAddr[f.addr] = f
               /\ \A a \in DOMAIN m.byAddr : a # f.addr => r.byAddr[a] = m.byAddr[a]
               /\ r.llvm = m.llvm /\ r.next = m.next
<1> DEFINE A == Upsert(m.byAddr, f.addr, f)
           B == Upsert(m.byName, f.name, f)
           r == AddFunc(m, f)
<1>1. /\ r = [m EXCEPT !.byAddr = A, !.byName = B, !.made = @ + 1]
      /\ m = [byAddr |-> m.byAddr, byName |-> m.byName, llvm |-> m.llvm,
              next |-> m.next, made |-> m.made]
  BY DEF AddFunc, MapsOK
<1>2. /\ DOMAIN A = DOMAIN m.byAddr \cup {f.addr}
      /\ A[f.addr] = f
      /\ \A a \in DOMAIN m.byAddr : a # f.addr => A[a] = m.byAddr[a]
  BY DEF Upsert
<1> HIDE DEF A, B, r
<1>3. r = [byAddr |-> A, byName |-> B, llvm |-> m.llvm, next |-> m.next,
           made |-> m.made + 1]
  BY <1>1
<1>4. r.byAddr = A /\ r.llvm = m.llvm /\ r.next = m.next
  BY <1>3
<1> QED BY <1>2, <1>4 DEF r

LEMMA UpdateEffect ==
    ASSUME NEW m, NEW next, NEW at, MapsOK(obj, m)
    PROVE  LET r     == UpdateNextFuncAddr(m, next, at)
               above == AtOrAbove(m, next)
           IN  /\ r.byAddr = m.byAddr /\ r.llvm = m.llvm
               /\ r.next = IF \/ above = {} \/ Min(above) < at
                              \/ (m.next > at /\ m.next < Min(above))
                           THEN m.next ELSE Min(above)
<1> DEFINE nfa == Min(AtOrAbove(m, next))
           n   == [m EXCEPT !.next = nfa]
           r   == UpdateNextFuncAddr(m, next, at)
<1>1. r = IF AtOrAbove(m, next) = {} \/ nfa < at \/ (m.next > at /\ m.next < nfa)
          THEN m ELSE n
  BY DEF UpdateNextFuncAddr
<1> HIDE DEF r, nfa
<1>2. n.byAddr = m.byAddr /\ n.llvm = m.llvm /\ n.next = nfa
  BY DEF MapsOK
<1> HIDE DEF n
<1> QED BY <1>1, <1>2 DEF r, nfa

LEMMA StartEffect ==
    ASSUME NEW m, NEW f, MapsOK(obj, m)
    PROVE  LET r == Start(m, f)
           IN  /\ r.byAddr = m.byAddr /\ r.next = m.next
               /\ DOMAIN r.llvm = DOMAIN m.llvm \cup {f.name}
               /\ \A n \in DOMAIN m.llvm : n # f.name => r.llvm[n] = m.llvm[n]
               /\ r.llvm[f.name] = IF f.name \in DOMAIN m.llvm /\ m.llvm[f.name] # None
                                   THEN m.llvm[f.name] ELSE f.addr
<1> DEFINE c == Create(m, f.name)
           l == [c.llvm EXCEPT ![f.name] = IF @ = None THEN f.addr ELSE @]
           r == Start(m, f)
<1>1. MapsOK(obj, c)
  BY CreateKeeps
<1>2. r = [c EXCEPT !.llvm = l]
  BY DEF Start
<1>3. c.byAddr = m.byAddr /\ c.next = m.next /\ Extends(c, m, f.name)
  BY CreateEffect
<1> HIDE DEF c, r
<1>4. /\ DOMAIN l = DOMAIN m.llvm \cup {f.name}
      /\ \A n \in DOMAIN m.llvm : n # f.name => l[n] = m.llvm[n]
      /\ l[f.name] = IF f.name \in DOMAIN m.llvm /\ m.llvm[f.name] # None
                     THEN m.llvm[f.name] ELSE f.addr
  BY <1>3 DEF Extends
<1> HIDE DEF l
<1>5. r = [byAddr |-> c.byAddr, byName |-> c.byName, llvm |-> l,
           next |-> c.next, made |-> c.made]
  BY <1>1, <1>2 DEF MapsOK
<1>6. r.byAddr = c.byAddr /\ r.next = c.next /\ r.llvm = l
  BY <1>5
<1> QED BY <1>3, <1>4, <1>6 DEF r

\* getByAddr of an address not below at: the function that it makes, and the
\* nearest of it and the next one is the next.
LEMMA GetByAddrEffect ==
    ASSUME NEW m, NEW a \in Nat, NEW at \in Nat, MapsOK(obj, m), a \notin DOMAIN m.byAddr,
           DOMAIN m.byAddr \subseteq Nat, at <= a, DistinctNames(obj), ObjectFile(obj)
    PROVE  LET r == GetByAddr(m, a, at)
           IN  /\ DOMAIN r.byAddr = DOMAIN m.byAddr \cup {a}
               /\ r.byAddr[a].name = NameAt(a)
               /\ \A b \in DOMAIN m.byAddr : r.byAddr[b] = m.byAddr[b]
               /\ Extends(r, m, NameAt(a))
               /\ r.next = IF m.next > at /\ m.next < a THEN m.next ELSE a
<1> DEFINE f == Function(m, NameAt(a), a)
           c == Create(m, NameAt(a))
           d == AddFunc(c, f)
           r == GetByAddr(m, a, at)
<1>1. f.name = NameAt(a) /\ f.addr = a
  BY DEF Function
<1>2. r = UpdateNextFuncAddr(d, a, at)
  BY DEF GetByAddr, Function
<1> HIDE DEF f
<1>3. MapsOK(obj, c) /\ c.byAddr = m.byAddr /\ c.next = m.next /\ Extends(c, m, NameAt(a))
  BY CreateKeeps, CreateEffect
<1> HIDE DEF c
<1>4. MapsOK(obj, d)
  <2>1. f.name \in NamesAt(obj, f.addr)
    BY <1>1, NameAtIsThere
  <2> QED BY <1>3, <2>1, AddFuncKeeps
<1>5. /\ DOMAIN d.byAddr = DOMAIN m.byAddr \cup {a} /\ d.byAddr[a] = f
      /\ \A b \in DOMAIN m.byAddr : d.byAddr[b] = m.byAddr[b]
      /\ d.llvm = c.llvm /\ d.next = m.next
  BY <1>1, <1>3, AddFuncEffect
<1> HIDE DEF d, r
<1>6. AtOrAbove(d, a) # {} /\ Min(AtOrAbove(d, a)) = a
  <2> DEFINE S == AtOrAbove(d, a)
  <2>1. a \in S /\ S \subseteq Nat /\ \A b \in S : a <= b
    BY <1>5 DEF AtOrAbove
  <2> HIDE DEF S
  <2>2. Min(S) \in S /\ Min(S) <= a
    BY <2>1, MinIsLeast
  <2>3. Min(S) \in Nat /\ Min(S) <= a /\ a <= Min(S)
    BY <2>1, <2>2
  <2>4. Min(S) = a
    BY <2>3
  <2> QED BY <2>1, <2>4 DEF S
<1>7. /\ r.byAddr = d.byAddr /\ r.llvm = d.llvm
      /\ r.next = IF \/ AtOrAbove(d, a) = {} \/ Min(AtOrAbove(d, a)) < at
                     \/ (d.next > at /\ d.next < Min(AtOrAbove(d, a)))
                  THEN d.next ELSE Min(AtOrAbove(d, a))
  BY <1>2, <1>4, UpdateEffect
<1>8. r.next = IF m.next > at /\ m.next < a THEN m.next ELSE a
  BY <1>5, <1>6, <1>7
<1>9. Extends(r, m, NameAt(a))
  BY <1>3, <1>5, <1>7 DEF Extends
<1> QED BY <1>1, <1>5, <1>7, <1>8, <1>9 DEF r

\* translate(Function*): the llvm function has its entry, and the next address is
\* that of a function, or as before.
LEMMA TranslateEffect ==
    ASSUME NEW m, NEW f, NEW at \in Nat, MapsOK(obj, m), DOMAIN m.byAddr \subseteq Nat,
           f.addr \in Nat
    PROVE  LET r == Translate(m, f, at)
           IN  /\ r.byAddr = m.byAddr
               /\ DOMAIN r.llvm = DOMAIN m.llvm \cup {f.name}
               /\ \A n \in DOMAIN m.llvm : n # f.name => r.llvm[n] = m.llvm[n]
               /\ r.llvm[f.name] = IF f.name \in DOMAIN m.llvm /\ m.llvm[f.name] # None
                                   THEN m.llvm[f.name] ELSE f.addr
               /\ r.next = m.next \/ r.next \in DOMAIN m.byAddr
               /\ at = f.addr /\ m.next = at =>
                     \A b \in DOMAIN m.byAddr : b > at => at < r.next /\ r.next <= b
<1> DEFINE u == UpdateNextFuncAddr(m, f.addr + 1, at)
           r == Translate(m, f, at)
           S == AtOrAbove(m, f.addr + 1)
<1>1. r = Start(u, f)
  BY DEF Translate
<1>2. /\ MapsOK(obj, u) /\ u.byAddr = m.byAddr /\ u.llvm = m.llvm
      /\ u.next = IF S = {} \/ Min(S) < at \/ (m.next > at /\ m.next < Min(S))
                  THEN m.next ELSE Min(S)
  BY UpdateKeeps, UpdateEffect
<1>3. S \subseteq DOMAIN m.byAddr /\ \A b \in DOMAIN m.byAddr : b > f.addr <=> b \in S
  BY DEF AtOrAbove
<1> HIDE DEF u, r, S
<1>4. S # {} => Min(S) \in S /\ \A b \in S : Min(S) <= b
  BY <1>3, MinIsLeast
<1>5. /\ r.byAddr = m.byAddr /\ r.next = u.next
      /\ DOMAIN r.llvm = DOMAIN m.llvm \cup {f.name}
      /\ \A n \in DOMAIN m.llvm : n # f.name => r.llvm[n] = m.llvm[n]
      /\ r.llvm[f.name] = IF f.name \in DOMAIN m.llvm /\ m.llvm[f.name] # None
                          THEN m.llvm[f.name] ELSE f.addr
  BY <1>1, <1>2, StartEffect
<1>6. r.next = m.next \/ r.next \in DOMAIN m.byAddr
  BY <1>2, <1>3, <1>4, <1>5
<1>7. ASSUME at = f.addr, m.next = at, NEW b \in DOMAIN m.byAddr, b > at
      PROVE  at < r.next /\ r.next <= b
  <2>1. b \in S /\ S # {}
    BY <1>3, <1>7
  <2>2. Min(S) \in S /\ Min(S) <= b /\ Min(S) > at /\ Min(S) \in Nat
    BY <1>3, <1>4, <1>7, <2>1
  <2>3. r.next = Min(S)
    BY <1>2, <1>5, <1>7, <2>1, <2>2
  <2> QED BY <2>2, <2>3
<1> QED BY <1>5, <1>6, <1>7 DEF r

-----------------------------------------------------------------------------
(* The objects whose calls and data words refer to what the walk can find. *)

\* All function symbols at an address have one name.
OneName(o, a) == \A i, j \in FuncsAt(o, a) : o.symbols[i].name = o.symbols[j].name

\* A call reaches a function symbol, or a label ahead in the same function; what
\* is referred to from before has one name.
CallsFound(o) ==
    \A a \in Addr :
        LET c == o.code[a] IN
        /\ c.op = "jal" =>
              \/ FuncsAt(o, c.to) # {}
              \/ a < c.to /\ \A b \in a + 1 .. c.to : FuncsAt(o, b) = {}
        /\ c.op # "plain" /\ a < c.to => OneName(o, c.to)

\* The addresses from the first function symbol on.
TranslatedIn(o) == {a \in Addr : \E b \in 0 .. a : FuncsAt(o, b) # {}}

\* A data word refers to the only symbol at an address that is translated.
DataFound(o) ==
    \A w \in 1 .. Len(o.data) :
        LET i == o.data[w].sym IN
        i # 0 => /\ o.data[w].addend = 0
                 /\ \A j \in 1 .. Len(o.symbols) :
                       o.symbols[j].addr = o.symbols[i].addr => j = i
                 /\ o.symbols[i].addr \in TranslatedIn(o)

GoodObject(o) == DistinctNames(o) /\ CallsFound(o) /\ DataFound(o)

GoodObjects == \A O \in Objects : \A o \in O : GoodObject(o)

-----------------------------------------------------------------------------
(* The inductive invariant.                                                *)

\* The llvm functions: the entry of each is at the address that it is named for,
\* every function found has one, and the next function is one of those found.
LlvmOK(o, m) ==
    /\ \A n \in DOMAIN m.llvm : m.llvm[n] = None \/ n \in NamesAt(o, m.llvm[n])
    /\ \A a \in DOMAIN m.byAddr : m.byAddr[a].name \in DOMAIN m.llvm
    /\ m.next = 0 \/ m.next \in DOMAIN m.byAddr
    /\ DOMAIN m.byAddr \subseteq TranslatedIn(o)

\* There is no function symbol before the k-th symbol.
NoFuncBefore(k) == \A i \in 1 .. Len(symbols) : i < k => ~symbols[i].func

\* The walk has come to the next function symbol, or to the end of the section.
AtBoundary(p) == /\ sym <= Len(symbols) => symbols[sym].func
                 /\ p = IF sym <= Len(symbols) THEN symbols[sym].addr ELSE Size

\* The k-th symbol is the function found last, and where the walk goes on.
StartsAt(k) ==
    /\ k < sym /\ symbols[k].func
    /\ func = <<[name |-> SymName(k), addr |-> symbols[k].addr]>>
    /\ \A i \in 1 .. Len(symbols) : k < i /\ i < sym => ~symbols[i].func
    /\ (NoFuncBefore(k) /\ pos = 0) \/ pos = symbols[k].addr

PlaceInv ==
    /\ phase \in {"image", "symbols", "function", "done"}
    /\ pos \in 0 .. Size /\ sym \in 1 .. Len(symbols) + 1 /\ DOMAIN owner = Addr
    /\ addr \in Nat
    /\ phase = "image" => /\ sym = 1 /\ func = << >> /\ pos = 0 /\ addr = 0
                          /\ calls = {}
    /\ phase = "symbols" =>
          IF func = << >> THEN (NoFuncBefore(sym) /\ pos = 0) \/ AtBoundary(pos)
                          ELSE \E k \in 1 .. Len(symbols) : StartsAt(k)
    /\ phase = "function" =>
          /\ func = << >> /\ AtBoundary(end)
          /\ st \in DOMAIN fns.byAddr /\ cur = fns.byAddr[st]
          /\ st <= pos /\ pos <= end
          /\ \A i \in 1 .. Len(symbols) : i < sym /\ symbols[i].func => symbols[i].addr <= st
    /\ phase = "done" => /\ sym = Len(symbols) + 1 /\ func = << >>
                         /\ NoFuncBefore(sym) \/ pos = Size

\* The end of what is translated once the function at hand is done.
Limit == IF phase = "function" THEN end ELSE pos

\* What is found is a function symbol or a label in a function that the walk has
\* come to; the function symbols that the walk has left are found.
KnownInv ==
    /\ \A b \in DOMAIN fns.byAddr : FuncsAt(obj, b) # {} \/ b < Limit
    /\ \A i \in 1 .. Len(symbols) : i < sym /\ symbols[i].func =>
          \/ symbols[i].addr \in DOMAIN fns.byAddr
          \/ func # << >> /\ func[1].addr = symbols[i].addr

\* No function starts between the start of the one that is translated and pos,
\* and the next one is the nearest of those ahead in the range.
NextInv ==
    phase = "function" =>
        \A b \in DOMAIN fns.byAddr :
            /\ ~ (st < b /\ b < pos)
            /\ pos <= b /\ st < b /\ b < end =>
                  pos <= fns.next /\ st < fns.next /\ fns.next <= b

\* Each instruction that is translated is in the function of the nearest address.
OwnerInv ==
    \A a \in TranslatedIn(obj) : a < pos =>
        \E b \in DOMAIN fns.byAddr :
            /\ b <= a /\ owner[a] = fns.byAddr[b].name
            /\ \A c \in DOMAIN fns.byAddr : c <= a => c <= b

\* The functions that the walk has come to have an entry.
Started(b) == IF phase = "function" THEN b <= st ELSE b < pos
EntryInv == \A b \in DOMAIN fns.byAddr : Started(b) => fns.llvm[fns.byAddr[b].name] = b

\* A call names the function at its address, and that name stays.
CallsInv ==
    \A c \in calls : /\ c[1] \in DOMAIN fns.byAddr /\ c[2] = fns.byAddr[c[1]].name
                     /\ c[1] < pos \/ OneName(obj, c[1])

\* The words of the image, and those that wait for the block of their label.
WordInv(w) ==
    LET i == obj.data[w].sym
        a == symbols[i].addr
    IN  IF i = 0 THEN image[w] = <<"raw">>
        ELSE w < word =>
             IF symbols[i].func
             THEN image[w] = <<"func", SymName(i)>> /\ a \in DOMAIN fns.byAddr
             ELSE IF a < pos THEN image[w] = <<"label", a, owner[a]>>
             ELSE a \in DOMAIN pending /\ w \in pending[a].words

Waits(w, a) ==
    LET i == obj.data[w].sym
    IN  /\ w \in DOMAIN obj.data /\ i # 0 /\ ~symbols[i].func
        /\ symbols[i].addr = a /\ pending[a].name = SymName(i)

PendingInv ==
    /\ pending = [a \in DOMAIN pending |-> pending[a]]
    /\ \A a \in DOMAIN pending :
          /\ a \in TranslatedIn(obj) /\ pos <= a
          /\ pending[a] = [name |-> pending[a].name, words |-> pending[a].words]
          /\ pending[a].words # {} /\ \A w \in pending[a].words : Waits(w, a)

DataInv ==
    /\ word \in 1 .. Len(obj.data) + 1 /\ DOMAIN image = DOMAIN obj.data
    /\ phase # "image" => word = Len(obj.data) + 1
    /\ \A w \in DOMAIN image : WordInv(w)
    /\ PendingInv

ModuleInv ==
    /\ FunctionsInv /\ GoodObject(obj) /\ LlvmOK(obj, fns)
    /\ ~failed
    /\ PlaceInv /\ KnownInv /\ NextInv /\ OwnerInv /\ EntryInv /\ CallsInv /\ DataInv

-----------------------------------------------------------------------------
(* Symbols and addresses.                                                  *)

LEMMA AddrFacts ==
    Size \in Nat \ {0} /\ \A a : a \in Addr <=> a \in Nat /\ a < Size
BY ObjectAssumption DEF Addr

LEMMA SymbolFacts ==
    ASSUME ObjectFile(obj)
    PROVE  /\ Len(symbols) \in Nat /\ Len(obj.data) \in Nat
           /\ DOMAIN obj.data = 1 .. Len(obj.data)
           /\ \A i \in 1 .. Len(symbols) :
                 /\ symbols[i].addr \in Nat /\ symbols[i].addr < Size
                 /\ symbols[i].func \in BOOLEAN
           /\ \A i, j \in 1 .. Len(symbols) :
                 i <= j => symbols[i].addr <= symbols[j].addr
           /\ \A a \in Addr : /\ obj.code[a].to \in Addr
                              /\ obj.code[a].op \in {"plain", "jal", "ref"}
           /\ \A w \in 1 .. Len(obj.data) :
                 obj.data[w].sym # 0 => obj.data[w].sym \in 1 .. Len(symbols)
<1> USE DEF symbols
<1>1. /\ obj.symbols \in Seq(Symbol) /\ obj.code \in [Addr -> Op] /\ obj.data \in Seq(Word)
      /\ \A i, j \in 1 .. Len(obj.symbols) :
            i < j => obj.symbols[i].addr <= obj.symbols[j].addr
  BY DEF ObjectFile
<1>2. \A i \in 1 .. Len(obj.symbols) : obj.symbols[i] \in Symbol
  BY <1>1
<1>3. \A i \in 1 .. Len(symbols) :
         /\ symbols[i].addr \in Nat /\ symbols[i].addr < Size
         /\ symbols[i].func \in BOOLEAN
  BY <1>2, AddrFacts DEF Symbol
<1>4. ASSUME NEW a \in Addr
      PROVE  obj.code[a].to \in Addr /\ obj.code[a].op \in {"plain", "jal", "ref"}
  <2>1. obj.code[a] \in Op
    BY <1>1
  <2>2. 0 \in Addr
    BY AddrFacts
  <2> QED BY <2>1, <2>2 DEF Op
<1>5. ASSUME NEW i \in 1 .. Len(symbols), NEW j \in 1 .. Len(symbols), i <= j
      PROVE  symbols[i].addr <= symbols[j].addr
  <2>1. CASE i = j
    BY <1>3, <2>1
  <2>2. CASE i < j
    BY <1>1, <2>2
  <2> QED BY <1>5, <2>1, <2>2
<1>6. ASSUME NEW w \in 1 .. Len(obj.data), obj.data[w].sym # 0
      PROVE  obj.data[w].sym \in 1 .. Len(symbols)
  <2>1. obj.data[w] \in Word
    BY <1>1
  <2>2. obj.data[w].sym \in Nat \ {0}
    BY <1>6, <2>1 DEF Word
  <2>3. obj.data[w].sym <= Len(symbols)
    BY <1>6 DEF ObjectFile
  <2> QED BY <1>1, <2>2, <2>3
<1> QED BY <1>1, <1>3, <1>4, <1>5, <1>6

\* A function symbol at an address, as one of the symbols.
LEMMA SymbolAt ==
    ASSUME NEW b
    PROVE  FuncsAt(obj, b) # {} <=>
              \E i \in 1 .. Len(symbols) : symbols[i].func /\ symbols[i].addr = b
BY DEF FuncsAt, symbols

LEMMA TranslatedFacts ==
    ASSUME ObjectFile(obj)
    PROVE  /\ TranslatedIn(obj) \subseteq Addr
           /\ \A a \in TranslatedIn(obj), b \in Addr : a <= b => b \in TranslatedIn(obj)
           /\ \A a \in TranslatedIn(obj) :
                 \E i \in 1 .. Len(symbols) : symbols[i].func /\ symbols[i].addr <= a
           /\ \A i \in 1 .. Len(symbols), a \in Addr :
                 symbols[i].func /\ symbols[i].addr <= a => a \in TranslatedIn(obj)
<1>1. TranslatedIn(obj) \subseteq Addr
  BY DEF TranslatedIn
<1>2. ASSUME NEW a \in TranslatedIn(obj), NEW b \in Addr, a <= b
      PROVE  b \in TranslatedIn(obj)
  BY <1>2, AddrFacts DEF TranslatedIn
<1>3. ASSUME NEW a \in TranslatedIn(obj)
      PROVE  \E i \in 1 .. Len(symbols) : symbols[i].func /\ symbols[i].addr <= a
  <2>1. PICK b \in 0 .. a : FuncsAt(obj, b) # {}
    BY DEF TranslatedIn
  <2> QED BY <2>1, SymbolAt, <1>1, AddrFacts
<1>4. ASSUME NEW i \in 1 .. Len(symbols), NEW a \in Addr,
             symbols[i].func, symbols[i].addr <= a
      PROVE  a \in TranslatedIn(obj)
  <2>1. FuncsAt(obj, symbols[i].addr) # {}
    BY <1>4, SymbolAt
  <2>2. symbols[i].addr \in 0 .. a
    BY <1>4, SymbolFacts, AddrFacts
  <2> QED BY <2>1, <2>2 DEF TranslatedIn
<1> QED BY <1>1, <1>2, <1>3, <1>4

\* The properties speak of the same addresses.
LEMMA TranslatedSame ==
    ASSUME ObjectFile(obj)
    PROVE  Translated = TranslatedIn(obj)
<1>1. \A a \in Addr : a \in Translated <=>
         \E i \in 1 .. Len(symbols) : symbols[i].func /\ symbols[i].addr <= a
  BY DEF Translated
<1> QED BY <1>1, TranslatedFacts DEF Translated

-----------------------------------------------------------------------------
(* The operations on the llvm functions.                                   *)

\* The entry of a function of that name is not elsewhere.
LEMMA EntryOfName ==
    ASSUME NEW m, NEW n, NEW a, DistinctNames(obj), LlvmOK(obj, m), n \in NamesAt(obj, a)
    PROVE  n \in DOMAIN m.llvm => m.llvm[n] \in {None, a}
BY NamesApart DEF LlvmOK

LEMMA GetByAddrLlvm ==
    ASSUME NEW m, NEW a \in TranslatedIn(obj), NEW at \in Nat, MapsOK(obj, m),
           LlvmOK(obj, m), at <= a, DistinctNames(obj), ObjectFile(obj)
    PROVE  LlvmOK(obj, GetByAddr(m, a, at))
<1> DEFINE r == GetByAddr(m, a, at)
<1>1. CASE a \in DOMAIN m.byAddr
  BY <1>1 DEF GetByAddr
<1>2. CASE a \notin DOMAIN m.byAddr
  <2>1. a \in Nat /\ DOMAIN m.byAddr \subseteq Nat
    BY TranslatedFacts, AddrFacts DEF LlvmOK
  <2>2. /\ DOMAIN r.byAddr = DOMAIN m.byAddr \cup {a}
        /\ r.byAddr[a].name = NameAt(a)
        /\ \A b \in DOMAIN m.byAddr : r.byAddr[b] = m.byAddr[b]
        /\ Extends(r, m, NameAt(a))
        /\ r.next = IF m.next > at /\ m.next < a THEN m.next ELSE a
    BY <1>2, <2>1, GetByAddrEffect
  <2> HIDE DEF r
  <2>3. \A n \in DOMAIN r.llvm : r.llvm[n] = None \/ n \in NamesAt(obj, r.llvm[n])
    BY <2>2 DEF Extends, LlvmOK
  <2>4. \A b \in DOMAIN r.byAddr : r.byAddr[b].name \in DOMAIN r.llvm
    BY <2>2 DEF Extends, LlvmOK
  <2>5. r.next = 0 \/ r.next \in DOMAIN r.byAddr
    BY <2>2 DEF LlvmOK
  <2>6. LlvmOK(obj, r)
    BY <2>2, <2>3, <2>4, <2>5 DEF LlvmOK
  <2> QED BY <2>6 DEF r
<1> QED BY <1>1, <1>2

\* The function that is started gets its entry, whatever was known of its name.
LEMMA TranslateLlvm ==
    ASSUME NEW m, NEW f, NEW at \in Nat, MapsOK(obj, m), LlvmOK(obj, m), DistinctNames(obj),
           ObjectFile(obj), f.addr \in Nat, f.name \in NamesAt(obj, f.addr)
    PROVE  LET r == Translate(m, f, at)
           IN  LlvmOK(obj, r) /\ r.llvm[f.name] = f.addr
<1> DEFINE r == Translate(m, f, at)
<1>1. DOMAIN m.byAddr \subseteq Nat
  BY TranslatedFacts, AddrFacts DEF LlvmOK
<1>2. /\ r.byAddr = m.byAddr
      /\ DOMAIN r.llvm = DOMAIN m.llvm \cup {f.name}
      /\ \A n \in DOMAIN m.llvm : n # f.name => r.llvm[n] = m.llvm[n]
      /\ r.llvm[f.name] = IF f.name \in DOMAIN m.llvm /\ m.llvm[f.name] # None
                          THEN m.llvm[f.name] ELSE f.addr
      /\ r.next = m.next \/ r.next \in DOMAIN m.byAddr
  BY <1>1, TranslateEffect
<1> HIDE DEF r
<1>3. f.name \in DOMAIN m.llvm => m.llvm[f.name] \in {None, f.addr}
  BY EntryOfName
<1>4. r.llvm[f.name] = f.addr
  BY <1>2, <1>3
<1>5. ASSUME NEW n \in DOMAIN r.llvm
      PROVE  r.llvm[n] = None \/ n \in NamesAt(obj, r.llvm[n])
  BY <1>2, <1>4 DEF LlvmOK
<1>6. LlvmOK(obj, r)
  BY <1>2, <1>5 DEF LlvmOK
<1> QED BY <1>4, <1>6 DEF r

-----------------------------------------------------------------------------
(* The steps that build the image.                                         *)

LEMMA InitModule ==
    ASSUME GoodObjects, Init
    PROVE  ModuleInv
<1>1. ObjectFile(obj) /\ GoodObject(obj) /\ NamedObjects
  BY ObjectAssumption DEF Init, GoodObjects, GoodObject, NamedObjects
<1>2. FunctionsInv
  BY <1>1, InitFunctions
<1>3. DOMAIN << >> = {}
  OBVIOUS
<1>4. /\ fns.byAddr = << >> /\ fns.llvm = << >> /\ fns.next = 0
      /\ phase = "image" /\ ~failed /\ word = 1 /\ pending = << >> /\ sym = 1
      /\ func = << >> /\ pos = 0 /\ addr = 0 /\ calls = {} /\ DOMAIN owner = Addr
      /\ image = [w \in DOMAIN obj.data |-> <<"raw">>]
  BY DEF Init, Functions
<1>5. LlvmOK(obj, fns)
  BY <1>3, <1>4 DEF LlvmOK
<1>6. PlaceInv
  BY <1>1, <1>4, SymbolFacts, AddrFacts DEF PlaceInv
<1>7. KnownInv
  BY <1>1, <1>3, <1>4, SymbolFacts DEF KnownInv
<1>8. NextInv /\ EntryInv /\ CallsInv
  BY <1>3, <1>4 DEF NextInv, EntryInv, CallsInv
<1>9. OwnerInv
  BY <1>1, <1>4, TranslatedFacts, AddrFacts DEF OwnerInv
<1>10. DataInv
  <2>1. \A w \in DOMAIN image : WordInv(w)
    BY <1>1, <1>4, SymbolFacts DEF WordInv
  <2>2. PendingInv
    BY <1>3, <1>4 DEF PendingInv
  <2> QED BY <1>1, <1>4, <2>1, <2>2, SymbolFacts DEF DataInv
<1> QED BY <1>1, <1>2, <1>4, <1>5, <1>6, <1>7, <1>8, <1>9, <1>10 DEF ModuleInv

\* What a step that leaves the functions and the walk alone keeps.
LEMMA WalkKept ==
    ASSUME ModuleInv, UNCHANGED <<obj, phase, failed, walk, fns>>, DataInv'
    PROVE  ModuleInv'
<1>1. FunctionsInv' /\ GoodObject(obj)' /\ LlvmOK(obj, fns)' /\ ~failed'
  BY DEF ModuleInv, FunctionsInv, walk
<1>2. PlaceInv'
  BY DEF ModuleInv, PlaceInv, walk, NoFuncBefore, AtBoundary, StartsAt, SymName, symbols
<1>3. KnownInv' /\ NextInv' /\ OwnerInv' /\ EntryInv' /\ CallsInv'
  BY DEF ModuleInv, KnownInv, NextInv, OwnerInv, EntryInv, CallsInv, walk, Limit, Started,
     symbols
<1> QED BY <1>1, <1>2, <1>3 DEF ModuleInv

LEMMA CopyWordModule ==
    ASSUME ModuleInv, CopyWord
    PROVE  ModuleInv'
<1>1. /\ UNCHANGED <<obj, phase, failed, image, pending, fns, pos, owner>>
      /\ phase = "image" /\ word <= Len(obj.data) /\ obj.data[word].sym = 0
      /\ word' = word + 1
  BY DEF CopyWord, walk
<1>2. word \in Nat /\ DataInv /\ ObjectFile(obj)
  BY DEF ModuleInv, DataInv, FunctionsInv
<1>3. ASSUME NEW w \in DOMAIN image
      PROVE  WordInv(w)'
  <2>0. w \in 1 .. Len(obj.data)
    BY <1>2, SymbolFacts DEF DataInv
  <2>1. WordInv(w)
    BY <1>2 DEF DataInv
  <2>2. obj.data[w].sym # 0 /\ w < word' => w < word
    BY <1>1, <1>2, <2>0
  <2> QED BY <1>1, <1>2, <2>1, <2>2 DEF WordInv, symbols, SymName
<1>4. PendingInv'
  BY <1>1, <1>2 DEF DataInv, PendingInv, Waits, symbols, SymName
<1>5. DataInv'
  BY <1>1, <1>2, <1>3, <1>4, SymbolFacts DEF DataInv
<1> QED BY <1>5, WalkKept DEF CopyWord

\* The word of a function symbol: the function at its address has its name.
LEMMA RelocateFunctionModule ==
    ASSUME ModuleInv, phase = "image", NEW i, i = obj.data[word].sym, i # 0,
           word <= Len(obj.data), RelocateFunction(i, symbols[i].addr + obj.data[word].addend),
           word' = word + 1, UNCHANGED <<obj, phase, walk>>, FunctionsInv'
    PROVE  ModuleInv'
<1> DEFINE a == symbols[i].addr
<1>1. /\ word \in 1 .. Len(obj.data) /\ ObjectFile(obj) /\ GoodObject(obj) /\ DataInv
      /\ MapsOK(obj, fns) /\ LlvmOK(obj, fns) /\ DistinctNames(obj)
  BY SymbolFacts DEF ModuleInv, FunctionsInv, DataInv
<1>2. /\ i \in 1 .. Len(symbols) /\ obj.data[word].addend = 0 /\ a \in TranslatedIn(obj)
      /\ \A j \in 1 .. Len(symbols) : symbols[j].addr = a => j = i
  <2>1. i \in 1 .. Len(symbols)
    BY <1>1, SymbolFacts
  <2> QED BY <1>1, <2>1 DEF GoodObject, DataFound, symbols
<1>3. a \in Nat /\ a + obj.data[word].addend = a
  BY <1>1, <1>2, SymbolFacts
<1>4. /\ IsFunction(fns, a) /\ fns' = GetByAddr(fns, a, addr)
      /\ IF SymName(i) \in DOMAIN fns'.llvm
         THEN image' = [image EXCEPT ![word] = <<"func", SymName(i)>>] /\ UNCHANGED failed
         ELSE failed' = TRUE
      /\ UNCHANGED pending
  BY <1>3 DEF RelocateFunction
<1>5. /\ UNCHANGED <<obj, phase, pos, sym, func, owner, addr, calls>>
      /\ pos = 0 /\ addr = 0 /\ sym = 1 /\ func = << >> /\ calls = {} /\ phase = "image"
  BY DEF walk, ModuleInv, PlaceInv
<1>6. symbols[i].func
  <2>1. FuncsAt(obj, a) # {}
    <3>1. a \in DOMAIN fns.byAddr => FuncsAt(obj, a) # {} \/ a < pos
      BY <1>5 DEF ModuleInv, KnownInv, Limit
    <3>2. FuncSymbols(a) = FuncsAt(obj, a)
      BY DEF FuncSymbols, FuncsAt, symbols
    <3> QED BY <1>3, <1>4, <1>5, <3>1, <3>2, SMTT(60) DEF IsFunction
  <2> QED BY <1>2, <2>1, SymbolAt
<1>7. LlvmOK(obj, fns')
  BY <1>1, <1>2, <1>3, <1>4, <1>5, GetByAddrLlvm, SMTT(60)
<1>8. a \in DOMAIN fns'.byAddr /\ DOMAIN fns'.byAddr = DOMAIN fns.byAddr \cup {a}
  <2>1. CASE a \in DOMAIN fns.byAddr
    BY <1>4, <2>1 DEF GetByAddr
  <2>2. CASE a \notin DOMAIN fns.byAddr
    <3>1. DOMAIN fns.byAddr \subseteq Nat
      BY <1>1, TranslatedFacts, AddrFacts DEF LlvmOK
    <3>2. addr \in Nat /\ addr <= a
      BY <1>3, <1>5
    <3>3. \A b : b = GetByAddr(fns, a, addr) =>
                    DOMAIN b.byAddr = DOMAIN fns.byAddr \cup {a}
      BY <1>1, <1>3, <2>2, <3>1, <3>2, GetByAddrEffect, SMTT(60)
    <3> QED BY <1>4, <3>3
  <2> QED BY <2>1, <2>2
<1>9. fns'.byAddr[a].name = SymName(i)
  <2>1. fns'.byAddr[a].name \in NamesAt(obj, a)
    BY <1>5, <1>8 DEF FunctionsInv, MapsOK
  <2>2. FuncsAt(obj, a) = {i}
    BY <1>2, <1>6 DEF FuncsAt, symbols
  <2> QED BY <2>1, <2>2 DEF NamesAt, SymName, symbols
<1>10. ~failed' /\ image' = [image EXCEPT ![word] = <<"func", SymName(i)>>]
  <2>1. SymName(i) \in DOMAIN fns'.llvm
    BY <1>7, <1>8, <1>9 DEF LlvmOK
  <2> QED BY <1>4, <2>1 DEF ModuleInv
<1>11. PlaceInv'
  BY <1>5 DEF ModuleInv, PlaceInv, symbols
<1>12. KnownInv'
  <2>1. FuncsAt(obj, a) # {}
    BY <1>2, <1>6, SymbolAt
  <2> QED BY <1>1, <1>5, <1>8, <2>1, SymbolFacts DEF ModuleInv, KnownInv, Limit, symbols
<1>13. NextInv' /\ OwnerInv' /\ EntryInv' /\ CallsInv'
  <2>1. DOMAIN fns'.byAddr \subseteq Nat /\ TranslatedIn(obj) \subseteq Nat
    BY <1>1, <1>7, TranslatedFacts, AddrFacts DEF LlvmOK
  <2> QED BY <1>5, <2>1 DEF NextInv, OwnerInv, EntryInv, CallsInv, Started
<1>14. ASSUME NEW w \in DOMAIN image'
       PROVE  WordInv(w)'
  <2>1. w \in 1 .. Len(obj.data) /\ WordInv(w) /\ word \in DOMAIN image
    BY <1>1, <1>10, <1>14, SymbolFacts DEF DataInv
  <2>2. CASE w = word
    BY <1>2, <1>5, <1>6, <1>8, <1>10, <2>1, <2>2 DEF WordInv, symbols, SymName
  <2>3. CASE w # word
    <3>1. image'[w] = image[w] /\ (w < word' => w < word)
      BY <1>1, <1>10, <2>1, <2>3
    <3> QED BY <1>4, <1>5, <1>8, <2>1, <3>1 DEF WordInv, symbols, SymName
  <2> QED BY <2>2, <2>3
<1>15. PendingInv'
  <2>1. PendingInv /\ pending' = pending /\ pos' = pos /\ obj' = obj
    BY <1>1, <1>4, <1>5 DEF DataInv
  <2> QED BY <2>1, SMTT(60) DEF PendingInv, Waits, symbols, SymName
<1>16. DataInv'
  BY <1>1, <1>5, <1>10, <1>14, <1>15, SymbolFacts DEF DataInv
<1> QED BY <1>1, <1>5, <1>7, <1>10, <1>11, <1>12, <1>13, <1>16 DEF ModuleInv

\* The word of a label waits for the block at its address, under its only name.
LEMMA RelocateLabelModule ==
    ASSUME ModuleInv, phase = "image", NEW i, i = obj.data[word].sym, i # 0,
           NEW a, a = symbols[i].addr,
           word <= Len(obj.data), RelocateLabel(i, a + obj.data[word].addend),
           word' = word + 1, UNCHANGED <<obj, phase, walk>>
    PROVE  ModuleInv'
<1> DEFINE waiting == IF a \in DOMAIN pending THEN pending[a].words ELSE {}
<1>1. word \in 1 .. Len(obj.data) /\ ObjectFile(obj) /\ GoodObject(obj) /\ DataInv /\ PendingInv
  BY SymbolFacts DEF ModuleInv, FunctionsInv, DataInv
<1>2. i \in 1 .. Len(symbols)
  BY <1>1, SymbolFacts
<1>3. /\ obj.data[word].addend = 0 /\ a \in TranslatedIn(obj)
      /\ \A j \in 1 .. Len(symbols) : symbols[j].addr = a => j = i
  BY <1>1, <1>2 DEF GoodObject, DataFound, symbols
<1>4. a \in Nat /\ a + obj.data[word].addend = a
  BY <1>1, <1>2, <1>3, SymbolFacts
<1>5. /\ ~IsFunction(fns, a) /\ fns' = fns
      /\ image' = [image EXCEPT ![word] = <<"placeholder">>]
  BY <1>4 DEF RelocateLabel
<1>6. /\ UNCHANGED <<obj, phase, pos, sym, func, owner, addr, calls>>
      /\ pos = 0 /\ phase = "image"
  BY DEF walk, ModuleInv, PlaceInv
<1>7. ~symbols[i].func
  <2>1. symbols[i].func => i \in FuncSymbols(a)
    BY <1>2 DEF FuncSymbols
  <2> QED BY <1>5, <2>1 DEF IsFunction
<1>8. a \in DOMAIN pending => pending[a].name = SymName(i)
  <2> SUFFICES ASSUME a \in DOMAIN pending PROVE pending[a].name = SymName(i)
    OBVIOUS
  <2>1. PICK w \in pending[a].words : Waits(w, a)
    BY <1>1 DEF PendingInv
  <2>2. obj.data[w].sym \in 1 .. Len(symbols)
    BY <1>1, <2>1, SymbolFacts DEF Waits
  <2> QED BY <1>3, <2>1, <2>2 DEF Waits
<1>9. /\ a \notin DOMAIN pending =>
            pending' = Upsert(pending, a, [name |-> SymName(i), words |-> {word}])
      /\ a \in DOMAIN pending => pending' = [pending EXCEPT ![a].words = @ \cup {word}]
      /\ failed' = failed
  BY <1>4, <1>8 DEF RelocateLabel
<1>10. /\ DOMAIN pending' = DOMAIN pending \cup {a}
       /\ pending'[a] = [name |-> SymName(i), words |-> waiting \cup {word}]
       /\ \A b \in DOMAIN pending : b # a => pending'[b] = pending[b]
  <2>1. CASE a \notin DOMAIN pending
    <3>1. waiting \cup {word} = {word}
      BY <2>1
    <3> QED BY <1>9, <2>1, <3>1 DEF Upsert
  <2>2. CASE a \in DOMAIN pending
    <3> DEFINE n == pending[a].name
    <3>1. waiting = pending[a].words
      BY <2>2
    <3>4. n = SymName(i)
      BY <1>8, <2>2
    <3>5. pending[a] = [name |-> n, words |-> waiting]
      BY <1>1, <2>2, <3>1 DEF PendingInv
    <3> HIDE DEF waiting, n
    <3>2. pending' = [pending EXCEPT ![a].words = @ \cup {word}]
      BY <1>9, <2>2
    <3>3. pending' = [pending EXCEPT
                         ![a] = [[name |-> n, words |-> waiting]
                                    EXCEPT !.words = waiting \cup {word}]]
      BY <3>1, <3>2, <3>5
    <3>6. pending'[a] = [name |-> n, words |-> waiting \cup {word}]
      BY <2>2, <3>3
    <3> QED BY <2>2, <3>2, <3>4, <3>6
  <2> QED BY <2>1, <2>2
<1>11. waiting = {} \/ (a \in DOMAIN pending /\ waiting = pending[a].words)
  OBVIOUS
<1> HIDE DEF waiting
<1>12. \A w, b : b \in DOMAIN pending /\ w \in pending[b].words =>
                  b \in DOMAIN pending' /\ w \in pending'[b].words
  BY <1>10, SMTT(60) DEF waiting
<1>13. ASSUME NEW w \in DOMAIN image'
       PROVE  WordInv(w)'
  <2>1. w \in 1 .. Len(obj.data) /\ WordInv(w) /\ word \in DOMAIN image
    BY <1>1, <1>5, SymbolFacts DEF DataInv
  <2>2. CASE w = word
    <3>1. ~ (a < pos) /\ a \in DOMAIN pending' /\ w \in pending'[a].words
      BY <1>4, <1>6, <1>10, <2>2, SMTT(60)
    <3> QED BY <1>6, <1>7, <2>2, <3>1 DEF WordInv, symbols
  <2>3. CASE w # word
    <3>1. image'[w] = image[w] /\ (w < word' => w < word)
      BY <1>1, <1>5, <2>1, <2>3
    <3> QED BY <1>5, <1>6, <1>12, <2>1, <3>1 DEF WordInv, symbols, SymName
  <2> QED BY <2>2, <2>3
<1>14. ASSUME NEW w, NEW b, Waits(w, b), pending'[b].name = pending[b].name
       PROVE  Waits(w, b)'
  BY <1>6, <1>14 DEF Waits, symbols, SymName
<1>15. ASSUME NEW b \in DOMAIN pending'
       PROVE  /\ b \in TranslatedIn(obj) /\ pos <= b
              /\ pending'[b] = [name |-> pending'[b].name, words |-> pending'[b].words]
              /\ pending'[b].words # {} /\ \A w \in pending'[b].words : Waits(w, b)'
  <2>1. CASE b # a
    BY <1>1, <1>10, <1>14, <2>1 DEF PendingInv
  <2>2. CASE b = a
    <3>1. ASSUME NEW w, w = word PROVE Waits(w, a)'
      <4>1. w \in DOMAIN obj.data /\ obj.data[w].sym = i
        BY <1>1, <3>1, SymbolFacts
      <4>2. pending'[a].name = SymName(i)
        BY <1>10, SMTT(20)
      <4> QED BY <1>6, <1>7, <4>1, <4>2 DEF Waits, symbols, SymName
    <3>2. ASSUME NEW w, w \in waiting PROVE Waits(w, a)'
      <4>1. a \in DOMAIN pending /\ w \in pending[a].words
        BY <1>11, <3>2
      <4>2. Waits(w, a) /\ pending'[a].name = pending[a].name
        BY <1>1, <1>8, <1>10, <4>1, SMTT(60) DEF PendingInv
      <4> QED BY <1>14, <4>2
    <3>3. /\ pending'[a] = [name |-> pending'[a].name, words |-> pending'[a].words]
          /\ pending'[a].words = waiting \cup {word}
      BY <1>10
    <3>4. pending'[a].words # {} /\ \A w \in pending'[a].words : Waits(w, a)'
      BY <3>1, <3>2, <3>3
    <3>5. a \in TranslatedIn(obj) /\ pos <= a
      BY <1>3, <1>4, <1>6
    <3> QED BY <2>2, <3>3, <3>4, <3>5
  <2> QED BY <2>1, <2>2
<1>16. PendingInv'
  <2>1. pending' = [b \in DOMAIN pending' |-> pending'[b]]
    BY <1>9 DEF Upsert
  <2> QED BY <1>6, <1>15, <2>1 DEF PendingInv
<1>17. DOMAIN image' = DOMAIN image /\ word' \in 1 .. Len(obj.data) + 1
  BY <1>1, <1>5, SymbolFacts
<1>18. DataInv'
  BY <1>1, <1>6, <1>13, <1>16, <1>17 DEF DataInv
<1> QED BY <1>5, <1>9, <1>18, WalkKept

LEMMA RelocateWordModule ==
    ASSUME ModuleInv, RelocateWord, FunctionsInv'
    PROVE  ModuleInv'
<1> DEFINE i == obj.data[word].sym
           a == symbols[i].addr + obj.data[word].addend
<1>1. /\ phase = "image" /\ word <= Len(obj.data) /\ i # 0
      /\ RelocateFunction(i, a) \/ RelocateLabel(i, a)
      /\ word' = word + 1 /\ UNCHANGED <<obj, phase, walk>>
  BY DEF RelocateWord
<1> QED BY <1>1, RelocateFunctionModule, RelocateLabelModule

-----------------------------------------------------------------------------
(* The steps from symbol to symbol.                                        *)

\* What a step that leaves the functions, the image and the code alone keeps.
LEMMA ImageKept ==
    ASSUME ModuleInv, UNCHANGED <<obj, failed, word, image, pending, fns, pos, owner, calls>>,
           phase # "image" \/ word = Len(obj.data) + 1, FunctionsInv'
    PROVE  /\ FunctionsInv' /\ GoodObject(obj') /\ LlvmOK(obj, fns)' /\ ~failed'
           /\ OwnerInv' /\ CallsInv' /\ DataInv'
<1>1. GoodObject(obj') /\ LlvmOK(obj, fns)' /\ ~failed'
  BY DEF ModuleInv
<1>2. OwnerInv' /\ CallsInv'
  BY DEF ModuleInv, OwnerInv, CallsInv
<1>3. \A w \in DOMAIN image : WordInv(w)'
  BY DEF ModuleInv, DataInv, WordInv, symbols, SymName
<1>4. PendingInv'
  BY DEF ModuleInv, DataInv, PendingInv, Waits, symbols, SymName
<1>5. DataInv'
  BY <1>3, <1>4 DEF ModuleInv, DataInv
<1> QED BY <1>1, <1>2, <1>5

LEMMA ImageBuiltModule ==
    ASSUME ModuleInv, ImageBuilt, FunctionsInv'
    PROVE  ModuleInv'
<1>1. /\ UNCHANGED <<obj, failed, word, image, pending, fns, pos, owner, calls, sym, func, addr>>
      /\ phase = "image" /\ phase' = "symbols" /\ word = Len(obj.data) + 1
  BY SymbolFacts DEF ImageBuilt, walk, ModuleInv, DataInv, FunctionsInv
<1>2. sym = 1 /\ func = << >> /\ pos = 0
  BY <1>1 DEF ModuleInv, PlaceInv
<1>3. PlaceInv'
  <2>1. NoFuncBefore(sym)'
    BY <1>1, <1>2, SymbolFacts DEF NoFuncBefore, symbols, ModuleInv, FunctionsInv
  <2> QED BY <1>1, <1>2, <2>1 DEF ModuleInv, PlaceInv, symbols
<1>4. KnownInv' /\ NextInv' /\ EntryInv'
  BY <1>1 DEF ModuleInv, KnownInv, NextInv, EntryInv, Limit, Started, symbols
<1> QED BY <1>1, <1>3, <1>4, ImageKept DEF ModuleInv

LEMMA SkipSymbolModule ==
    ASSUME ModuleInv, SkipSymbol, FunctionsInv'
    PROVE  ModuleInv'
<1>1. /\ UNCHANGED <<obj, phase, failed, word, image, pending, fns, pos, owner, calls, func, addr>>
      /\ phase = "symbols" /\ sym' = sym + 1 /\ sym <= Len(symbols) /\ ~symbols[sym].func
  BY DEF SkipSymbol
<1>2. PlaceInv /\ KnownInv /\ sym \in Nat /\ Len(symbols) \in Nat /\ symbols' = symbols
  BY <1>1, SymbolFacts DEF ModuleInv, PlaceInv, FunctionsInv, symbols
<1>3. \A i \in 1 .. Len(symbols) : i < sym' => i < sym \/ i = sym
  BY <1>1, <1>2
<1>4. NoFuncBefore(sym) => NoFuncBefore(sym)'
  BY <1>1, <1>2, <1>3 DEF NoFuncBefore
<1>5. ASSUME NEW k \in 1 .. Len(symbols), StartsAt(k)
      PROVE  StartsAt(k)'
  BY <1>1, <1>2, <1>3, <1>5 DEF StartsAt, NoFuncBefore, SymName
<1>6. PlaceInv'
  <2>1. IF func = << >> THEN NoFuncBefore(sym) /\ pos = 0
                        ELSE \E k \in 1 .. Len(symbols) : StartsAt(k)
    BY <1>1, <1>2 DEF PlaceInv, AtBoundary
  <2>2. pos \in 0 .. Size /\ sym' \in 1 .. Len(symbols) + 1 /\ DOMAIN owner = Addr /\ addr \in Nat
    BY <1>1, <1>2 DEF PlaceInv
  <2> QED BY <1>1, <1>2, <1>4, <1>5, <2>1, <2>2 DEF PlaceInv
<1>7. KnownInv'
  BY <1>1, <1>2, <1>3 DEF KnownInv, Limit
<1>8. NextInv' /\ EntryInv'
  BY <1>1 DEF ModuleInv, NextInv, EntryInv, Started
<1> QED BY <1>1, <1>6, <1>7, <1>8, ImageKept DEF ModuleInv

LEMMA FunctionStartModule ==
    ASSUME ModuleInv, FunctionStart, FunctionsInv'
    PROVE  ModuleInv'
<1>1. /\ UNCHANGED <<obj, phase, failed, word, image, pending, fns, pos, owner, calls, addr>>
      /\ phase = "symbols" /\ sym' = sym + 1 /\ sym <= Len(symbols) /\ symbols[sym].func
      /\ func = << >> /\ func' = <<[name |-> SymName(sym), addr |-> symbols[sym].addr]>>
  BY DEF FunctionStart
<1>2. PlaceInv /\ KnownInv /\ sym \in Nat /\ Len(symbols) \in Nat /\ symbols' = symbols
  BY <1>1, SymbolFacts DEF ModuleInv, PlaceInv, FunctionsInv, symbols
<1>3. \A i \in 1 .. Len(symbols) : i < sym' => i < sym \/ i = sym
  BY <1>1, <1>2
<1>4. ASSUME NEW k, k = sym
      PROVE  k \in 1 .. Len(symbols) /\ StartsAt(k)'
  <2>1. k \in 1 .. Len(symbols) /\ k < sym'
    BY <1>1, <1>2, <1>4 DEF PlaceInv
  <2>2. (NoFuncBefore(k) /\ pos = 0) \/ pos = symbols[k].addr
    BY <1>1, <1>2, <1>4 DEF PlaceInv, AtBoundary
  <2>3. \A i \in 1 .. Len(symbols) : ~ (k < i /\ i < sym')
    BY <1>1, <1>2, <1>4
  <2>4. func' = <<[name |-> SymName(k), addr |-> symbols[k].addr]>> /\ symbols[k].func
    BY <1>1, <1>4
  <2> QED BY <1>1, <1>2, <2>1, <2>2, <2>3, <2>4 DEF StartsAt, NoFuncBefore, SymName
<1>5. PlaceInv'
  <2>1. pos \in 0 .. Size /\ sym' \in 1 .. Len(symbols) + 1 /\ DOMAIN owner = Addr /\ addr \in Nat
    BY <1>1, <1>2 DEF PlaceInv
  <2>2. func' # << >>
    BY <1>1
  <2>3. \E k \in 1 .. Len(symbols) : StartsAt(k)'
    BY <1>4
  <2> QED BY <1>1, <1>2, <2>1, <2>2, <2>3 DEF PlaceInv
<1>6. KnownInv'
  <2>1. func' # << >> /\ func'[1].addr = symbols[sym].addr
    BY <1>1
  <2> QED BY <1>1, <1>2, <1>3, <2>1 DEF KnownInv, Limit
<1>7. NextInv' /\ EntryInv'
  BY <1>1 DEF ModuleInv, NextInv, EntryInv, Started
<1> QED BY <1>1, <1>5, <1>6, <1>7, ImageKept DEF ModuleInv

LEMMA SymbolsDoneModule ==
    ASSUME ModuleInv, SymbolsDone, FunctionsInv'
    PROVE  ModuleInv'
<1>1. /\ UNCHANGED <<obj, failed, word, image, pending, fns, pos, owner, calls, sym, func, addr>>
      /\ phase = "symbols" /\ phase' = "done" /\ func = << >> /\ sym > Len(symbols)
  BY DEF SymbolsDone, walk
<1>2. PlaceInv /\ sym \in Nat /\ Len(symbols) \in Nat /\ symbols' = symbols
  BY <1>1, SymbolFacts DEF ModuleInv, PlaceInv, FunctionsInv, symbols
<1>3. sym = Len(symbols) + 1 /\ (NoFuncBefore(sym) \/ pos = Size)
  BY <1>1, <1>2 DEF PlaceInv, AtBoundary
<1>4. PlaceInv'
  BY <1>1, <1>2, <1>3 DEF PlaceInv, NoFuncBefore
<1>5. KnownInv' /\ NextInv' /\ EntryInv'
  BY <1>1, <1>2 DEF ModuleInv, KnownInv, NextInv, EntryInv, Limit, Started
<1> QED BY <1>1, <1>4, <1>5, ImageKept DEF ModuleInv

\* The end of a function: all that starts before it has been come to.
LEMMA FunctionDoneModule ==
    ASSUME ModuleInv, FunctionDone, FunctionsInv'
    PROVE  ModuleInv'
<1>1. /\ UNCHANGED <<obj, failed, word, image, pending, fns, pos, owner, calls, sym, func, addr>>
      /\ phase = "function" /\ phase' = "symbols" /\ pos >= end
  BY DEF FunctionDone, walk
<1>2. PlaceInv /\ KnownInv /\ symbols' = symbols
  BY <1>1 DEF ModuleInv, symbols
<1>3. pos = end /\ func = << >> /\ AtBoundary(end)
  <2>1. pos <= end /\ func = << >> /\ AtBoundary(end)
    BY <1>1, <1>2 DEF PlaceInv
  <2>2. pos \in Int /\ end \in Int
    BY <1>2, <2>1, SymbolFacts, AddrFacts DEF PlaceInv, AtBoundary, ModuleInv, FunctionsInv
  <2> QED BY <1>1, <2>1, <2>2
<1>4. PlaceInv'
  BY <1>1, <1>2, <1>3 DEF PlaceInv, AtBoundary
<1>5. KnownInv'
  BY <1>1, <1>2, <1>3 DEF KnownInv, Limit
<1>6. NextInv'
  BY <1>1 DEF NextInv
<1>7. EntryInv'
  <2>1. ASSUME NEW b \in DOMAIN fns.byAddr, b < pos PROVE b <= st
    <3>1. ~ (st < b) /\ b \in Nat /\ st \in Nat
      BY <1>1, <2>1, TranslatedFacts, AddrFacts
         DEF ModuleInv, NextInv, PlaceInv, LlvmOK, FunctionsInv
    <3> QED BY <3>1
  <2> QED BY <1>1, <2>1 DEF ModuleInv, EntryInv, Started
<1> QED BY <1>1, <1>4, <1>5, <1>6, <1>7, ImageKept DEF ModuleInv

\* The function found last is translated: nothing that was translated before is in
\* its range, and nothing ahead of its start is known but the later symbols.
LEMMA FunctionEndModule ==
    ASSUME ModuleInv, FunctionEnd, FunctionsInv'
    PROVE  ModuleInv'
<1>1. /\ UNCHANGED <<obj, failed, word, image, pending, sym, addr, owner, calls>>
      /\ phase = "symbols" /\ phase' = "function" /\ func # << >> /\ func' = << >>
      /\ sym <= Len(symbols) => symbols[sym].func
      /\ end' = IF sym <= Len(symbols) THEN symbols[sym].addr ELSE Size
  BY DEF FunctionEnd
<1>2. /\ PlaceInv /\ KnownInv /\ OwnerInv /\ EntryInv /\ CallsInv /\ DataInv
      /\ ObjectFile(obj) /\ DistinctNames(obj) /\ MapsOK(obj, fns) /\ LlvmOK(obj, fns)
      /\ GoodObject(obj) /\ symbols' = symbols
  BY <1>1 DEF ModuleInv, FunctionsInv, symbols
<1>3. PICK k \in 1 .. Len(symbols) : StartsAt(k)
  BY <1>1, <1>2 DEF PlaceInv
<1> DEFINE s == symbols[k].addr
           f == Function(fns, SymName(k), s)
           d == AddFunc(fns, f)
<1>4. /\ fns' = Translate(d, f, addr) /\ cur' = f /\ st' = s /\ pos' = s
      /\ f.addr = s /\ f.name = SymName(k)
  BY <1>3 DEF FunctionEnd, StartsAt, Function
<1>5. /\ s \in Nat /\ s < Size /\ pos \in Nat /\ sym \in Nat /\ Len(symbols) \in Nat
      /\ k < sym /\ symbols[k].func /\ addr \in Nat /\ k \in Nat
      /\ sym \in 1 .. Len(symbols) + 1
  BY <1>2, <1>3, AddrFacts, SymbolFacts DEF PlaceInv, StartsAt
<1>6. f.name \in NamesAt(obj, s) /\ FuncsAt(obj, s) # {} /\ s \in TranslatedIn(obj)
  <2>1. k \in FuncsAt(obj, s)
    BY <1>5 DEF FuncsAt, symbols
  <2>2. s \in TranslatedIn(obj)
    BY <1>2, <1>5, TranslatedFacts, AddrFacts
  <2> QED BY <1>4, <2>1, <2>2 DEF NamesAt, SymName, symbols
<1>7. f.addr \in Nat /\ f.name \in NamesAt(obj, f.addr)
  BY <1>4, <1>5, <1>6
<1> HIDE DEF f
<1>8. /\ MapsOK(obj, d)
      /\ DOMAIN d.byAddr = DOMAIN fns.byAddr \cup {s} /\ d.byAddr[s] = f
      /\ \A b \in DOMAIN fns.byAddr : b # s => d.byAddr[b] = fns.byAddr[b]
      /\ d.llvm = fns.llvm /\ d.next = fns.next
  BY <1>2, <1>4, <1>7, AddFuncKeeps, AddFuncEffect
<1> HIDE DEF d
<1>9. /\ DOMAIN fns'.byAddr = DOMAIN fns.byAddr \cup {s} /\ fns'.byAddr[s] = f
      /\ \A b \in DOMAIN fns.byAddr : b # s => fns'.byAddr[b] = fns.byAddr[b]
      /\ DOMAIN fns'.llvm = DOMAIN fns.llvm \cup {f.name}
      /\ \A n \in DOMAIN fns.llvm : n # f.name => fns'.llvm[n] = fns.llvm[n]
      /\ fns'.llvm[f.name] = IF f.name \in DOMAIN fns.llvm /\ fns.llvm[f.name] # None
                             THEN fns.llvm[f.name] ELSE s
      /\ fns'.next = fns.next \/ fns'.next \in DOMAIN fns'.byAddr
  <2>1. DOMAIN d.byAddr \subseteq Nat
    BY <1>2, <1>5, <1>8, TranslatedFacts, AddrFacts DEF LlvmOK
  <2>2. \A r : r = Translate(d, f, addr) =>
           /\ r.byAddr = d.byAddr
           /\ DOMAIN r.llvm = DOMAIN d.llvm \cup {f.name}
           /\ \A n \in DOMAIN d.llvm : n # f.name => r.llvm[n] = d.llvm[n]
           /\ r.llvm[f.name] = IF f.name \in DOMAIN d.llvm /\ d.llvm[f.name] # None
                               THEN d.llvm[f.name] ELSE f.addr
           /\ r.next = d.next \/ r.next \in DOMAIN d.byAddr
    BY <1>5, <1>7, <1>8, <2>1, TranslateEffect
  <2> QED BY <1>4, <1>8, <2>2
<1>10. fns'.llvm[f.name] = s
  BY <1>2, <1>6, <1>9, EntryOfName
<1>11. LlvmOK(obj, fns')
  <2>1. \A n \in DOMAIN fns'.llvm :
           fns'.llvm[n] = None \/ n \in NamesAt(obj, fns'.llvm[n])
    BY <1>2, <1>6, <1>9, <1>10 DEF LlvmOK
  <2>2. \A b \in DOMAIN fns'.byAddr : fns'.byAddr[b].name \in DOMAIN fns'.llvm
    BY <1>2, <1>9 DEF LlvmOK
  <2>3. fns'.next = 0 \/ fns'.next \in DOMAIN fns'.byAddr
    BY <1>2, <1>9 DEF LlvmOK
  <2> QED BY <1>2, <1>6, <1>9, <2>1, <2>2, <2>3 DEF LlvmOK
<1>12. DOMAIN fns.byAddr \subseteq Nat /\ TranslatedIn(obj) \subseteq Nat
       /\ DOMAIN fns.byAddr \subseteq TranslatedIn(obj)
  BY <1>2, TranslatedFacts, AddrFacts DEF LlvmOK
<1>13. pos <= s
  BY <1>3, <1>5 DEF StartsAt
\* What the walk has passed by is before the first function symbol.
<1>14. ASSUME NEW a \in TranslatedIn(obj), pos <= a
       PROVE  s <= a
  <2>1. CASE pos = s
    BY <1>14, <2>1
  <2>2. CASE NoFuncBefore(k)
    <3>1. PICK i \in 1 .. Len(symbols) : symbols[i].func /\ symbols[i].addr <= a
      BY <1>2, TranslatedFacts
    <3>2. ~ (i < k)
      BY <2>2, <3>1 DEF NoFuncBefore
    <3>3. i \in Nat /\ k <= i
      BY <1>5, <3>2
    <3>4. s <= symbols[i].addr /\ symbols[i].addr \in Nat
      BY <1>2, <3>3, SymbolFacts
    <3> QED BY <1>5, <1>12, <3>1, <3>4
  <2> QED BY <1>3, <2>1, <2>2 DEF StartsAt
<1>15. \A i \in 1 .. Len(symbols) : i < sym /\ symbols[i].func => symbols[i].addr <= s
  <2> SUFFICES ASSUME NEW i \in 1 .. Len(symbols), i < sym, symbols[i].func
               PROVE  symbols[i].addr <= s
    OBVIOUS
  <2>1. ~ (k < i)
    BY <1>3 DEF StartsAt
  <2>2. i <= k
    BY <1>5, <2>1
  <2> QED BY <1>2, <2>2, SymbolFacts
<1>16. s <= end' /\ end' \in Nat
  <2>1. CASE sym <= Len(symbols)
    BY <1>1, <1>2, <1>5, <2>1, SymbolFacts
  <2>2. CASE ~ (sym <= Len(symbols))
    BY <1>1, <1>5, <2>2, AddrFacts
  <2> QED BY <2>1, <2>2
\* Of the functions known, none but those of symbols is ahead.
<1>17. ASSUME NEW b \in DOMAIN fns'.byAddr, s < b
       PROVE  end' <= b
  <2>1. b \in DOMAIN fns.byAddr /\ b \in Nat /\ FuncsAt(obj, b) # {}
    BY <1>1, <1>2, <1>5, <1>9, <1>12, <1>13, <1>17 DEF KnownInv, Limit
  <2>2. PICK i \in 1 .. Len(symbols) : symbols[i].func /\ symbols[i].addr = b
    BY <2>1, SymbolAt
  <2>3. ~ (i < sym)
    BY <1>5, <1>15, <1>17, <2>1, <2>2
  <2>4. sym <= i /\ sym <= Len(symbols) /\ sym \in 1 .. Len(symbols)
    BY <1>5, <2>3
  <2> QED BY <1>1, <1>2, <2>2, <2>4, SymbolFacts
<1>18. PlaceInv'
  <2>1. AtBoundary(end)'
    BY <1>1, <1>2 DEF AtBoundary
  <2>2. s \in 0 .. Size
    BY <1>5, AddrFacts
  <2> QED BY <1>1, <1>2, <1>4, <1>5, <1>9, <1>15, <1>16, <2>1, <2>2 DEF PlaceInv
<1>19. KnownInv'
  <2>1. Limit' = end' /\ Limit = pos
    BY <1>1 DEF Limit
  <2>2. ASSUME NEW b \in DOMAIN fns'.byAddr PROVE FuncsAt(obj, b) # {} \/ b < end'
    BY <1>2, <1>5, <1>6, <1>9, <1>12, <1>13, <1>16, <2>1, <2>2 DEF KnownInv
  <2>3. \A i \in 1 .. Len(symbols) : i < sym /\ symbols[i].func =>
           symbols[i].addr \in DOMAIN fns'.byAddr
    <3>1. func[1].addr = s
      BY <1>3 DEF StartsAt
    <3> QED BY <1>2, <1>9, <3>1 DEF KnownInv
  <2> QED BY <1>1, <1>2, <2>1, <2>2, <2>3 DEF KnownInv
<1>20. NextInv'
  BY <1>4, <1>5, <1>9, <1>12, <1>16, <1>17 DEF NextInv
<1>21. OwnerInv'
  <2> SUFFICES ASSUME NEW a \in TranslatedIn(obj), a < s
               PROVE  \E b \in DOMAIN fns'.byAddr :
                         /\ b <= a /\ owner[a] = fns'.byAddr[b].name
                         /\ \A c \in DOMAIN fns'.byAddr : c <= a => c <= b
    BY <1>1, <1>4 DEF OwnerInv
  <2>1. a \in Nat /\ a < pos
    BY <1>5, <1>12, <1>14
  <2>2. PICK b \in DOMAIN fns.byAddr : /\ b <= a /\ owner[a] = fns.byAddr[b].name
                                       /\ \A c \in DOMAIN fns.byAddr : c <= a => c <= b
    BY <1>2, <2>1 DEF OwnerInv
  <2>3. b \in DOMAIN fns'.byAddr /\ fns'.byAddr[b] = fns.byAddr[b]
    BY <1>5, <1>9, <1>12, <2>1, <2>2
  <2>4. \A c \in DOMAIN fns'.byAddr : c <= a => c <= b
    BY <1>5, <1>9, <2>1, <2>2
  <2> QED BY <2>2, <2>3, <2>4
<1>22. EntryInv'
  <2> SUFFICES ASSUME NEW b \in DOMAIN fns'.byAddr, b <= s
               PROVE  fns'.llvm[fns'.byAddr[b].name] = b
    BY <1>1, <1>4 DEF EntryInv, Started
  <2>1. CASE b = s
    BY <1>9, <1>10, <2>1
  <2>2. CASE b # s
    <3>1. b \in DOMAIN fns.byAddr /\ b < pos
      BY <1>5, <1>9, <1>12, <1>14, <2>2
    <3>2. fns.llvm[fns.byAddr[b].name] = b
      BY <1>1, <1>2, <3>1 DEF EntryInv, Started
    <3>3. fns.byAddr[b].name \in DOMAIN fns.llvm /\ fns.byAddr[b].name \in NamesAt(obj, b)
      BY <1>2, <3>1 DEF LlvmOK, MapsOK
    <3>4. fns.byAddr[b].name # f.name
      BY <1>2, <1>6, <2>2, <3>3, NamesApart
    <3> QED BY <1>9, <2>2, <3>1, <3>2, <3>3, <3>4
  <2> QED BY <2>1, <2>2
<1>23. CallsInv'
  <2> SUFFICES ASSUME NEW c \in calls
               PROVE  /\ c[1] \in DOMAIN fns'.byAddr /\ c[2] = fns'.byAddr[c[1]].name
                      /\ c[1] < s \/ OneName(obj, c[1])
    BY <1>1, <1>4 DEF CallsInv
  <2>1. /\ c[1] \in DOMAIN fns.byAddr /\ c[2] = fns.byAddr[c[1]].name
        /\ c[1] < pos \/ OneName(obj, c[1])
    BY <1>2 DEF CallsInv
  <2>2. c[1] < s \/ OneName(obj, c[1])
    BY <1>5, <1>12, <1>13, <2>1
  <2>3. CASE c[1] # s
    BY <1>9, <2>1, <2>2, <2>3
  <2>4. CASE c[1] = s
    <3>1. OneName(obj, s)
      BY <1>5, <1>13, <2>1, <2>4
    <3>2. c[2] \in NamesAt(obj, s)
      BY <1>2, <2>1, <2>4 DEF MapsOK
    <3>3. c[2] = f.name
      BY <1>6, <3>1, <3>2 DEF OneName, NamesAt
    <3> QED BY <1>9, <2>2, <2>4, <3>3
  <2> QED BY <2>3, <2>4
<1>24. DataInv'
  <2>1. ASSUME NEW w \in DOMAIN image PROVE WordInv(w)'
    <3>0. WordInv(w) /\ w \in 1 .. Len(obj.data)
      BY <1>2, SymbolFacts DEF DataInv
    <3>1. obj.data[w].sym # 0 => LET a == symbols[obj.data[w].sym].addr
                                 IN  a < pos <=> a < s
      <4> SUFFICES ASSUME obj.data[w].sym # 0, NEW a, a = symbols[obj.data[w].sym].addr
                   PROVE  a < pos <=> a < s
        OBVIOUS
      <4>1. a \in TranslatedIn(obj)
        BY <1>2, <3>0 DEF GoodObject, DataFound, symbols
      <4> QED BY <1>5, <1>12, <1>13, <1>14, <4>1
    <3> QED BY <1>1, <1>2, <1>4, <1>9, <3>0, <3>1 DEF WordInv, SymName
  <2>2. PendingInv'
    <3>1. PendingInv
      BY <1>2 DEF DataInv
    <3>2. ASSUME NEW a \in DOMAIN pending
          PROVE  s <= a /\ a \in TranslatedIn(obj)
      BY <1>14, <3>1 DEF PendingInv
    <3> QED BY <1>1, <1>2, <1>4, <3>1, <3>2 DEF PendingInv, Waits, SymName
  <2> QED BY <1>1, <1>2, <2>1, <2>2 DEF DataInv
<1> QED BY <1>1, <1>2, <1>11, <1>18, <1>19, <1>20, <1>21, <1>22, <1>23, <1>24 DEF ModuleInv

-----------------------------------------------------------------------------
(* The steps from instruction to instruction.                              *)

\* What holds inside the range of a function.
LEMMA InRange ==
    ASSUME ModuleInv, InFunction
    PROVE  /\ phase = "function" /\ func = << >> /\ AtBoundary(end)
           /\ pos \in Addr /\ pos \in Nat /\ end \in Nat /\ pos < end /\ end <= Size
           /\ st \in Nat /\ st <= pos /\ st \in DOMAIN fns.byAddr /\ cur = fns.byAddr[st]
           /\ pos \in TranslatedIn(obj)
           /\ ObjectFile(obj) /\ DistinctNames(obj) /\ MapsOK(obj, fns) /\ LlvmOK(obj, fns)
           /\ DOMAIN fns.byAddr \subseteq Nat /\ DOMAIN fns.byAddr \subseteq TranslatedIn(obj)
<1>1. /\ phase = "function" /\ func = << >> /\ AtBoundary(end) /\ pos < end /\ pos \in 0 .. Size
      /\ st <= pos /\ st \in DOMAIN fns.byAddr /\ cur = fns.byAddr[st]
      /\ ObjectFile(obj) /\ DistinctNames(obj) /\ MapsOK(obj, fns) /\ LlvmOK(obj, fns)
      /\ sym \in 1 .. Len(symbols) + 1
  BY DEF ModuleInv, PlaceInv, FunctionsInv, InFunction
<1>2. end \in Nat /\ end <= Size
  <2>1. Len(symbols) \in Nat
    BY <1>1, SymbolFacts
  <2>2. CASE sym <= Len(symbols)
    <3>1. sym \in 1 .. Len(symbols) /\ end = symbols[sym].addr
      BY <1>1, <2>1, <2>2 DEF AtBoundary
    <3> QED BY <1>1, <3>1, SymbolFacts, AddrFacts
  <2>3. CASE ~ (sym <= Len(symbols))
    BY <1>1, <2>3, AddrFacts DEF AtBoundary
  <2> QED BY <2>2, <2>3
<1>3. pos \in Addr /\ pos \in Nat
  BY <1>1, <1>2, AddrFacts
<1>4. DOMAIN fns.byAddr \subseteq Nat /\ DOMAIN fns.byAddr \subseteq TranslatedIn(obj)
  BY <1>1, TranslatedFacts, AddrFacts DEF LlvmOK
<1>5. pos \in TranslatedIn(obj)
  BY <1>1, <1>3, <1>4, TranslatedFacts
<1> QED BY <1>1, <1>2, <1>3, <1>4, <1>5

\* No function starts between st and pos: at pos the walk would have switched.
LEMMA NoneBetween ==
    ASSUME ModuleInv, InFunction, ~AtNextFunction, NEW b \in DOMAIN fns.byAddr, b <= pos
    PROVE  b <= st
<1>1. ~ (st < b /\ b < pos) /\ (pos <= b /\ st < b /\ b < end => pos <= fns.next /\ fns.next <= b)
  BY InRange DEF ModuleInv, NextInv
<1>2. b \in Nat
  BY InRange
<1>3. CASE b = pos /\ st < b
  <2>1. fns.next = pos
    <3>1. fns.next \in Nat
      BY InRange DEF LlvmOK
    <3> QED BY <1>1, <1>3, <3>1, InRange
  <2> QED BY <1>3, <2>1, InRange DEF AtNextFunction
<1> QED BY <1>1, <1>2, <1>3, InRange

LEMMA SwitchFunctionModule ==
    ASSUME ModuleInv, SwitchFunction, FunctionsInv'
    PROVE  ModuleInv'
<1> DEFINE f == fns.byAddr[pos]
<1>1. /\ UNCHANGED <<obj, phase, failed, word, image, pending, sym, func, end, pos, owner, calls>>
      /\ InFunction /\ pos # st /\ pos = fns.next
      /\ addr' = pos /\ cur' = f /\ st' = pos /\ fns' = Translate(fns, f, pos)
  BY DEF SwitchFunction, AtNextFunction
<1>2. /\ PlaceInv /\ KnownInv /\ NextInv /\ OwnerInv /\ EntryInv /\ CallsInv /\ DataInv
      /\ GoodObject(obj) /\ symbols' = symbols
  BY <1>1 DEF ModuleInv, symbols
<1>3. /\ phase = "function" /\ func = << >> /\ AtBoundary(end)
      /\ pos \in Nat /\ end \in Nat /\ pos < end /\ st \in Nat /\ st < pos
      /\ ObjectFile(obj) /\ DistinctNames(obj) /\ MapsOK(obj, fns) /\ LlvmOK(obj, fns)
      /\ DOMAIN fns.byAddr \subseteq Nat
  BY <1>1, InRange
<1>4. pos \in DOMAIN fns.byAddr
  BY <1>1, <1>3 DEF LlvmOK
<1>5. f.addr = pos /\ f.name \in NamesAt(obj, pos)
  BY <1>3, <1>4 DEF MapsOK
<1>6. f.addr \in Nat /\ f.name \in NamesAt(obj, f.addr)
  BY <1>3, <1>5
<1>7. LlvmOK(obj, fns') /\ fns'.llvm[f.name] = pos
  <2>1. \A r : r = Translate(fns, f, pos) => LlvmOK(obj, r) /\ r.llvm[f.name] = f.addr
    BY <1>3, <1>6, TranslateLlvm
  <2> QED BY <1>1, <1>5, <2>1
<1>8. /\ fns'.byAddr = fns.byAddr
      /\ \A n \in DOMAIN fns.llvm : n # f.name => fns'.llvm[n] = fns.llvm[n]
      /\ \A b \in DOMAIN fns.byAddr : b > pos => pos < fns'.next /\ fns'.next <= b
  <2>1. \A r : r = Translate(fns, f, pos) =>
           /\ r.byAddr = fns.byAddr
           /\ \A n \in DOMAIN fns.llvm : n # f.name => r.llvm[n] = fns.llvm[n]
           /\ pos = f.addr /\ fns.next = pos =>
                 \A b \in DOMAIN fns.byAddr : b > pos => pos < r.next /\ r.next <= b
    BY <1>3, <1>6, TranslateEffect
  <2> QED BY <1>1, <1>5, <2>1
<1> HIDE DEF f
<1>9. PlaceInv'
  <2>1. \A i \in 1 .. Len(symbols) : i < sym /\ symbols[i].func => symbols[i].addr <= pos
    BY <1>2, <1>3, SymbolFacts DEF PlaceInv
  <2>2. cur' = fns'.byAddr[st'] /\ st' \in DOMAIN fns'.byAddr
    BY <1>1, <1>4, <1>8 DEF f
  <2>3. AtBoundary(end)'
    BY <1>1, <1>2, <1>3 DEF AtBoundary
  <2> QED BY <1>1, <1>2, <1>3, <2>1, <2>2, <2>3 DEF PlaceInv
<1>10. KnownInv' /\ OwnerInv' /\ CallsInv'
  BY <1>1, <1>2, <1>8 DEF KnownInv, OwnerInv, CallsInv, Limit
<1>11. NextInv'
  <2>1. fns'.next \in Nat
    BY <1>3, <1>7, <1>8 DEF LlvmOK
  <2> QED BY <1>1, <1>3, <1>8, <2>1 DEF NextInv
<1>12. EntryInv'
  <2> SUFFICES ASSUME NEW b \in DOMAIN fns.byAddr, b <= pos
               PROVE  fns'.llvm[fns.byAddr[b].name] = b
    BY <1>1, <1>3, <1>8 DEF EntryInv, Started
  <2>1. CASE b = pos
    BY <1>7, <2>1 DEF f
  <2>2. CASE b # pos
    <3>1. b <= st
      BY <1>2, <1>3, <2>2 DEF NextInv
    <3>2. fns.llvm[fns.byAddr[b].name] = b
      BY <1>2, <1>3, <3>1 DEF EntryInv, Started
    <3>3. fns.byAddr[b].name \in DOMAIN fns.llvm /\ fns.byAddr[b].name \in NamesAt(obj, b)
      BY <1>3 DEF LlvmOK, MapsOK
    <3>4. fns.byAddr[b].name # f.name
      BY <1>3, <1>5, <2>2, <3>3, NamesApart
    <3> QED BY <1>8, <3>2, <3>3, <3>4
  <2> QED BY <2>1, <2>2
<1>13. DataInv'
  <2>1. ASSUME NEW w \in DOMAIN image PROVE WordInv(w)'
    BY <1>1, <1>2, <1>8 DEF DataInv, WordInv, SymName
  <2>2. PendingInv'
    BY <1>1, <1>2 DEF DataInv, PendingInv, Waits, SymName
  <2> QED BY <1>1, <1>2, <2>1, <2>2 DEF DataInv
<1> QED BY <1>1, <1>2, <1>7, <1>9, <1>10, <1>11, <1>12, <1>13 DEF ModuleInv

\* What an instruction calls or refers to is known, or is ahead, where the walk will
\* come to it as the function that it is taken for.
LEMMA TargetFound ==
    ASSUME ModuleInv, InFunction, NEW t, t = obj.code[pos].to, obj.code[pos].op # "plain",
           obj.code[pos].op = "jal" \/ IsFunction(fns, t)
    PROVE  /\ t \in Addr /\ t \in Nat
           /\ t \in DOMAIN fns.byAddr \/
                 (pos < t /\ t \in TranslatedIn(obj) /\ (FuncsAt(obj, t) # {} \/ t < end))
           /\ t <= pos \/ OneName(obj, t)
<1>1. CallsFound(obj) /\ KnownInv /\ PlaceInv
  BY DEF ModuleInv, GoodObject
<1>2. t \in Addr /\ t \in Nat
  BY InRange, SymbolFacts, AddrFacts
<1>3. t <= pos \/ OneName(obj, t)
  BY <1>1, <1>2, InRange DEF CallsFound
<1>4. CASE t \in DOMAIN fns.byAddr
  BY <1>2, <1>3, <1>4
<1>5. CASE t \notin DOMAIN fns.byAddr /\ FuncsAt(obj, t) # {}
  <2>1. PICK i \in 1 .. Len(symbols) : symbols[i].func /\ symbols[i].addr = t
    BY <1>5, SymbolAt
  <2>2. ~ (i < sym)
    BY <1>1, <1>5, <2>1, InRange DEF KnownInv
  <2>3. sym \in 1 .. Len(symbols) /\ sym <= i
    BY <1>1, <2>2, InRange, SymbolFacts DEF PlaceInv
  <2>4. end = symbols[sym].addr /\ symbols[sym].addr <= symbols[i].addr
    BY <2>3, InRange, SymbolFacts DEF AtBoundary
  <2>5. pos < t
    BY <1>2, <2>1, <2>4, InRange
  <2>6. t \in TranslatedIn(obj)
    BY <1>2, <2>5, InRange, TranslatedFacts
  <2> QED BY <1>2, <1>3, <1>5, <2>5, <2>6
<1>6. CASE t \notin DOMAIN fns.byAddr /\ FuncsAt(obj, t) = {}
  <2>1. FuncSymbols(t) = FuncsAt(obj, t)
    BY DEF FuncSymbols, FuncsAt, symbols
  <2>2. obj.code[pos].op = "jal"
    BY <1>6, <2>1 DEF IsFunction
  <2>3. pos < t /\ \A b \in pos + 1 .. t : FuncsAt(obj, b) = {}
    BY <1>1, <1>6, <2>2, InRange DEF CallsFound
  <2>4. t < end
    <3>1. CASE sym <= Len(symbols)
      <4>1. sym \in 1 .. Len(symbols) /\ symbols[sym].func /\ end = symbols[sym].addr
        BY <1>1, <3>1, InRange DEF PlaceInv, AtBoundary
      <4>2. FuncsAt(obj, end) # {}
        BY <4>1, SymbolAt
      <4>3. ~ (end \in pos + 1 .. t)
        BY <2>3, <4>2
      <4> QED BY <1>2, <4>3, InRange
    <3>2. CASE ~ (sym <= Len(symbols))
      BY <1>2, <3>2, InRange, AddrFacts DEF AtBoundary
    <3> QED BY <3>1, <3>2
  <2>5. t \in TranslatedIn(obj)
    BY <1>2, <2>3, InRange, TranslatedFacts
  <2> QED BY <1>2, <1>3, <1>6, <2>3, <2>4, <2>5
<1> QED BY <1>4, <1>5, <1>6

\* The function maps after an instruction: what was known stays as it is, and what
\* is new is ahead.
FoundAhead(old, new) ==
    /\ DOMAIN old.byAddr \subseteq DOMAIN new.byAddr
    /\ \A b \in DOMAIN old.byAddr : new.byAddr[b] = old.byAddr[b]
    /\ \A n \in DOMAIN old.llvm : n \in DOMAIN new.llvm /\ new.llvm[n] = old.llvm[n]
    /\ \A b \in DOMAIN new.byAddr \ DOMAIN old.byAddr :
          /\ pos < b /\ (FuncsAt(obj, b) # {} \/ b < end)
          /\ new.next = IF old.next > pos /\ old.next < b THEN old.next ELSE b
          /\ DOMAIN new.byAddr = DOMAIN old.byAddr \cup {b}
    /\ DOMAIN new.byAddr = DOMAIN old.byAddr => new.next = old.next

LEMMA GetTarget ==
    ASSUME ModuleInv, InFunction, NEW t, t = obj.code[pos].to, obj.code[pos].op # "plain",
           obj.code[pos].op = "jal" \/ IsFunction(fns, t), NEW m, m = GetByAddr(fns, t, pos)
    PROVE  FoundAhead(fns, m) /\ LlvmOK(obj, m) /\ t \in DOMAIN m.byAddr
<1>1. CASE t \in DOMAIN fns.byAddr
  <2>1. m = fns
    BY <1>1 DEF GetByAddr
  <2> QED BY <1>1, <2>1, InRange DEF FoundAhead
<1>2. CASE t \notin DOMAIN fns.byAddr
  <2>1. /\ t \in Nat /\ pos < t /\ t \in TranslatedIn(obj)
        /\ FuncsAt(obj, t) # {} \/ t < end
    BY <1>2, TargetFound
  <2>2. /\ DOMAIN m.byAddr = DOMAIN fns.byAddr \cup {t}
        /\ \A b \in DOMAIN fns.byAddr : m.byAddr[b] = fns.byAddr[b]
        /\ Extends(m, fns, NameAt(t))
        /\ m.next = IF fns.next > pos /\ fns.next < t THEN fns.next ELSE t
    <3>1. pos \in Nat /\ pos <= t
      BY <2>1, InRange
    <3>2. \A r : r = GetByAddr(fns, t, pos) =>
             /\ DOMAIN r.byAddr = DOMAIN fns.byAddr \cup {t}
             /\ \A b \in DOMAIN fns.byAddr : r.byAddr[b] = fns.byAddr[b]
             /\ Extends(r, fns, NameAt(t))
             /\ r.next = IF fns.next > pos /\ fns.next < t THEN fns.next ELSE t
      <4>1. MapsOK(obj, fns) /\ DOMAIN fns.byAddr \subseteq Nat /\ DistinctNames(obj) /\ ObjectFile(obj)
        BY InRange
      <4> QED BY <1>2, <2>1, <3>1, <4>1, GetByAddrEffect
    <3> QED BY <3>2
  <2>3. LlvmOK(obj, m)
    BY <2>1, InRange, GetByAddrLlvm
  <2> QED BY <1>2, <2>1, <2>2, <2>3 DEF FoundAhead, Extends
<1> QED BY <1>1, <1>2

\* What the instruction emits: a call or a reference names the function at its target.
LEMMA EmitEffect ==
    ASSUME ModuleInv, InFunction, Emit(obj.code[pos], pos)
    PROVE  /\ failed' = failed /\ FoundAhead(fns, fns') /\ LlvmOK(obj, fns')
           /\ calls' = calls \/
                 \E t \in DOMAIN fns'.byAddr :
                    /\ calls' = calls \cup {<<t, fns'.byAddr[t].name>>}
                    /\ t <= pos \/ OneName(obj, t)
<1> DEFINE o == obj.code[pos]
<1>1. CASE UNCHANGED <<fns, calls, failed>>
  BY <1>1, InRange DEF FoundAhead
<1>2. CASE /\ o.op # "plain" /\ (o.op = "jal" \/ IsFunction(fns, o.to))
           /\ fns' = GetByAddr(fns, o.to, pos)
           /\ calls' = calls \cup {<<o.to, fns'.byAddr[o.to].name>>} /\ UNCHANGED failed
  <2>1. ASSUME NEW t, t = o.to
        PROVE  /\ FoundAhead(fns, fns') /\ LlvmOK(obj, fns') /\ t \in DOMAIN fns'.byAddr
               /\ t <= pos \/ OneName(obj, t)
    <3>1. \A m : m = GetByAddr(fns, t, pos) =>
             FoundAhead(fns, m) /\ LlvmOK(obj, m) /\ t \in DOMAIN m.byAddr
      BY <1>2, <2>1, GetTarget
    <3> QED BY <1>2, <2>1, <3>1, TargetFound
  <2> QED BY <1>2, <2>1
<1>3. CASE o.op = "ref" /\ Refers(o, pos)
  <2>1. CASE ~IsFunction(fns, o.to)
    BY <1>1, <1>3, <2>1 DEF Refers
  <2>2. CASE IsFunction(fns, o.to)
    <3>1. ~ (o.to \notin DOMAIN fns.byAddr /\ o.to <= pos)
      <4>1. \A t : t = o.to => t \in Nat /\ (t \in DOMAIN fns.byAddr \/ pos < t)
        BY <1>3, <2>2, TargetFound
      <4> QED BY <4>1, InRange
    <3> QED BY <1>2, <1>3, <2>2, <3>1 DEF Refers
  <2> QED BY <2>1, <2>2
<1> QED BY <1>1, <1>2, <1>3 DEF Emit

\* The walk over one instruction.
LEMMA TranslateInstrModule ==
    ASSUME ModuleInv, TranslateInstr, FunctionsInv'
    PROVE  ModuleInv'
<1>1. /\ UNCHANGED <<obj, phase, word, sym, func, cur, st, end>>
      /\ InFunction /\ ~AtNextFunction /\ Emit(obj.code[pos], pos)
      /\ owner' = [owner EXCEPT ![pos] = cur.name]
      /\ addr' = pos /\ pos' = pos + 1 /\ ProcessPending(pos)
  BY DEF TranslateInstr
<1>2. /\ PlaceInv /\ KnownInv /\ NextInv /\ OwnerInv /\ EntryInv /\ CallsInv /\ DataInv
      /\ GoodObject(obj) /\ symbols' = symbols
  BY <1>1 DEF ModuleInv, symbols
<1>3. /\ phase = "function" /\ func = << >> /\ AtBoundary(end)
      /\ pos \in Addr /\ pos \in Nat /\ end \in Nat /\ pos < end /\ end <= Size
      /\ st \in Nat /\ st <= pos /\ st \in DOMAIN fns.byAddr /\ cur = fns.byAddr[st]
      /\ ObjectFile(obj) /\ LlvmOK(obj, fns) /\ DOMAIN fns.byAddr \subseteq Nat
  BY <1>1, InRange
<1>4. /\ failed' = failed /\ FoundAhead(fns, fns') /\ LlvmOK(obj, fns')
      /\ calls' = calls \/
            \E t \in DOMAIN fns'.byAddr : /\ calls' = calls \cup {<<t, fns'.byAddr[t].name>>}
                                          /\ t <= pos \/ OneName(obj, t)
  BY <1>1, EmitEffect
<1>5. /\ DOMAIN fns.byAddr \subseteq DOMAIN fns'.byAddr
      /\ \A b \in DOMAIN fns.byAddr : fns'.byAddr[b] = fns.byAddr[b]
      /\ \A b \in DOMAIN fns'.byAddr : b \in DOMAIN fns.byAddr \/
            (pos < b /\ (FuncsAt(obj, b) # {} \/ b < end))
      /\ DOMAIN fns'.byAddr \subseteq Nat
  BY <1>3, <1>4, TranslatedFacts, AddrFacts DEF FoundAhead, LlvmOK
<1>6. \A b \in DOMAIN fns.byAddr : b <= pos => b <= st
  BY <1>1, NoneBetween
<1>7. /\ DOMAIN owner' = Addr /\ owner'[pos] = fns.byAddr[st].name
      /\ \A a : a \in Addr /\ a # pos => owner'[a] = owner[a]
  BY <1>1, <1>2, <1>3 DEF PlaceInv
<1>8. PlaceInv'
  <2>1. pos + 1 \in 0 .. Size /\ st <= pos + 1 /\ pos + 1 <= end
    BY <1>3, AddrFacts
  <2>2. AtBoundary(end)'
    BY <1>1, <1>2, <1>3 DEF AtBoundary
  <2>3. cur' = fns'.byAddr[st] /\ st \in DOMAIN fns'.byAddr
    BY <1>1, <1>3, <1>5
  <2> QED BY <1>1, <1>2, <1>3, <1>7, <2>1, <2>2, <2>3 DEF PlaceInv
<1>9. KnownInv'
  BY <1>1, <1>2, <1>3, <1>5 DEF KnownInv, Limit
<1>10. NextInv'
  <2> SUFFICES ASSUME NEW b \in DOMAIN fns'.byAddr
               PROVE  /\ ~ (st < b /\ b < pos + 1)
                      /\ pos + 1 <= b /\ st < b /\ b < end =>
                            pos + 1 <= fns'.next /\ st < fns'.next /\ fns'.next <= b
    BY <1>1 DEF NextInv
  <2>1. ~ (st < b /\ b < pos + 1)
    BY <1>3, <1>5, <1>6
  <2>2. ASSUME NEW c \in DOMAIN fns.byAddr, pos < c, c < end
        PROVE  pos < fns.next /\ fns.next <= c
    <3>1. pos <= fns.next /\ fns.next <= c /\ st < fns.next
      BY <1>2, <1>3, <2>2 DEF NextInv
    <3>2. fns.next # pos \/ pos = st
      BY <1>1 DEF AtNextFunction
    <3>3. fns.next \in Nat /\ pos # fns.next
      BY <1>3, <3>1, <3>2 DEF LlvmOK
    <3> QED BY <1>3, <3>1, <3>3
  <2>3. fns.next \in Nat /\ fns'.next \in Nat
    BY <1>3, <1>4, <1>5 DEF LlvmOK
  <2>4. ASSUME pos < b, b < end PROVE pos < fns'.next /\ fns'.next <= b
    <3>1. CASE DOMAIN fns'.byAddr = DOMAIN fns.byAddr
      BY <1>4, <2>2, <2>4, <3>1 DEF FoundAhead
    <3>2. CASE DOMAIN fns'.byAddr # DOMAIN fns.byAddr
      <4>1. PICK n \in DOMAIN fns'.byAddr \ DOMAIN fns.byAddr : TRUE
        BY <1>5, <3>2
      <4>2. /\ fns'.next = IF fns.next > pos /\ fns.next < n THEN fns.next ELSE n
            /\ DOMAIN fns'.byAddr = DOMAIN fns.byAddr \cup {n}
        BY <1>4, <1>5, <4>1 DEF FoundAhead
      <4>3. pos < n /\ n \in Nat
        BY <1>4, <1>5, <4>1 DEF FoundAhead
      <4>4. CASE b = n
        BY <1>3, <2>3, <4>2, <4>3, <4>4
      <4>5. CASE b # n
        <5>1. b \in DOMAIN fns.byAddr /\ b \in Nat
          BY <1>5, <4>2, <4>5
        <5>2. pos < fns.next /\ fns.next <= b
          BY <2>2, <2>4, <5>1
        <5> QED BY <1>3, <2>3, <4>2, <4>3, <5>1, <5>2
      <4> QED BY <4>4, <4>5
    <3> QED BY <3>1, <3>2
  <2> QED BY <1>3, <1>5, <2>1, <2>3, <2>4
<1>11. OwnerInv'
  <2> SUFFICES ASSUME NEW a \in TranslatedIn(obj), a < pos + 1
               PROVE  \E b \in DOMAIN fns'.byAddr :
                         /\ b <= a /\ owner'[a] = fns'.byAddr[b].name
                         /\ \A c \in DOMAIN fns'.byAddr : c <= a => c <= b
    BY <1>1 DEF OwnerInv
  <2>1. a \in Addr /\ a \in Nat
    BY <1>3, TranslatedFacts, AddrFacts
  <2>2. CASE a = pos
    <3>1. \A c \in DOMAIN fns'.byAddr : c <= pos => c <= st
      BY <1>3, <1>5, <1>6
    <3> QED BY <1>3, <1>5, <1>7, <2>2, <3>1
  <2>3. CASE a # pos
    <3>1. a < pos
      BY <1>3, <2>1, <2>3
    <3>2. PICK b \in DOMAIN fns.byAddr : /\ b <= a /\ owner[a] = fns.byAddr[b].name
                                         /\ \A c \in DOMAIN fns.byAddr : c <= a => c <= b
      BY <1>2, <3>1 DEF OwnerInv
    <3>3. \A c \in DOMAIN fns'.byAddr : c <= a => c \in DOMAIN fns.byAddr
      BY <1>3, <1>5, <2>1, <3>1
    <3> QED BY <1>5, <1>7, <2>1, <2>3, <3>2, <3>3
  <2> QED BY <2>2, <2>3
<1>12. EntryInv'
  <2> SUFFICES ASSUME NEW b \in DOMAIN fns'.byAddr, b <= st
               PROVE  fns'.llvm[fns'.byAddr[b].name] = b
    BY <1>1, <1>3 DEF EntryInv, Started
  <2>1. b \in DOMAIN fns.byAddr
    BY <1>3, <1>5
  <2>2. fns.llvm[fns.byAddr[b].name] = b /\ fns.byAddr[b].name \in DOMAIN fns.llvm
    BY <1>2, <1>3, <2>1 DEF EntryInv, Started, LlvmOK
  <2> QED BY <1>4, <1>5, <2>1, <2>2 DEF FoundAhead
<1>13. CallsInv'
  <2>1. ASSUME NEW c \in calls
        PROVE  /\ c[1] \in DOMAIN fns'.byAddr /\ c[2] = fns'.byAddr[c[1]].name
               /\ c[1] < pos + 1 \/ OneName(obj, c[1])
    <3>1. /\ c[1] \in DOMAIN fns.byAddr /\ c[2] = fns.byAddr[c[1]].name
          /\ c[1] < pos \/ OneName(obj, c[1])
      BY <1>2 DEF CallsInv
    <3>2. c[1] < pos + 1 \/ OneName(obj, c[1])
      BY <1>3, <3>1
    <3> QED BY <1>5, <3>1, <3>2
  <2>2. ASSUME NEW t \in DOMAIN fns'.byAddr, t <= pos \/ OneName(obj, t)
        PROVE  t < pos + 1 \/ OneName(obj, t)
    BY <1>3, <1>5, <2>2
  <2>3. ASSUME NEW c \in calls'
        PROVE  /\ c[1] \in DOMAIN fns'.byAddr /\ c[2] = fns'.byAddr[c[1]].name
               /\ c[1] < pos + 1 \/ OneName(obj, c[1])
    <3>1. CASE c \in calls
      BY <2>1, <3>1
    <3>2. CASE c \notin calls
      <4>1. PICK t \in DOMAIN fns'.byAddr : /\ c = <<t, fns'.byAddr[t].name>>
                                            /\ t <= pos \/ OneName(obj, t)
        BY <1>4, <2>3, <3>2
      <4> QED BY <2>2, <4>1
    <3> QED BY <3>1, <3>2
  <2> QED BY <1>1, <2>3 DEF CallsInv
<1>14. DataInv'
  <2>1. PendingInv /\ DOMAIN image = DOMAIN obj.data /\ \A w \in DOMAIN image : WordInv(w)
    BY <1>2 DEF DataInv
  <2>2. /\ DOMAIN image' = DOMAIN image
        /\ \A w \in DOMAIN image :
              image'[w] = IF pos \in DOMAIN pending /\ w \in pending[pos].words
                          THEN <<"label", pos, cur.name>> ELSE image[w]
        /\ DOMAIN pending' = DOMAIN pending \ {pos}
        /\ \A a \in DOMAIN pending' : pending'[a] = pending[a]
    <3>1. CASE pos \in DOMAIN pending
      BY <1>1, <3>1 DEF ProcessPending
    <3>2. CASE pos \notin DOMAIN pending
      BY <1>1, <3>2 DEF ProcessPending
    <3> QED BY <3>1, <3>2
  <2>3. PendingInv'
    <3>1. ASSUME NEW a \in DOMAIN pending' PROVE pos + 1 <= a
      <4>1. a \in DOMAIN pending /\ a # pos
        BY <2>2
      <4>2. pos <= a /\ a \in Nat
        BY <1>3, <2>1, <4>1, TranslatedFacts, AddrFacts DEF PendingInv
      <4> QED BY <1>3, <4>1, <4>2
    <3>2. pending' = [a \in DOMAIN pending' |-> pending'[a]]
      BY <1>1, <2>1 DEF ProcessPending, PendingInv
    <3> QED BY <1>1, <1>2, <2>1, <2>2, <3>1, <3>2 DEF PendingInv, Waits, SymName
  <2>4. ASSUME NEW w \in DOMAIN image PROVE WordInv(w)'
    <3>1. WordInv(w) /\ w \in 1 .. Len(obj.data)
      BY <1>3, <2>1, SymbolFacts
    <3>2. ASSUME NEW a, a = symbols[obj.data[w].sym].addr, obj.data[w].sym # 0
          PROVE  a \in Addr /\ a \in Nat
      BY <1>3, <3>1, <3>2, SymbolFacts, AddrFacts
    <3>3. ASSUME pos \in DOMAIN pending, w \in pending[pos].words
          PROVE  obj.data[w].sym # 0 /\ ~symbols[obj.data[w].sym].func
                 /\ symbols[obj.data[w].sym].addr = pos
      BY <2>1, <3>3 DEF PendingInv, Waits
    <3>4. CASE obj.data[w].sym = 0
      BY <1>1, <2>2, <3>1, <3>3, <3>4 DEF WordInv
    <3>5. CASE obj.data[w].sym # 0 /\ symbols[obj.data[w].sym].func
      BY <1>1, <1>2, <1>5, <2>2, <3>1, <3>3, <3>5 DEF WordInv, SymName
    <3>6. CASE obj.data[w].sym # 0 /\ ~symbols[obj.data[w].sym].func
      <4> SUFFICES ASSUME w < word, NEW a, a = symbols[obj.data[w].sym].addr
                   PROVE  IF a < pos + 1 THEN image'[w] = <<"label", a, owner'[a]>>
                          ELSE a \in DOMAIN pending' /\ w \in pending'[a].words
        BY <1>1, <1>2, <3>6 DEF WordInv
      <4>1. a \in Addr /\ a \in Nat
        BY <3>2, <3>6
      <4>2. IF a < pos THEN image[w] = <<"label", a, owner[a]>>
                       ELSE a \in DOMAIN pending /\ w \in pending[a].words
        BY <3>1, <3>6 DEF WordInv
      <4>3. CASE a < pos
        BY <1>3, <1>7, <2>2, <3>3, <4>1, <4>2, <4>3
      <4>4. CASE a = pos
        BY <1>3, <1>7, <2>2, <4>2, <4>4
      <4>5. CASE pos < a
        BY <1>3, <2>2, <4>1, <4>2, <4>5
      <4> QED BY <1>3, <4>1, <4>3, <4>4, <4>5, SMTT(60)
    <3> QED BY <3>4, <3>5, <3>6
  <2> QED BY <1>1, <1>2, <1>3, <2>1, <2>2, <2>3, <2>4 DEF DataInv
<1> QED BY <1>1, <1>2, <1>4, <1>8, <1>9, <1>10, <1>11, <1>12, <1>13, <1>14 DEF ModuleInv

\* Each step keeps the invariant.
LEMMA StepModule ==
    ASSUME ModuleInv, [Next]_vars
    PROVE  ModuleInv'
<1>1. FunctionsInv'
  BY StepFunctions DEF ModuleInv
<1>2. CASE CopyWord
  BY <1>2, CopyWordModule
<1>3. CASE RelocateWord
  BY <1>1, <1>3, RelocateWordModule
<1>4. CASE ImageBuilt
  BY <1>1, <1>4, ImageBuiltModule
<1>5. CASE SkipSymbol
  BY <1>1, <1>5, SkipSymbolModule
<1>6. CASE FunctionStart
  BY <1>1, <1>6, FunctionStartModule
<1>7. CASE FunctionEnd
  BY <1>1, <1>7, FunctionEndModule
<1>8. CASE SymbolsDone
  BY <1>1, <1>8, SymbolsDoneModule
<1>9. CASE SwitchFunction
  BY <1>1, <1>9, SwitchFunctionModule
<1>10. CASE TranslateInstr
  BY <1>1, <1>10, TranslateInstrModule
<1>11. CASE FunctionDone
  BY <1>1, <1>11, FunctionDoneModule
<1>12. CASE UNCHANGED vars
  <2>1. UNCHANGED <<obj, phase, failed, walk, fns, word, image, pending, pos, owner>>
    BY <1>12 DEF vars, walk
  <2>2. DataInv'
    <3>1. ASSUME NEW w \in DOMAIN image PROVE WordInv(w)'
      BY <2>1 DEF ModuleInv, DataInv, WordInv, symbols, SymName
    <3>2. PendingInv'
      BY <2>1 DEF ModuleInv, DataInv, PendingInv, Waits, symbols, SymName
    <3> QED BY <2>1, <3>1, <3>2 DEF ModuleInv, DataInv
  <2> QED BY <2>1, <2>2, WalkKept
<1> QED BY <1>2, <1>3, <1>4, <1>5, <1>6, <1>7, <1>8, <1>9, <1>10, <1>11, <1>12 DEF Next

-----------------------------------------------------------------------------
(* What holds when the translation is done.                                *)

\* The greatest element is the only one.
LEMMA MaxIs ==
    ASSUME NEW S, S \subseteq Nat, NEW b \in S, \A c \in S : c <= b
    PROVE  Max(S) = b
<1>1. \A y \in S : b >= y
  OBVIOUS
<1>2. Max(S) \in S /\ \A y \in S : Max(S) >= y
  BY <1>1 DEF Max
<1>3. Max(S) \in Nat /\ b \in Nat /\ Max(S) >= b /\ Max(S) <= b
  BY <1>2
<1> QED BY <1>3

\* All that is to be translated lies before the place that the walk has come to.
LEMMA DoneFacts ==
    ASSUME ModuleInv, phase = "done"
    PROVE  /\ ObjectFile(obj) /\ LlvmOK(obj, fns) /\ MapsOK(obj, fns)
           /\ \A a \in TranslatedIn(obj) : a \in Nat /\ a < pos
           /\ DOMAIN fns.byAddr \subseteq Nat
           /\ \A a \in DOMAIN fns.byAddr : owner[a] = fns.byAddr[a].name
           /\ \A a \in DOMAIN fns.byAddr : fns.llvm[fns.byAddr[a].name] = a
<1>1. ObjectFile(obj) /\ LlvmOK(obj, fns) /\ MapsOK(obj, fns) /\ OwnerInv /\ EntryInv
  BY DEF ModuleInv, FunctionsInv
<1>2. /\ sym = Len(symbols) + 1 /\ Len(symbols) \in Nat
      /\ NoFuncBefore(sym) \/ pos = Size
  BY <1>1, SymbolFacts DEF ModuleInv, PlaceInv
<1>3. ASSUME NEW a \in TranslatedIn(obj) PROVE a \in Nat /\ a < pos
  <2>1. a \in Nat /\ a < Size
    BY <1>1, TranslatedFacts, AddrFacts
  <2>2. PICK i \in 1 .. Len(symbols) : symbols[i].func
    BY <1>1, TranslatedFacts
  <2>3. i < sym
    BY <1>2
  <2>4. pos = Size
    BY <1>2, <2>2, <2>3 DEF NoFuncBefore
  <2> QED BY <2>1, <2>4
<1>4. DOMAIN fns.byAddr \subseteq TranslatedIn(obj)
  BY <1>1 DEF LlvmOK
<1>5. ASSUME NEW a \in DOMAIN fns.byAddr PROVE owner[a] = fns.byAddr[a].name
  <2>1. PICK b \in DOMAIN fns.byAddr :
           /\ b <= a /\ owner[a] = fns.byAddr[b].name
           /\ \A c \in DOMAIN fns.byAddr : c <= a => c <= b
    BY <1>1, <1>3, <1>4 DEF OwnerInv
  <2>2. a \in Nat /\ b \in Nat
    BY <1>3, <1>4
  <2>3. a = b
    BY <2>1, <2>2
  <2> QED BY <2>1, <2>3
<1>6. ASSUME NEW a \in DOMAIN fns.byAddr PROVE fns.llvm[fns.byAddr[a].name] = a
  <2>1. Started(a)
    BY <1>3, <1>4 DEF Started
  <2> QED BY <1>1, <2>1 DEF EntryInv
<1> QED BY <1>1, <1>3, <1>4, <1>5, <1>6

\* The words of a data section whose code is translated.
LEMMA DoneData ==
    ASSUME ModuleInv, phase = "done"
    PROVE  DataRelocated
<1>1. /\ DataInv /\ DataFound(obj) /\ ObjectFile(obj) /\ word = Len(obj.data) + 1
      /\ MapsOK(obj, fns)
  BY DEF ModuleInv, GoodObject, DataInv, FunctionsInv
<1>2. pending = << >>
  <2>1. ASSUME NEW a \in DOMAIN pending PROVE FALSE
    <3>1. a \in TranslatedIn(obj) /\ pos <= a
      BY <1>1 DEF DataInv, PendingInv
    <3>2. a \in Nat /\ a < pos
      BY <3>1, DoneFacts
    <3>3. pos \in Nat
      BY AddrFacts DEF ModuleInv, PlaceInv
    <3> QED BY <3>1, <3>2, <3>3
  <2>2. pending = [a \in DOMAIN pending |-> pending[a]]
    BY <1>1 DEF DataInv, PendingInv
  <2>3. DOMAIN pending = {}
    BY <2>1
  <2>4. pending \in [1 .. 0 -> {}]
    BY <2>2, <2>3
  <2>5. pending \in Seq({}) /\ Len(pending) = 0
    BY <2>3, <2>4
  <2> QED BY <2>5
<1>3. ASSUME NEW w \in DOMAIN image, NEW i, i = obj.data[w].sym, i # 0,
             NEW a, a = symbols[i].addr + obj.data[w].addend
      PROVE  IF symbols[i].func
             THEN image[w] = <<"func", owner[a]>> /\ fns.llvm[owner[a]] = a
             ELSE image[w] = <<"label", a, owner[a]>>
  <2>1. w \in 1 .. Len(obj.data) /\ w < word /\ Len(obj.data) \in Nat
    BY <1>1, SymbolFacts DEF DataInv
  <2>2. i \in 1 .. Len(symbols) /\ obj.data[w].addend = 0 /\ symbols[i].addr \in TranslatedIn(obj)
        /\ \A j \in 1 .. Len(symbols) : symbols[j].addr = symbols[i].addr => j = i
    BY <1>1, <1>3, <2>1, SymbolFacts DEF DataFound, symbols
  <2>3. a = symbols[i].addr /\ a < pos
    BY <1>1, <1>3, <2>2, DoneFacts, SymbolFacts
  <2>4. WordInv(w)
    BY <1>1 DEF DataInv
  <2>5. CASE symbols[i].func
    <3>1. image[w] = <<"func", SymName(i)>> /\ a \in DOMAIN fns.byAddr
      BY <1>3, <2>1, <2>3, <2>4, <2>5 DEF WordInv
    <3>2. FuncsAt(obj, a) = {i}
      BY <2>2, <2>3, <2>5 DEF FuncsAt, symbols
    <3>3. fns.byAddr[a].name \in NamesAt(obj, a)
      BY <1>1, <3>1 DEF MapsOK
    <3>4. fns.byAddr[a].name = SymName(i)
      BY <3>2, <3>3 DEF NamesAt, SymName, symbols
    <3> QED BY <2>5, <3>1, <3>4, DoneFacts
  <2>6. CASE ~symbols[i].func
    BY <1>3, <2>1, <2>3, <2>4, <2>6 DEF WordInv
  <2> QED BY <2>5, <2>6
<1>4. ASSUME NEW w \in DOMAIN image, obj.data[w].sym = 0 PROVE image[w] = <<"raw">>
  BY <1>1, <1>4 DEF DataInv, WordInv
<1> QED BY <1>2, <1>3, <1>4 DEF DataRelocated

\* No assertion fails: a word's function has its name, an address its label has
\* one name only, and what is referred to without an entry is ahead.
THEOREM NeverFailsCorrect ==
    ASSUME GoodObjects
    PROVE  Spec => []NeverFails
<1>1. Init => ModuleInv
  BY InitModule
<1>2. ModuleInv /\ [Next]_vars => ModuleInv'
  BY StepModule
<1>3. ModuleInv => NeverFails
  BY DEF ModuleInv, NeverFails
<1> QED BY <1>1, <1>2, <1>3, PTL DEF Spec

\* Each instruction is in the function that starts at the nearest address at or
\* below it, however the functions were found: when the walk comes to a function
\* found ahead, _nextFuncAddr is its address.
THEOREM InOwnFunctionCorrect ==
    ASSUME GoodObjects
    PROVE  Spec => []InOwnFunction
<1>1. Init => ModuleInv
  BY InitModule
<1>2. ModuleInv /\ [Next]_vars => ModuleInv'
  BY StepModule
<1>3. ModuleInv => InOwnFunction
  <2> SUFFICES ASSUME ModuleInv, phase = "done", NEW a \in Translated
               PROVE  owner[a] = fns.byAddr[Max({b \in DOMAIN fns.byAddr : b <= a})].name
    BY DEF InOwnFunction
  <2>1. a \in TranslatedIn(obj) /\ a < pos /\ DOMAIN fns.byAddr \subseteq Nat
    BY DoneFacts, TranslatedSame
  <2>2. PICK b \in DOMAIN fns.byAddr :
           /\ b <= a /\ owner[a] = fns.byAddr[b].name
           /\ \A c \in DOMAIN fns.byAddr : c <= a => c <= b
    BY <2>1 DEF ModuleInv, OwnerInv
  <2>3. Max({c \in DOMAIN fns.byAddr : c <= a}) = b
    BY <2>1, <2>2, MaxIs
  <2> QED BY <2>2, <2>3
<1> QED BY <1>1, <1>2, <1>3, PTL DEF Spec

\* Each function that was found receives the code at its address.
THEOREM FunctionsHaveCodeCorrect ==
    ASSUME GoodObjects
    PROVE  Spec => []FunctionsHaveCode
<1>1. Init => ModuleInv
  BY InitModule
<1>2. ModuleInv /\ [Next]_vars => ModuleInv'
  BY StepModule
<1>3. ModuleInv => FunctionsHaveCode
  BY DoneFacts DEF FunctionsHaveCode
<1> QED BY <1>1, <1>2, <1>3, PTL DEF Spec

\* A call or a reference uses the llvm function whose entry is the block of its
\* target: the name it was given is not given to another function, and the
\* function found for an address stays the one at that address.
THEOREM CallsReachTheirCodeCorrect ==
    ASSUME GoodObjects
    PROVE  Spec => []CallsReachTheirCode
<1>1. Init => ModuleInv
  BY InitModule
<1>2. ModuleInv /\ [Next]_vars => ModuleInv'
  BY StepModule
<1>3. ModuleInv => CallsReachTheirCode
  <2> SUFFICES ASSUME ModuleInv, phase = "done", NEW c \in calls
               PROVE  fns.llvm[c[2]] = c[1] /\ owner[c[1]] = c[2]
    BY DEF CallsReachTheirCode
  <2>1. c[1] \in DOMAIN fns.byAddr /\ c[2] = fns.byAddr[c[1]].name
    BY DEF ModuleInv, CallsInv
  <2> QED BY <2>1, DoneFacts
<1> QED BY <1>1, <1>2, <1>3, PTL DEF Spec

\* Every word of the data ends up relocated, with the function at its address or
\* with the block of its label in the function that has it.
THEOREM DataRelocatedCorrect ==
    ASSUME GoodObjects
    PROVE  Spec => []DataRelocated
<1>1. Init => ModuleInv
  BY InitModule
<1>2. ModuleInv /\ [Next]_vars => ModuleInv'
  BY StepModule
<1>3. ModuleInv => DataRelocated
  BY DoneData DEF DataRelocated
<1> QED BY <1>1, <1>2, <1>3, PTL DEF Spec
=============================================================================
