-------------------------- MODULE ModuleTranslate --------------------------
(***************************************************************************)
(* The translation of an object file with a code section and a data        *)
(* section (Module::translate): the shadow image of the data is built and  *)
(* its words relocated, then the code is translated function by function,  *)
(* from symbol to symbol (SBTSection::translate), while references and     *)
(* calls create functions ahead and the labels that data words refer to    *)
(* are filled in.  The blocks inside a function are FuncTranslate's.       *)
(***************************************************************************)
EXTENDS Integers, Sequences, FiniteSetsExt

CONSTANTS
    Size,    \* number of instructions; addresses count them
    Objects  \* the object files to translate: a set of sets of them

Addr == 0 .. Size - 1
None == -1

\* A symbol of the code section; func: a function or global symbol.
Symbol == [addr : Addr, name : Nat, func : BOOLEAN]

\* "jal": a call of an address; "ref": a relocation that refers to one.
Op == [op : {"plain"}, to : {0}] \cup [op : {"jal", "ref"}, to : Addr]

\* A word of the data section: not relocated, or with the sum of a symbol of
\* the code section and an addend.
Word == [sym : {0}, addend : {0}] \cup [sym : Nat \ {0}, addend : Nat]

ObjectFile(o) ==
    /\ o.symbols \in Seq(Symbol) /\ o.code \in [Addr -> Op] /\ o.data \in Seq(Word)
    /\ \A i, j \in 1 .. Len(o.symbols) :
          i < j => o.symbols[i].addr <= o.symbols[j].addr
    /\ \A w \in 1 .. Len(o.data) :
          LET d == o.data[w] IN
          d.sym # 0 => d.sym <= Len(o.symbols) /\ o.symbols[d.sym].addr + d.addend < Size

ASSUME ObjectAssumption ==
    Size \in Nat \ {0} /\ \A O \in Objects : \A o \in O : ObjectFile(o)

VARIABLES
    obj,     \* the object file
    phase,   \* "image", "symbols", "function" or "done"
    failed,  \* an assertion has failed
    word,    \* the data word to relocate next
    image,   \* the words of the shadow image
    pending, \* _pendingRelocs: for each address, a symbol and its data words
    sym,     \* index of the next symbol
    func,    \* the function found last, from its symbol: << >> outside one
    fns,     \* the functions, see Functions
    cur,     \* the function that is translated
    st, end, \* its range, which ends early when another function starts in it
    pos,     \* the address that the loop over its instructions is at
    addr,    \* _ctx->addr, the address of the instruction translated last
    owner,   \* the llvm function that each instruction was translated into
    calls    \* the calls and references emitted: address and llvm function

walk == <<sym, func, cur, st, end, pos, addr, owner, calls>>
vars == <<obj, phase, failed, word, image, pending, fns, walk>>

symbols == obj.symbols

\* byAddr, byName: _funcByAddr, which points to functions that _func owns.
\* llvm: the address of the entry block of each llvm function.
\* next: _nextFuncAddr.
\* made: the number of functions made so far, which tells them apart.
Functions == [byAddr |-> << >>, byName |-> << >>, llvm |-> << >>, next |-> 0,
              made |-> 0]
Function(m, name, a) == [name |-> name, addr |-> a, id |-> m.made]

-----------------------------------------------------------------------------
(* The function maps.                                                      *)

\* Map::upsert.
Upsert(m, key, val) == [k \in DOMAIN m \cup {key} |-> IF k = key THEN val ELSE m[k]]

FuncSymbols(a) == {i \in 1 .. Len(symbols) : symbols[i].addr = a /\ symbols[i].func}
SymName(i) == <<"sym", symbols[i].name>>

\* Mutation: the symbols are not asked for the name.
NameOfLabel(a) == <<"f", a>>

NameAt(a) == IF FuncSymbols(a) = {} THEN <<"f", a>> ELSE SymName(Min(FuncSymbols(a)))

\* The functions at or above an address: lower_bound.
AtOrAbove(m, a) == {b \in DOMAIN m.byAddr : b >= a}

IsFunction(m, a) == a \in DOMAIN m.byAddr \/ FuncSymbols(a) # {}

\* Mutation: a function whose address is in the map is not put there again.
AddFuncOnce(m, f) ==
    [m EXCEPT !.byAddr = IF f.addr \in DOMAIN @ THEN @ ELSE Upsert(@, f.addr, f),
              !.byName = Upsert(@, f.name, f), !.made = @ + 1]

\* addFunc: the maps are updated, and the function that had the name is freed.
AddFunc(m, f) ==
    [m EXCEPT !.byAddr = Upsert(@, f.addr, f), !.byName = Upsert(@, f.name, f),
              !.made = @ + 1]

\* Mutation: each function found becomes the next one, nearer ones or not.
UpdateToLast(m, next, at) ==
    LET above == AtOrAbove(m, next)
    IN  IF above = {} \/ Min(above) < at THEN m ELSE [m EXCEPT !.next = Min(above)]

UpdateNextFuncAddr(m, next, at) ==
    LET above == AtOrAbove(m, next)
        nfa   == Min(above)
    IN  IF above = {} THEN m
        ELSE IF nfa < at \/ (m.next > at /\ m.next < nfa) THEN m
        ELSE [m EXCEPT !.next = nfa]

\* Function::create: an llvm function of that name may exist.
Create(m, name) ==
    [m EXCEPT !.llvm = IF name \in DOMAIN @ THEN @ ELSE Upsert(@, name, None)]

\* getByAddr; at is _ctx->addr.
GetByAddr(m, a, at) ==
    IF a \in DOMAIN m.byAddr THEN m
    ELSE LET f == Function(m, NameAt(a), a)
         IN  UpdateNextFuncAddr(AddFunc(Create(m, f.name), f), a, at)

\* start: the entry block is the first of the llvm function.  main has a start of
\* its own, which takes its arguments and sets the stack up, and always creates
\* its llvm function: here nothing refers to main.
Start(m, f) ==
    LET m1 == Create(m, f.name)
    IN  [m1 EXCEPT !.llvm[f.name] = IF @ = None THEN f.addr ELSE @]

-----------------------------------------------------------------------------
(* The shadow image.                                                       *)

Init ==
    /\ \E O \in Objects : obj \in O
    /\ phase = "image" /\ failed = FALSE
    /\ word = 1
    /\ image = [w \in DOMAIN obj.data |-> <<"raw">>]
    /\ pending = << >>
    /\ sym = 1 /\ func = << >>
    /\ fns = Functions
    /\ cur = << >> /\ st = 0 /\ end = 0 /\ pos = 0 /\ addr = 0
    /\ owner = [a \in Addr |-> << >>]
    /\ calls = {}

\* relocateSection, a word without a relocation.
CopyWord ==
    /\ phase = "image" /\ word <= Len(obj.data) /\ obj.data[word].sym = 0
    /\ word' = word + 1
    /\ UNCHANGED <<obj, phase, failed, image, pending, fns, walk>>

\* processSectionReloc: the symbol of a function is referred to by its name,
\* a label is filed under its address until its block exists.
RelocateFunction(i, a) ==
    /\ IsFunction(fns, a)
    /\ fns' = GetByAddr(fns, a, addr)
    /\ IF SymName(i) \in DOMAIN fns'.llvm
       THEN image' = [image EXCEPT ![word] = <<"func", SymName(i)>>] /\ UNCHANGED failed
       ELSE failed' = TRUE /\ UNCHANGED image
    /\ UNCHANGED pending

\* addPending, with the assertion that one address has one name.
RelocateLabel(i, a) ==
    LET key == symbols[i].addr IN
    /\ ~IsFunction(fns, a)
    /\ image' = [image EXCEPT ![word] = <<"placeholder">>]
    /\ IF key \notin DOMAIN pending
       THEN /\ pending' = Upsert(pending, key, [name |-> SymName(i), words |-> {word}])
            /\ UNCHANGED failed
       ELSE IF pending[key].name = SymName(i)
       THEN /\ pending' = [pending EXCEPT ![key].words = @ \cup {word}]
            /\ UNCHANGED failed
       ELSE failed' = TRUE /\ UNCHANGED pending
    /\ UNCHANGED fns

RelocateWord ==
    /\ phase = "image" /\ ~failed /\ word <= Len(obj.data)
    /\ LET i == obj.data[word].sym
           a == symbols[i].addr + obj.data[word].addend
       IN  i # 0 /\ (RelocateFunction(i, a) \/ RelocateLabel(i, a))
    /\ word' = word + 1
    /\ UNCHANGED <<obj, phase, walk>>

ImageBuilt ==
    /\ phase = "image" /\ ~failed /\ word > Len(obj.data)
    /\ phase' = "symbols"
    /\ UNCHANGED <<obj, failed, word, image, pending, fns, walk>>

-----------------------------------------------------------------------------
(* From symbol to symbol.                                                  *)

SkipSymbol ==
    /\ phase = "symbols" /\ sym <= Len(symbols) /\ ~symbols[sym].func
    /\ sym' = sym + 1
    /\ UNCHANGED <<obj, phase, failed, word, image, pending, fns,
                   func, cur, st, end, pos, addr, owner, calls>>

FunctionStart ==
    /\ phase = "symbols" /\ sym <= Len(symbols) /\ symbols[sym].func /\ func = << >>
    /\ func' = <<[name |-> SymName(sym), addr |-> symbols[sym].addr]>>
    /\ sym' = sym + 1
    /\ UNCHANGED <<obj, phase, failed, word, image, pending, fns,
                   cur, st, end, pos, addr, owner, calls>>

\* translate(Function*): the nearest function after the first instruction is
\* looked for with the address of the last instruction translated.
\* Mutation: the function is not looked for.
TranslateKeepNext(m, f, at) == Start(m, f)

Translate(m, f, at) == Start(UpdateNextFuncAddr(m, f.addr + 1, at), f)

\* translate(const Func&), at the next function symbol or at the end.
FunctionEnd ==
    /\ phase = "symbols" /\ func # << >>
    /\ sym <= Len(symbols) => symbols[sym].func
    /\ LET f == Function(fns, func[1].name, func[1].addr) IN
       /\ fns' = Translate(AddFunc(fns, f), f, addr)
       /\ cur' = f /\ st' = f.addr /\ pos' = f.addr
    /\ end' = IF sym <= Len(symbols) THEN symbols[sym].addr ELSE Size
    /\ func' = << >>
    /\ phase' = "function"
    /\ UNCHANGED <<obj, failed, word, image, pending, sym, addr, owner, calls>>

SymbolsDone ==
    /\ phase = "symbols" /\ func = << >> /\ sym > Len(symbols)
    /\ phase' = "done"
    /\ UNCHANGED <<obj, failed, word, image, pending, fns, walk>>

-----------------------------------------------------------------------------
(* From instruction to instruction.                                        *)

InFunction == phase = "function" /\ ~failed /\ pos < end

\* translateInstrs: switch to the function at the address, but not to self.
AtNextFunction == pos # st /\ pos = fns.next

SwitchFunction ==
    /\ InFunction /\ AtNextFunction
    /\ addr' = pos
    /\ cur' = fns.byAddr[pos] /\ st' = pos
    /\ fns' = Translate(fns, fns.byAddr[pos], pos)
    /\ UNCHANGED <<obj, phase, failed, word, image, pending, sym, func, end, pos,
                   owner, calls>>

\* handleRelocation: a function without an entry must be ahead.
Refers(o, a) ==
    IF ~IsFunction(fns, o.to) THEN UNCHANGED <<fns, calls, failed>>
    ELSE IF o.to \notin DOMAIN fns.byAddr /\ o.to <= a
    THEN failed' = TRUE /\ UNCHANGED <<fns, calls>>
    ELSE /\ fns' = GetByAddr(fns, o.to, a)
         /\ calls' = calls \cup {<<o.to, fns'.byAddr[o.to].name>>}
         /\ UNCHANGED failed

Emit(o, a) ==
    \/ o.op = "plain" /\ UNCHANGED <<fns, calls, failed>>
    \/ /\ o.op = "jal"
       /\ fns' = GetByAddr(fns, o.to, a)
       /\ calls' = calls \cup {<<o.to, fns'.byAddr[o.to].name>>}
       /\ UNCHANGED failed
    \/ o.op = "ref" /\ Refers(o, a)

\* Mutation: only the first of the words is filled in.
PatchFirst(a) ==
    IF a \notin DOMAIN pending THEN UNCHANGED <<pending, image>>
    ELSE /\ image' = [image EXCEPT ![Min(pending[a].words)] = <<"label", a, cur.name>>]
         /\ pending' = [b \in DOMAIN pending \ {a} |-> pending[b]]

\* processPending: the words get the address of the block that starts here.
ProcessPending(a) ==
    IF a \notin DOMAIN pending THEN UNCHANGED <<pending, image>>
    ELSE /\ image' = [w \in DOMAIN image |->
                        IF w \in pending[a].words THEN <<"label", a, cur.name>>
                                                  ELSE image[w]]
         /\ pending' = [b \in DOMAIN pending \ {a} |-> pending[b]]

TranslateInstr ==
    /\ InFunction /\ ~AtNextFunction
    /\ addr' = pos
    /\ Emit(obj.code[pos], pos)
    /\ owner' = [owner EXCEPT ![pos] = cur.name]
    /\ ProcessPending(pos)
    /\ pos' = pos + 1
    /\ UNCHANGED <<obj, phase, word, sym, func, cur, st, end>>

FunctionDone ==
    /\ phase = "function" /\ ~failed /\ pos >= end
    /\ phase' = "symbols"
    /\ UNCHANGED <<obj, failed, word, image, pending, fns, walk>>

Next ==
    \/ CopyWord \/ RelocateWord \/ ImageBuilt
    \/ SkipSymbol \/ FunctionStart \/ FunctionEnd \/ SymbolsDone
    \/ SwitchFunction \/ TranslateInstr \/ FunctionDone

Spec == Init /\ [][Next]_vars

-----------------------------------------------------------------------------
(* Properties.                                                             *)

\* The addresses that the symbols give to functions, and what is translated:
\* everything from the first one on.
Translated == {a \in Addr : \E i \in 1 .. Len(symbols) :
                               symbols[i].func /\ symbols[i].addr <= a}

\* No assertion fails.
NeverFails == ~failed

\* getByAddr looks up functions by address in a map of pointers that another
\* map owns, by name: the function found is alive and is the one at the
\* address.
FunctionsByAddress ==
    \A a \in DOMAIN fns.byAddr :
        LET f == fns.byAddr[a] IN f.addr = a /\ fns.byName[f.name] = f

\* Each instruction is in the function that starts at the nearest address at or
\* below it, of those that symbols, references or calls make a function,
\* whatever the order in which they were found.
InOwnFunction ==
    phase = "done" =>
        \A a \in Translated :
            owner[a] = fns.byAddr[Max({b \in DOMAIN fns.byAddr : b <= a})].name

\* Each function that a symbol, a reference or a call has created receives the
\* code at its address.
FunctionsHaveCode ==
    phase = "done" =>
        \A a \in DOMAIN fns.byAddr \cap Translated : owner[a] = fns.byAddr[a].name

\* A call, or a reference to a function, uses the llvm function whose entry is
\* the block of its target, and which holds the instruction there.
CallsReachTheirCode ==
    phase = "done" => \A c \in calls : fns.llvm[c[2]] = c[1] /\ owner[c[1]] = c[2]

\* Every word of the data has been relocated: to the function at its address,
\* or to the block that starts there, in the function that has it.
DataRelocated ==
    phase = "done" =>
        /\ pending = << >>
        /\ \A w \in DOMAIN image :
              LET d == obj.data[w]
                  a == symbols[d.sym].addr + d.addend
              IN  IF d.sym = 0 THEN image[w] = <<"raw">>
                  ELSE IF symbols[d.sym].func
                  THEN /\ image[w] = <<"func", owner[a]>>
                       /\ fns.llvm[owner[a]] = a
                  ELSE image[w] = <<"label", a, owner[a]>>
=============================================================================
