---------------------------- MODULE RelocStream ----------------------------
(***************************************************************************)
(* Relocation of the instructions of a section (SBTRelocation): the        *)
(* relocations are read as a stream, in step with the instructions, though *)
(* not every instruction asks for its own.  The relocation of a call,      *)
(* which covers two instructions, becomes two proxies in a queue.          *)
(* Functions that calls of bare labels create are in ModuleTranslate.  The *)
(* code ignores the addend of a symbol in the text; the inputs have none.  *)
(***************************************************************************)
EXTENDS Integers, Sequences, FiniteSetsExt

CONSTANTS
    Half, Highs,  \* see RelocLookup
    Size,         \* number of instructions; addresses count them
    Programs,     \* the sections to translate: a set of sets of them
    HostAddr,     \* where the host puts each function of the guest
    ImportAddr    \* what an external symbol stands for

Low  == 2 * Half
W    == Highs * Low
Word == 0 .. W - 1
Addr == 0 .. Size - 1
NoValue == -1

\* What an instruction does with relocations: "imm" asks for its immediate,
\* "plain" has none, "zero" is an invalid encoding that is skipped.
Code == [Addr -> {"imm", "plain", "zero"}]

\* place: where the symbol is; hasSym: whether symbol information is there, or
\* all is in the addend.  hiPC: for a proxy, the address of its high part; for
\* another relocation, whatever is where the cast to a proxy looks for it.
Relocation == [offset : Addr,
               type : {"HI20", "LO12", "PCREL_HI20", "PCREL_LO12", "CALL",
                       "BRANCH", "JAL", "RELAX", "ALIGN"},
               place : {"text", "data", "external", "missing"},
               hasSym : BOOLEAN, symAddr : Word, addend : Word,
               hiPC : Word]

\* The relocations as the assembler leaves them: by address, at most one for
\* each, a RELAX behind the one it goes with, and a call on two instructions
\* that both have an immediate.
IsRelocSeq(rs, code) ==
    /\ rs \in Seq(Relocation)
    /\ \A i \in 1 .. Len(rs), j \in 1 .. Len(rs) :
          i < j => \/ rs[i].offset < rs[j].offset
                   \/ rs[i].offset = rs[j].offset /\ rs[j].type = "RELAX"
    /\ \A i \in 1 .. Len(rs) : rs[i].type = "CALL" =>
          LET next == rs[i].offset + 1 IN
          /\ next \in Addr /\ code[rs[i].offset] = "imm" /\ code[next] = "imm"
          /\ \A j \in 1 .. Len(rs) : rs[j].offset # next

\* starts: the addresses of the section's function symbols.
Program(p) == /\ p.code \in Code
              /\ IsRelocSeq(p.relocs, p.code)
              /\ p.starts \subseteq Addr /\ p.starts # {}
              /\ p.base \in Word /\ p.useICaller \in BOOLEAN

ASSUME RelocAssumption ==
    /\ Half \in Nat \ {0} /\ Highs \in Nat \ {0} /\ Size \in Nat \ {0}
    /\ \A F \in Programs : \A p \in F : Program(p)
    /\ HostAddr \in [Addr -> Word] /\ ImportAddr \in Word

VARIABLES
    prog,       \* the section
    pos,        \* address of the next instruction
    ri,         \* index of _cur, the relocation at the head of the stream
    proxies,    \* _proxyRelocs, whose front is _curP
    last,       \* _last, the relocation handled last
    lastSymVal, \* _lastSymVal, and what it referred to
    funcs,      \* addresses of the functions created
    given,      \* history: what each instruction was given
    failed      \* translation has ended with an error

vars == <<prog, pos, ri, proxies, last, lastSymVal, funcs, given, failed>>

relocs == prog.relocs
NoReloc == [offset |-> -1, type |-> "none", place |-> "none"]

-----------------------------------------------------------------------------
(* The stream.                                                             *)

FirstOf(S, n) == IF S = {} THEN n + 1 ELSE Min(S)

\* Mutation: a relocation that was passed by is not given up.
KeepStale(i, addr) == i

\* nextReloc: the first relocation from i on that says something, and the first
\* that is not of an address passed by.
SkipRelax(i) == FirstOf({j \in i .. Len(relocs) : relocs[j].type # "RELAX"},
                        Len(relocs))
CatchUp(i, addr) ==
    FirstOf({j \in i .. Len(relocs) :
                relocs[j].type # "RELAX" /\ relocs[j].offset >= addr},
            Len(relocs))

CatchUpProxies(q, addr) ==
    SubSeq(q, FirstOf({j \in 1 .. Len(q) : q[j].offset >= addr}, Len(q)), Len(q))

GetReloc(i, q, addr) ==
    LET i1 == CatchUp(i, addr)
        q1 == CatchUpProxies(q, addr)
    IN  IF i1 <= Len(relocs) /\ relocs[i1].offset = addr
        THEN [reloc |-> relocs[i1], ri |-> SkipRelax(i1 + 1), proxies |-> q1]
        ELSE IF q1 # << >> /\ q1[1].offset = addr
        THEN [reloc |-> q1[1], ri |-> i1, proxies |-> Tail(q1)]
        ELSE [reloc |-> NoReloc, ri |-> i1, proxies |-> q1]

AddProxyReloc(r) ==
    << [r EXCEPT !.type = "CALL_HI", !.hiPC = r.offset],
       [r EXCEPT !.type = "CALL_LO", !.hiPC = r.offset, !.offset = @ + 1] >>

\* The relocation that handleRelocation finds for an address: that of a call
\* is replaced by its proxies, and looked up again.
Found(addr) ==
    LET g == GetReloc(ri, proxies, addr)
    IN  IF g.reloc.type = "CALL"
        THEN GetReloc(g.ri, g.proxies \o AddProxyReloc(g.reloc), addr)
        ELSE g

-----------------------------------------------------------------------------
(* The value.                                                              *)

High(x) == ((x + Half) % W) \div Low
LowOf(x) == LET x1 == (x + Half) % W IN (x - (x1 - (x1 % Low))) % W

\* The guest address in the section that a relocation refers to.
TextAddr(r) == IF r.hasSym THEN r.symAddr ELSE r.addend
IsFunction(r) == r.place = "text" /\ TextAddr(r) \in prog.starts

SymVal(r) ==
    CASE r.place = "external" -> ImportAddr
      [] IsFunction(r) /\ ~prog.useICaller /\ r.type # "JAL" -> HostAddr[TextAddr(r)]
      [] r.place = "text" /\ (IsFunction(r) => prog.useICaller \/ r.type = "JAL")
            -> TextAddr(r)
      [] r.place = "data" ->
            (prog.base + (IF r.hasSym THEN r.symAddr ELSE 0) + r.addend) % W

RelFn(r, addr, x) ==
    CASE r.type = "HI20"                    -> High(x)
      [] r.type = "LO12"                    -> LowOf(x)
      [] r.type \in {"CALL_HI", "PCREL_HI20"} -> High(x - addr)
      [] r.type \in {"CALL_LO", "PCREL_LO12"} -> LowOf(x - r.hiPC)
      [] r.type \in {"BRANCH", "JAL"}       -> (x - addr) % W

-----------------------------------------------------------------------------
Init ==
    /\ \E F \in Programs : prog \in F
    /\ pos = Min(prog.starts)
    /\ ri = SkipRelax(1)
    /\ proxies = << >>
    /\ last = NoReloc
    /\ lastSymVal = NoValue
    /\ funcs = {}
    /\ given = [a \in Addr |-> NoValue]
    /\ failed = FALSE

\* The walk is at an instruction, and has created the function that starts there.
At(kind) == ~failed /\ pos \in Addr /\ prog.code[pos] = kind
\* Mutation: a function is not known before it is translated.
NotYetEntered == funcs

Entered == funcs \cup (prog.starts \cap {pos})

Take(g) == ri' = g.ri /\ proxies' = g.proxies

\* An instruction without an immediate does not ask.
Plain ==
    /\ At("plain")
    /\ pos' = pos + 1
    /\ funcs' = Entered
    /\ UNCHANGED <<prog, ri, proxies, last, lastSymVal, given, failed>>

\* skipRelocation.
SkipRelocation ==
    /\ At("zero")
    /\ Take(GetReloc(ri, proxies, pos))
    /\ pos' = pos + 1
    /\ funcs' = Entered
    /\ UNCHANGED <<prog, last, lastSymVal, given, failed>>

\* handleRelocation finds nothing: the immediate is the one in the instruction.
NoRelocation ==
    /\ At("imm")
    /\ LET g == Found(pos) IN
       /\ g.reloc = NoReloc
       /\ Take(g)
    /\ given' = [given EXCEPT ![pos] = NoValue]
    /\ pos' = pos + 1
    /\ funcs' = Entered
    /\ UNCHANGED <<prog, last, lastSymVal, failed>>

\* Errors: a relocation of unknown type, a symbol that libc lacks, a function
\* that is not created and not ahead.
Rejected(r) ==
    \/ r.type = "ALIGN"
    \/ r.place = "missing"
    \/ IsFunction(r) /\ TextAddr(r) \notin Entered /\ TextAddr(r) <= pos

HandleRelocation ==
    /\ At("imm")
    /\ LET g == Found(pos)
           r == g.reloc
       IN  /\ r # NoReloc /\ ~Rejected(r)
           /\ Take(g)
           /\ given' = [given EXCEPT ![pos] = RelFn(r, pos, SymVal(r))]
           /\ lastSymVal' = IF IsFunction(r) THEN TextAddr(r) ELSE SymVal(r)
           /\ last' = r
           /\ funcs' = Entered \cup (IF IsFunction(r) THEN {TextAddr(r)} ELSE {})
    /\ pos' = pos + 1
    /\ UNCHANGED <<prog, failed>>

Fail ==
    /\ At("imm")
    /\ LET g == Found(pos) IN
       /\ g.reloc # NoReloc /\ Rejected(g.reloc)
       /\ Take(g)
    /\ funcs' = Entered
    /\ failed' = TRUE
    /\ UNCHANGED <<prog, pos, last, lastSymVal, given>>

Next == Plain \/ SkipRelocation \/ NoRelocation \/ HandleRelocation \/ Fail

Spec == Init /\ [][Next]_vars

\* isCall, as translateBranch asks it of the instruction just handled.
\* Mutation: the address is not compared.
IsCallStale(addr) == last.type = "CALL_LO"

IsCall(addr) == last.offset = addr /\ last.type = "CALL_LO"

-----------------------------------------------------------------------------
(* Properties.                                                             *)

\* The relocation of an address, by looking it up.
RelocsAt(p, a) == {i \in 1 .. Len(p.relocs) :
                      p.relocs[i].offset = a /\ p.relocs[i].type # "RELAX"}
RelocAt(p, a) == IF RelocsAt(p, a) = {} THEN NoReloc
                 ELSE p.relocs[CHOOSE i \in RelocsAt(p, a) : TRUE]

\* The second instruction of a call whose first one has been translated.
EndsCall(a) == LET c == RelocAt(prog, a - 1)
               IN  c.type = "CALL" /\ c.place # "missing" /\ a > Min(prog.starts)

\* What the instruction at a wants: its relocation's part of the value, and
\* the one after a call's the low part of the distance from the call.
Wanted(a) ==
    LET r == RelocAt(prog, a)
        c == RelocAt(prog, a - 1)
        want(part, of) == [part |-> part, of |-> of]
    IN  IF prog.code[a] # "imm" \/ r.place = "missing" THEN want("none", 0)
        ELSE IF EndsCall(a) THEN want("low", SymVal(c) - (a - 1))
        ELSE CASE r.type = "HI20"  -> want("high", SymVal(r))
               [] r.type = "LO12"  -> want("low", SymVal(r))
               [] r.type \in {"CALL", "PCREL_HI20"} -> want("high", SymVal(r) - a)
               [] r.type = "PCREL_LO12" -> want("low", SymVal(r) - (a - 1))
               [] r.type \in {"BRANCH", "JAL"} -> want("whole", (SymVal(r) - a) % W)
               [] r.type \in {"none", "ALIGN"} -> want("none", 0)

\* Each instruction that asks gets its own relocation, as if it had looked its
\* address up, although the stream stands still while instructions do not ask
\* and the second half of a call has no entry in it; and the two halves of an
\* address add up to it whatever the sign of the low one.
Lookup == INSTANCE RelocLookup WITH wanted <- [a \in Addr |-> Wanted(a)]
ImplementsLookup == Lookup!LookupSpec

\* translateBranch, which sees a jalr with or without a relocation, is told
\* that it ends a call exactly when it does, and to which symbol: _last and
\* _lastSymVal are left over from an earlier instruction otherwise.
CallsFound ==
    LET a == pos - 1
        c == RelocAt(prog, a - 1)
    IN  a \in Addr =>
          /\ IsCall(a) <=> EndsCall(a)
          /\ IsCall(a) => lastSymVal = IF IsFunction(c) THEN TextAddr(c) ELSE SymVal(c)

\* The assertion of handleRelocation: a function that a relocation refers to
\* and that does not exist yet lies ahead (in particular a function may refer
\* to itself).
NewFunctionsAhead ==
    \A i \in 1 .. Len(relocs) :
        LET r == relocs[i] IN
        /\ pos \in Addr /\ r.offset = pos /\ IsFunction(r)
        => TextAddr(r) \in Entered \/ TextAddr(r) > pos
=============================================================================
