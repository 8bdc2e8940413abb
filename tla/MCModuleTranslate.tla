------------------------- MODULE MCModuleTranslate -------------------------
(***************************************************************************)
(* Model-checking instances of ModuleTranslate.                            *)
(***************************************************************************)
EXTENDS ModuleTranslate, SequencesExt

Plain == [op |-> "plain", to |-> 0]
Raw   == [sym |-> 0, addend |-> 0]

\* The symbols at the addresses where kind says so, named by their order; an
\* alias is a second function symbol.
SymbolsOf(kind) ==
    LET symbol(a, i) == [addr |-> a, name |-> 2 * a + i, func |-> kind[a] # "label"]
        at(a) == CASE kind[a] = "none"  -> << >>
                   [] kind[a] = "alias" -> << symbol(a, 0), symbol(a, 1) >>
                   [] OTHER             -> << symbol(a, 0) >>
    IN  FlattenSeq([i \in 1 .. Size |-> at(i - 1)])

HasFunc(kind) == \E a \in Addr : kind[a] # "none" /\ kind[a] # "label"
Kinds  == {k \in [Addr -> {"none", "func", "label"}] : HasFunc(k)}

\* The function symbol at or below an address, or -1 before the first.
HomeIn(kind, a) ==
    LET below == {b \in 0 .. a : kind[b] \in {"func", "alias"}}
    IN  IF below = {} THEN -1 ELSE Max(below)

\* Calls of functions that have a symbol, and of labels ahead in the same one.
\* What has two symbols is not referred to from before.
GoodCalls(kind, code) ==
    \A a \in Addr :
        LET t == code[a].to IN
        /\ code[a].op = "jal" => \/ kind[t] \in {"func", "alias"}
                                 \/ t > a /\ HomeIn(kind, t) = HomeIn(kind, a)
        /\ code[a] # Plain /\ kind[t] = "alias" => t <= a

\* Calls of labels in other functions too.
LabelCalls(kind, code) ==
    \A a \in Addr : code[a].op = "jal" =>
        kind[code[a].to] = "func" \/ code[a].to > a

WithOps(n) == {c \in [Addr -> Op] : Cardinality({a \in Addr : c[a] # Plain}) <= n}

\* Two calls or references, and no data.
Calls(kinds, Allowed(_, _)) ==
    {[symbols |-> SymbolsOf(p[1]), code |-> p[2], data |-> << >>] :
        p \in {q \in kinds \X WithOps(2) : Allowed(q[1], q[2])}}

Aliases == {k \in [Addr -> {"none", "func", "alias"}] :
               Cardinality({a \in Addr : k[a] = "alias"}) = 1}

\* Two data words, and a call or reference.  A label is behind some function
\* symbol: what is before the first is not translated.
WordsOf(syms) ==
    {Raw} \cup {[sym |-> i, addend |-> 0] :
                   i \in {k \in DOMAIN syms : \E j \in 1 .. k : syms[j].func}}

Data ==
    UNION {[symbols : {SymbolsOf(k)}, code : {c \in WithOps(1) : GoodCalls(k, c)},
            data : WordsOf(SymbolsOf(k)) \X WordsOf(SymbolsOf(k))] : k \in Kinds}

MCObjects == {Calls(Kinds, GoodCalls), Calls(Aliases, GoodCalls), Data}

FunctionKinds == {k \in Kinds : \A a \in Addr : k[a] # "label"}
LabelCallObjects == {Calls(FunctionKinds, LabelCalls)}
=============================================================================
