--------------------------- MODULE ExternalCalls ---------------------------
(***************************************************************************)
(* A call of a library function, from the source of the guest program to   *)
(* the host's library and back.  The printf-break pass first breaks a      *)
(* printf into calls the translator can pass (PrintfBreak.cpp); the        *)
(* translator imports the library functions the guest refers to and gives  *)
(* each a fake guest address (Translator::import); at run time the guest   *)
(* places the arguments by its calling convention, and a Caller moves them *)
(* from the guest's registers to the parameters of the host's function,    *)
(* either where the guest calls the function by name or in the switch of   *)
(* rv32_icaller, and moves the result back.                                *)
(*                                                                         *)
(* A format string is the sequence of its conversions, the text in between *)
(* goes with the conversion before it; a value is the sequence of its      *)
(* 32-bit words.  long double values travel by reference, through          *)
(* substitutes that take pointers (g_funcSubst), so that they are ints.    *)
(***************************************************************************)
EXTENDS Naturals, Sequences, SequencesExt, FiniteSets

CONSTANTS
    Calls,      \* the calls of the source: [fn, fmt, args, ptr]; ptr says that
                \* the function is called through a pointer
    Others,     \* the names of other functions the program may refer to
    Library,    \* the types of the library's functions: name -> [params,
                \* fmt (the index of the format, or 0), vararg, ret]
    Subst,      \* g_funcSubst: name -> name
    None

VARIABLES
    hf,         \* the ABI passes floats in floating-point registers
    call,       \* the call of the source
    pc,         \* the stage the call is in
    i,          \* the loop of breakPrintfCall: the argument it is at
    next,       \* _i: the argument to be put in a piece next
    pieces,     \* _pcalls: the pieces the printf is broken into
    issued,     \* the calls that replace the one of the source
    funMap,     \* _funMap: the imported functions, with their fake addresses
    funcByAddr, \* _funcByAddr: the imported functions by address
    made,       \* how many of the issued calls were made
    regs,       \* the guest's argument registers [x, f]: sequences of words
    callee,     \* the function of the host that was called
    passed,     \* its arguments: a sequence of values
    heard,      \* the arguments that the library heard so far
    returned    \* the result, or None

breakVars == <<i, next, pieces>>
importVars == <<funMap, funcByAddr>>
runVars == <<made, regs, callee, passed, heard, returned>>
vars == <<hf, call, pc, breakVars, issued, importVars, runVars>>

MaxArgs == 8             \* Caller::MAX_ARGS
FirstExtFuncAddr == 64   \* FIRST_EXT_FUNC_ADDR: beyond the guest's code
-----------------------------------------------------------------------------
(* Values.                                                                 *)

Word(of, part) == [of |-> of, part |-> part]
Zero == Word(0, "zero")
Junk == Word(0, "junk")

\* The words of value number k, of a type.
Value(k, type) ==
    CASE type = "double" -> <<Word(k, "lo"), Word(k, "hi")>>
      [] type = "void" -> <<>>
      [] OTHER -> <<Word(k, "word")>>

\* The types of the arguments that a conversion takes.
Takes(conv) ==
    CASE conv = "%f" -> <<"double">>
      [] conv = "%*d" -> <<"int", "int">>
      [] OTHER -> <<"int">>

TypesOf(fmt) == FlattenSeq([k \in DOMAIN fmt |-> Takes(fmt[k])])

Arg(type, k) == [type |-> type, value |-> Value(k, type)]

Size(type) == IF type = "double" THEN 2 ELSE 1
WordsBefore(types, k) ==
    k - 1 + Cardinality({j \in 1 .. k - 1 : types[j] = "double"})

\* What a function hears that looks for values of the types in the words.
Read(types, words) ==
    LET at(n) == IF n <= Len(words) THEN words[n] ELSE Junk
    IN [k \in DOMAIN types |->
           [type |-> types[k],
            value |-> [j \in 1 .. Size(types[k]) |-> at(WordsBefore(types, k) + j)]]]

\* What a function of the library hears when it is passed the values.
\* A printing function takes from the words behind the format what the format
\* asks for.
Hears(fn, fmt, vals) ==
    LET sig == Library[fn]
        named(n) == [k \in 1 .. n |-> [type |-> sig.params[k], value |-> vals[k]]]
    IN IF sig.fmt = 0
       THEN named(Len(sig.params))
       ELSE named(sig.fmt - 1) \o
            Read(TypesOf(fmt), FlattenSeq(SubSeq(vals, sig.fmt + 1, Len(vals))))

\* The result: a printing function returns how much it printed.
Result(fn, fmt) ==
    IF Library[fn].fmt > 0 THEN <<Word(Len(fmt), "printed")>>
                           ELSE Value(0, Library[fn].ret)
-----------------------------------------------------------------------------
(* The printf-break pass.                                                  *)

N == Len(call.args) - 1      \* _n: the variadic arguments
IsDouble(k) == call.args[k + 1].type = "double"

\* The pass looks at calls of printf by its name.
ByName(c) == c.fn = "printf" /\ ~c.ptr

\* Mutation: only the number of arguments counts.
NeededForMany(c) == ByName(c) /\ Len(c.args) - 1 >= 5

\* breakPrintfCall breaks those with five arguments or with a double.
Needed(c) ==
    /\ ByName(c)
    /\ \/ Len(c.args) - 1 >= 5
       \/ \E k \in 2 .. Len(c.args) : c.args[k].type = "double"

Piece(fmt, n, isDouble) == [fmt |-> fmt, args |-> n, isDouble |-> isDouble]

\* The arguments of the last piece, of all N, when n more go to another one.
\* Mutation: _i counts from 1, and 1 is not taken off.
RestOffByOne(s, n) == N - s.next - n

Rest(s, n) == N - (s.next - 1) - n

\* split: the next n arguments go with the conversions up to the n+1st '%'.
Split(s, n, isDouble) ==
    LET fmt == Last(s.pieces).fmt
        rest == SubSeq(fmt, n + 1, Len(fmt))
        back(piece) == [s.pieces EXCEPT ![Len(s.pieces)] = piece]
    IN [pieces |->
            CASE Len(fmt) > n ->
                   Append(back(Piece(SubSeq(fmt, 1, n), n, isDouble)),
                          Piece(rest, Rest(s, n), FALSE))
              [] Len(fmt) <= n /\ isDouble -> back(Piece(fmt, n, TRUE))
              [] OTHER -> s.pieces,
        next |-> s.next + n,
        ok |-> s.ok /\ Len(fmt) >= n /\ (isDouble => n = 1)]

\* Mutation: one argument too many.
GroupOfFive == 5

GroupSize == 4    \* "handle up to 4 args each time"

\* Mutation: the loop is left at a double without the increment.
AtDouble(d) == d

\* "don't forget to increment i": the loop is left before its own increment.
AfterDouble(d) == d + 1

\* One round of the loop: the integers of a group, up to the first double.
SplitGroup ==
    LET s == [pieces |-> pieces, next |-> next, ok |-> TRUE]
        end == Min({i + GroupSize, N + 1})
        doubles == {k \in i .. end - 1 : IsDouble(k)}
        d == Min(doubles)
    IN IF doubles = {}
       THEN [split |-> Split(s, end - i, FALSE), i |-> end]
       ELSE [split |-> Split(IF d > i THEN Split(s, d - i, FALSE) ELSE s, 1, TRUE),
             i |-> AfterDouble(d)]

BreakGroup ==
    /\ pc = "break"
    /\ i <= N
    /\ LET s == SplitGroup.split
       IN /\ pieces' = s.pieces
          /\ next' = s.next
          /\ i' = SplitGroup.i
          /\ pc' = IF s.ok THEN pc ELSE "failed"
    /\ UNCHANGED <<hf, call, issued, importVars, runVars>>

\* argit behind the arguments of piece k.
ArgIt[k \in 0 .. Len(pieces)] ==
    IF k = 0 THEN 0
    ELSE ArgIt[k - 1] + (IF pieces[k].isDouble THEN 1 ELSE pieces[k].args)

PieceArgs(k) ==
    <<call.args[1]>> \o SubSeq(call.args, 2 + ArgIt[k - 1], 1 + ArgIt[k])

PieceFn(piece) == IF piece.isDouble THEN "sbt_printf_d" ELSE "printf"

IssueNewCalls ==
    /\ pc = "break"
    /\ i > N
    /\ IF ArgIt[Len(pieces)] = N
       THEN /\ issued' = [k \in DOMAIN pieces |->
                             [fn |-> PieceFn(pieces[k]),
                              fmt |-> pieces[k].fmt,
                              args |-> PieceArgs(k),
                              ptr |-> FALSE]]
            /\ pc' = "import"
       ELSE /\ pc' = "failed"
            /\ UNCHANGED issued
    /\ UNCHANGED <<hf, call, breakVars, importVars, runVars>>
-----------------------------------------------------------------------------
(* Imports.                                                                *)

\* Map::upsert.
Upsert(m, key, val) == [k \in DOMAIN m \cup {key} |-> IF k = key THEN val ELSE m[k]]

ExternalName(name) == IF name \in DOMAIN Subst THEN Subst[name] ELSE name

AddrOf(name) == funMap[ExternalName(name)]

\* Mutation: the address is not advanced.
SameExtFuncAddr == FirstExtFuncAddr

NextExtFuncAddr == FirstExtFuncAddr + 4 * Cardinality(DOMAIN funMap)

\* import, for a relocation that refers to the name: a function that was not
\* imported yet gets the next address.
Import(name) ==
    /\ pc = "import"
    /\ ExternalName(name) \notin DOMAIN funMap
    /\ funMap' = Upsert(funMap, ExternalName(name), NextExtFuncAddr)
    /\ funcByAddr' = Upsert(funcByAddr, NextExtFuncAddr, ExternalName(name))
    /\ UNCHANGED <<hf, call, pc, breakVars, issued, runVars>>

Run ==
    /\ pc = "import"
    /\ \A k \in DOMAIN issued : ExternalName(issued[k].fn) \in DOMAIN funMap
    /\ pc' = "call"
    /\ UNCHANGED <<hf, call, breakVars, issued, importVars, runVars>>
-----------------------------------------------------------------------------
(* The run of the translated program.                                      *)

Current == issued[made + 1]

\* RISC-V calling convention: words go to a0-a7 and then to the stack, those
\* of a variadic double start at an even register; a named float goes to fa0-7
\* when the ABI is hard-float.
InFReg(type) == hf /\ type \in {"float", "double"}

\* The argument registers with one more argument.
Place(r, arg, named) ==
    LET aligned == IF ~named /\ arg.type = "double" /\ Len(r.x) % 2 = 1
                   THEN Append(r.x, Junk) ELSE r.x
    IN IF named /\ InFReg(arg.type) THEN [r EXCEPT !.f = Append(@, arg.value)]
                                    ELSE [r EXCEPT !.x = aligned \o arg.value]

\* With the first k arguments of the call, for each k.
Placing(c) ==
    LET fixed == Len(Library[ExternalName(c.fn)].params)
        placed[k \in 0 .. Len(c.args)] ==
            IF k = 0 THEN [x |-> <<>>, f |-> <<>>]
                     ELSE Place(placed[k - 1], c.args[k], k <= fixed)
    IN placed

Placed(c) == Placing(c)[Len(c.args)]

GuestCalls ==
    /\ pc = "call"
    /\ regs' = Placed(Current)
    /\ pc' = IF Current.ptr THEN "icall" ELSE "direct"
    /\ UNCHANGED <<hf, call, breakVars, issued, importVars, made, callee, passed,
                   heard, returned>>

\* Builder::load of a register, past a7 included.
Reg(k) == IF k < MaxArgs /\ k < Len(regs.x) THEN regs.x[k + 1] ELSE Junk
FReg(k) == IF k < Len(regs.f) THEN regs.f[k + 1] ELSE <<Junk>>

\* Caller::Caller: the number of parameters to pass, and of words to pass on.
TotalArgs(fn) ==
    LET fixed == Len(Library[fn].params)
    IN IF Library[fn].vararg THEN Min({fixed + 4, MaxArgs}) ELSE fixed

WordArgs(fn) ==
    LET sig == Library[fn]
        fixed == Len(sig.params)
        words == IF ~hf \/ sig.vararg THEN WordsBefore(sig.params, fixed + 1) ELSE fixed
    IN IF sig.vararg THEN Min({words + 4, MaxArgs}) ELSE words

\* The types of the parameters, and of the words behind them.
ParamTypes(fn) ==
    LET params == Library[fn].params
    IN [k \in 1 .. TotalArgs(fn) |-> IF k <= Len(params) THEN params[k] ELSE "int"]

\* nextArg: the registers that values of the types take, with one more value.
Take(r, type) == IF InFReg(type) THEN [r EXCEPT !.f = @ + 1]
                                 ELSE [r EXCEPT !.x = @ + Size(type)]

Taking(types) ==
    LET taken[k \in 0 .. Len(types)] ==
            IF k = 0 THEN [x |-> 0, f |-> 0] ELSE Take(taken[k - 1], types[k])
    IN taken

\* nextArg and castArg, for each parameter: the next one or two words, zero
\* past them, or the next floating-point register.
CallerArgs(fn, words) ==
    LET types == ParamTypes(fn)
        taken == Taking(types)
        word(k) == IF k < words THEN Reg(k) ELSE Zero
    IN [k \in DOMAIN types |->
           IF InFReg(types[k])
           THEN FReg(taken[k - 1].f)
           ELSE [j \in 1 .. Size(types[k]) |-> word(taken[k - 1].x + j - 1)]]

\* callExternal where the guest calls the function by its name: no limit.
CallExternal ==
    /\ pc = "direct"
    /\ callee' = ExternalName(Current.fn)
    /\ passed' = CallerArgs(callee', 2 * MaxArgs)
    /\ pc' = "host"
    /\ UNCHANGED <<hf, call, breakVars, issued, importVars, made, regs, heard, returned>>

\* handleICall and callICaller: a0-a7 are passed to the switch over the fake
\* addresses, which has a Caller for each function.
CallICaller ==
    /\ pc = "icall"
    /\ AddrOf(Current.fn) >= FirstExtFuncAddr
    /\ callee' = funcByAddr[AddrOf(Current.fn)]
    /\ passed' = CallerArgs(callee', WordArgs(callee'))
    /\ pc' = "host"
    /\ UNCHANGED <<hf, call, breakVars, issued, importVars, made, regs, heard, returned>>

SetFirst(seq, words) == words \o SubSeq(seq, Len(words) + 1, Len(seq))

\* The function of the host runs; handleReturn.
HostReturns ==
    /\ pc = "host"
    /\ heard' = heard \o Hears(callee, Current.fmt, passed)
    /\ regs' = LET result == Result(callee, Current.fmt)
               IN IF InFReg(Library[callee].ret)
                  THEN [regs EXCEPT !.f = SetFirst(@, <<result>>)]
                  ELSE [regs EXCEPT !.x = SetFirst(@, result)]
    /\ pc' = "return"
    /\ UNCHANGED <<hf, call, breakVars, issued, importVars, made, callee, passed, returned>>

\* What the calling convention says of the result.
GuestResult(type) ==
    CASE type = "void" -> <<>>
      [] InFReg(type) -> FReg(0)
      [] type = "double" /\ ~hf -> <<Reg(0), Reg(1)>>
      [] OTHER -> <<Reg(0)>>

\* The results of the pieces of a printf are added up.
AddResult(sum, result) ==
    IF made = 0 THEN result ELSE <<Word(sum[1].of + result[1].of, "printed")>>

GuestGetsResult ==
    /\ pc = "return"
    /\ returned' = AddResult(returned, GuestResult(Library[ExternalName(Current.fn)].ret))
    /\ made' = made + 1
    /\ pc' = IF made' = Len(issued) THEN "done" ELSE "call"
    /\ UNCHANGED <<hf, call, breakVars, issued, importVars, regs, callee, passed, heard>>
-----------------------------------------------------------------------------
(* The library and the calls of the source.                                *)

Types == {"int", "float", "double"}

\* Of the functions of libc.c: a variadic one takes its format last, behind ints,
\* and a printing one returns an int; the parameters fit the registers a0-a7.
\* import asserts the number of parameters (Translator.cpp:282), and castArg would
\* take a fixed double of a variadic function from a floating-point register.
GoodSig(sig) ==
    /\ sig.params \in Seq(Types) /\ sig.fmt \in 0 .. Len(sig.params)
    /\ WordsBefore(sig.params, Len(sig.params) + 1) <= MaxArgs
    /\ sig.vararg \in BOOLEAN
    /\ sig.vararg => /\ sig.fmt = Len(sig.params) /\ sig.fmt > 0
                     /\ \A k \in 1 .. Len(sig.params) : sig.params[k] = "int"
    /\ sig.fmt > 0 => sig.ret = "int"
    /\ sig.ret \in Types \cup {"void"}

GoodLibrary ==
    /\ {"printf", "sbt_printf_d"} \subseteq DOMAIN Library
    /\ \A fn \in DOMAIN Library : GoodSig(Library[fn])
    /\ Library["printf"].params = <<"int">> /\ Library["printf"].vararg
    /\ Library["sbt_printf_d"].params = <<"int", "double">>
    /\ Library["sbt_printf_d"].fmt = 1 /\ ~Library["sbt_printf_d"].vararg
    /\ {"printf", "sbt_printf_d"} \cap DOMAIN Subst = {}

ASSUME LibraryAssumption == GoodLibrary

SigOf(c) == Library[ExternalName(c.fn)]
Fixed(c) == Len(SigOf(c).params)
ArgTypes(c) == [k \in 1 .. Len(c.args) |-> c.args[k].type]

\* Each argument has the words of its type.
GoodArgs(c) ==
    /\ Len(c.args) \in Nat /\ c.args = [k \in 1 .. Len(c.args) |-> c.args[k]]
    /\ \A k \in 1 .. Len(c.args) :
          LET type == c.args[k].type
          IN /\ type \in Types
             /\ c.args[k] = [type |-> type,
                             value |-> [j \in 1 .. Size(type) |-> c.args[k].value[j]]]

\* A call that the translator can pass: its arguments are those that the function
\* names and those that the format asks for; a variadic one has no more words than
\* a Caller passes on, and each double begins at an even word.
GoodCall(c) ==
    LET types == ArgTypes(c)
        n == Len(c.args)
    IN /\ ExternalName(c.fn) \in DOMAIN Library
       /\ GoodArgs(c)
       /\ Fixed(c) <= n /\ \A k \in 1 .. Fixed(c) : types[k] = SigOf(c).params[k]
       /\ ~SigOf(c).vararg => n = Fixed(c)
       /\ SigOf(c).fmt > 0 => SubSeq(types, SigOf(c).fmt + 1, n) = TypesOf(c.fmt)
       /\ SigOf(c).vararg =>
             /\ WordsBefore(types, n + 1) <= TotalArgs(ExternalName(c.fn))
             /\ \A k \in Fixed(c) + 1 .. n :
                   types[k] = "double" => WordsBefore(types, k) % 2 = 0

\* A printf: one argument for each conversion, of its type.
Convs == {"%d", "%f"}
TypeOf(conv) == IF conv = "%f" THEN "double" ELSE "int"

GoodPrintf(c) ==
    /\ GoodArgs(c) /\ c.fmt \in Seq(Convs) /\ Len(c.args) = Len(c.fmt) + 1
    /\ c.args[1].type = "int"
    /\ \A k \in 1 .. Len(c.fmt) : c.args[k + 1].type = TypeOf(c.fmt[k])

\* The source calls printf with any arguments, when it does so by its name, and the
\* others with arguments that can be passed as they are.
GoodSource(c) == IF ByName(c) THEN GoodPrintf(c) ELSE GoodCall(c)

ASSUME CallsAssumption == \A c \in Calls : GoodSource(c)
-----------------------------------------------------------------------------
\* handleICall aborts a hard-float program that calls a library function
\* through a pointer, so that only soft-float programs do.
Init ==
    /\ hf \in BOOLEAN
    /\ call \in Calls
    /\ call.ptr => ~hf
    /\ pc = IF Needed(call) THEN "break" ELSE "import"
    /\ i = 1
    /\ next = 1
    /\ pieces = <<Piece(call.fmt, N, FALSE)>>
    /\ issued = <<call>>
    /\ funMap = <<>>
    /\ funcByAddr = <<>>
    /\ made = 0
    /\ regs = [x |-> <<>>, f |-> <<>>]
    /\ callee = None
    /\ passed = <<>>
    /\ heard = <<>>
    /\ returned = None

\* Mutation: calls refer to what they call, addresses that are loaded do not.
RefersByName == {issued[k].fn : k \in {n \in DOMAIN issued : ~issued[n].ptr}} \cup Others

\* The names that the program's relocations refer to.
Refers == {issued[k].fn : k \in DOMAIN issued} \cup Others

Next ==
    \/ BreakGroup \/ IssueNewCalls
    \/ \E name \in Refers : Import(name)
    \/ Run
    \/ GuestCalls \/ CallExternal \/ CallICaller \/ HostReturns \/ GuestGetsResult

\* The passes and the program run until they are done; how many names the
\* program refers to is finite.
Spec == Init /\ [][Next]_vars
FairSpec == Spec /\ WF_vars(Next)
-----------------------------------------------------------------------------
(* Properties.                                                             *)

\* Breaking a printf never runs into the assertion that the format string has
\* a conversion for every argument, nor into the one that every argument was
\* put in a call (PrintfBreak.cpp:306, 388), wherever the doubles are.
BreakNeverFails == pc # "failed"

\* A broken printf consists of calls that the translator can pass: a double
\* travels alone through sbt_printf_d, at most four words follow the format of
\* a printf, and each format asks for just the arguments of its call.
PiecesPassable ==
    Needed(call) /\ pc \notin {"break", "failed"} =>
        \A k \in DOMAIN issued :
            LET c == issued[k]
                types == [n \in DOMAIN Tail(c.args) |-> c.args[n + 1].type]
            IN /\ types = TypesOf(c.fmt)
               /\ \/ c.fn = "sbt_printf_d" /\ types = <<"double">>
                  \/ c.fn = "printf" /\ Len(types) <= 4 /\ Range(types) \subseteq {"int"}

\* The function that the host calls is the one that the guest refers to, by
\* name or by the address that a pointer to it holds, whatever was imported
\* before it and under whatever names.
CalleeMeant == pc = "host" => callee = ExternalName(Current.fn)

\* What the library should hear of a call: all but the format.
MeantBy(c) ==
    LET fmt == Library[ExternalName(c.fn)].fmt
    IN SubSeq(c.args, 1, fmt - 1) \o SubSeq(c.args, fmt + 1, Len(c.args))

Source == INSTANCE SourceCall WITH
    meant <- MeantBy(call),
    value <- Result(ExternalName(call.fn), call.fmt),
    returned <- IF pc = "done" THEN returned ELSE None

\* The library hears the arguments of the source's call, all of them, in order
\* and unchanged, however the call is broken and on whatever path its words
\* travel, and the program gets the result: of all pieces when there are some.
ImplementsSource == Source!Spec

\* Every round of the loop of breakPrintfCall gets further, to the argument after
\* the last one that was split off: its index, which is incremented by hand where
\* the loop is left at a double, keeps in step with _i, which split advances.
\* Otherwise a double would be split off again and again.
RoundsAdvance ==
    [][pc = "break" /\ pc' = "break" => i < i' /\ i' = next']_vars

\* The pass comes to the end of a printf, however it is broken, and the program to
\* that of the call: nothing waits for a piece or an import that never comes.
CallEnds == <>(pc = "done")
=============================================================================
