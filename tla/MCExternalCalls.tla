-------------------------- MODULE MCExternalCalls --------------------------
(* Calls of the functions of sbt/libc.c, and printfs of up to MaxConvs       *)
(* conversions.                                                              *)
EXTENDS ExternalCalls

CONSTANT MaxConvs

Sig(params, fmt, vararg, ret) ==
    [params |-> params, fmt |-> fmt, vararg |-> vararg, ret |-> ret]

LibC == [
    printf        |-> Sig(<<"int">>, 1, TRUE, "int"),
    fprintf       |-> Sig(<<"int", "int">>, 2, TRUE, "int"),
    sbt_printf_d  |-> Sig(<<"int", "double">>, 1, FALSE, "int"),
    abort         |-> Sig(<<>>, 0, FALSE, "void"),
    malloc        |-> Sig(<<"int">>, 0, FALSE, "int"),
    memcpy        |-> Sig(<<"int", "int", "int">>, 0, FALSE, "int"),
    sqrtf         |-> Sig(<<"float">>, 0, FALSE, "float"),
    pow           |-> Sig(<<"double", "double">>, 0, FALSE, "double"),
    ldexp         |-> Sig(<<"double", "int">>, 0, FALSE, "double"),
    sincos        |-> Sig(<<"double", "int", "int">>, 0, FALSE, "void"),
    difftime      |-> Sig(<<"int", "int">>, 0, FALSE, "double"),
    sbt__trunctfdf2  |-> Sig(<<"int">>, 0, FALSE, "double"),
    sbt__extenddftf2 |-> Sig(<<"int", "double">>, 0, FALSE, "void")]

SoftFloat == [__trunctfdf2 |-> "sbt__trunctfdf2", __extenddftf2 |-> "sbt__extenddftf2"]

Typed(types) == [k \in DOMAIN types |-> Arg(types[k], k)]

Call(fn, fmt, ptr) ==
    [fn |-> fn, fmt |-> fmt, ptr |-> ptr,
     args |-> Typed(LibC[ExternalName(fn)].params \o
                    (IF LibC[ExternalName(fn)].vararg THEN TypesOf(fmt) ELSE <<>>))]

Formats(convs, n) == UNION {[1 .. k -> convs] : k \in 0 .. n}

Plain == {fn \in DOMAIN LibC : LibC[fn].fmt = 0}

\* A printf that is not broken, and other variadic functions, have at most four
\* words behind their fixed arguments, and their doubles, if any, where the
\* words of the host are: with two fixed arguments before them.
AllCalls ==
    {Call("printf", fmt, FALSE) : fmt \in Formats({"%d", "%f"}, MaxConvs)}
    \cup {Call("printf", fmt, TRUE) : fmt \in Formats({"%d"}, 4)}
    \cup {Call("fprintf", fmt, ptr) :
              fmt \in Formats({"%d"}, 4) \cup {<<"%f">>, <<"%f", "%f">>, <<"%f", "%d">>},
              ptr \in BOOLEAN}
    \cup {Call(fn, <<>>, ptr) : fn \in Plain \cup DOMAIN SoftFloat, ptr \in BOOLEAN}

OtherNames == {"__trunctfdf2"}
=============================================================================
