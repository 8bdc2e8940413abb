----------------------------- MODULE SourceCall -----------------------------
(***************************************************************************)
(* What a call of a library function means in the source program: the      *)
(* library hears every argument, in order and unchanged, and the caller    *)
(* then gets its result.  A printing function may hear its arguments a     *)
(* few at a time.                                                          *)
(***************************************************************************)
EXTENDS Naturals, Sequences

CONSTANT None   \* no result yet

VARIABLES
    meant,      \* the arguments of the call, as the library should hear them
    value,      \* the result of the call
    heard,      \* the arguments the library has heard
    returned    \* the result the caller got, or None

vars == <<meant, value, heard, returned>>

Init == heard = <<>> /\ returned = None

Hear ==
    /\ \E n \in Len(heard) + 1 .. Len(meant) : heard' = SubSeq(meant, 1, n)
    /\ UNCHANGED <<meant, value, returned>>

Return ==
    /\ heard = meant
    /\ returned = None
    /\ returned' = value
    /\ UNCHANGED <<meant, value, heard>>

Spec == Init /\ [][Hear \/ Return]_vars
=============================================================================
