---------------------------- MODULE MCGuestCode ----------------------------
(***************************************************************************)
(* Sets of guest functions and of labels for the model-checking instances. *)
(***************************************************************************)
EXTENDS GuestCode

PlainOf(ops)  == [op : ops \ Direct, target : {0}]
DirectOf(ops) == [op : ops \cap Direct, target : Addr]

\* Guest code over the given operations.  handleJump asserts that no jump goes
\* to itself; a function that ends in a conditional branch would go on into
\* whatever follows it.
CodeOver(ops) ==
    {c \in [Addr -> PlainOf(ops) \cup DirectOf(ops)] :
        /\ \A a \in Addr : c[a].op \in Direct => c[a].target # a
        /\ c[Size - 1].op # "branch"}

NoLabels(c) == {{}}

\* Everything the walk may meet, the inputs it mistreats included, but for an
\* instruction that calls itself: updateNextFuncAddr then takes the address
\* that is being translated for the next function, and forgets the one ahead.
AnyCode      == {c \in [Addr -> PlainOf(Ops) \cup DirectOf(Ops)] :
                    \A a \in Addr : c[a].op = "call" => c[a].target # a}
AnyLabels(c) == SUBSET Addr

\* The same where the last instruction is a plain one, to keep the run small.
AnyLabelsIfPadded(c) == IF c[Size - 1].op = "plain" THEN SUBSET Addr ELSE {{}}

\* Every control-flow operation within one function, which ends in a return.
OneFunction ==
    {c \in CodeOver({"plain", "region", "ret", "ijump", "jump", "branch"}) :
        /\ c[Size - 1].op = "ret"
        /\ \A a \in Addr : c[a].op \in Direct => c[a].target # Size - 1}

\* The same without the restriction: blocks are open ahead of the new function.
BranchesAhead == CodeOver({"plain", "ret", "branch", "call"})

\* A label in data may be that of an indirect call in the middle of a block.
CallsAndLabels == CodeOver({"plain", "region"})

\* Code that calls labels ahead of it, so that functions are discovered.  No
\* branch passes over the start of such a function, and none ends right before
\* it (see the run unfinished_blocks).
Discovery ==
    {c \in CodeOver({"plain", "ret", "ijump", "branch", "call"}) :
        /\ Found(c) # {}
        /\ \A t \in Found(c) : StaysBehind(c, t)}

Functions == OneFunction \cup Discovery

\* Data refers to no instruction with an untracked region: processPending goes
\* wrong there (see the run label_on_region).  Several labels matter if the
\* code jumps to what data refers to; with calls, one is followed.
LabelsOf(c) ==
    LET places == {a \in 0 .. Size - 2 : c[a].op # "region"}
        ijumps == \E a \in Addr : c[a].op = "ijump"
        most   == IF Found(c) = {} /\ ijumps THEN Size
                  ELSE IF Found(c) = {} \/ ijumps THEN 1 ELSE 0
    IN  {L \in SUBSET places : Cardinality(L) <= most}
=============================================================================
