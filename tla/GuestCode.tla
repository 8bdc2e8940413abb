----------------------------- MODULE GuestCode -----------------------------
(***************************************************************************)
(* The guest code of a range of a text section, as far as its control flow *)
(* goes: Size instructions at addresses 0 .. Size - 1 (an address counts   *)
(* instructions).  What the translation of that code is measured against:  *)
(* where the guest goes after an instruction, and which instructions start *)
(* its basic blocks.                                                       *)
(***************************************************************************)
EXTENDS BBMap

CONSTANT Size    \* number of instructions between the two function symbols

Addr == 0 .. Size - 1

\* What an instruction does to the control-flow graph.  "plain" stays in its
\* block (ALU, loads, calls to known functions); "region" leaves the insert
\* point in an untracked block (an indirect call, a validated fcvt); "call" is
\* a JAL to a label that no symbol declares to be a function.
Jumps  == {"jump", "branch"}
Direct == Jumps \cup {"call"}
Ops    == {"plain", "region", "ret", "ijump"} \cup Direct
Instr  == [op : Ops, target : Addr]

ASSUME SizeAssumption == Size \in Nat \ {0}

-----------------------------------------------------------------------------
(* The functions that code c finds ahead of a call, where no symbol says that *)
(* one starts.                                                             *)
Found(c) == {c[a].target : a \in {x \in Addr : c[x].op = "call"
                                              /\ c[x].target > x}}

\* No branch passes over the start of the function at t, or ends right before it.
StaysBehind(c, t) ==
    \A a \in 0 .. t - 1 :
        c[a].op \in Jumps => c[a].target < t /\ a + 1 < t

-----------------------------------------------------------------------------
(* For code c, labels L that data sections refer to, and functions that    *)
(* start at the addresses B.                                               *)

\* The addresses of the function that holds a.
FirstOf(B, a) == Max(AtOrBefore(B, a))
EndOf(B, a)   == LET next == NextBBAddr(B, a) IN IF next = None THEN Size ELSE next
BodyOf(B, a)  == FirstOf(B, a) .. EndOf(B, a) - 1

\* Where the guest goes after a; a function whose code runs off its end returns.
SuccOf(c, L, B, a) ==
    CASE c[a].op = "ret"    -> {}
      [] c[a].op = "ijump"  -> L \cap BodyOf(B, a)
      [] c[a].op = "jump"   -> {c[a].target}
      [] c[a].op = "branch" -> {c[a].target, a + 1}
      [] OTHER              -> {a + 1} \cap BodyOf(B, a)

\* The leaders of the code, by their textbook definition: function entries,
\* targets, and whatever follows an instruction that ends a block.
LeadersOf(c, L, B) ==
    B \cup L
    \cup {c[a].target : a \in {x \in Addr : c[x].op \in Jumps}}
    \cup ({a + 1 : a \in {x \in Addr : c[x].op \notin {"plain", "call"}}}
           \cap Addr)
=============================================================================
