------------------------------ MODULE HostRun ------------------------------
(***************************************************************************)
(* Translation followed by a run of the result: once the function is       *)
(* translated, the host executes its llvm blocks, instruction by           *)
(* instruction, and takes the terminator where the block's instructions    *)
(* end.  The host implements the guest (GuestRun).                         *)
(***************************************************************************)
EXTENDS FuncTranslate

VARIABLES
    hostBlock,  \* the llvm block the host is in
    hostAt      \* the guest instruction it executes next, Idle or Exited

Idle   == -2
Exited == -3

hostVars == <<hostBlock, hostAt>>

\* The instructions of a tracked block in order: its _instrMap.
FirstIn(k) == Min({a \in Addr : instrMap[a] = k})
GoesOnIn(k, a) == a + 1 \in Addr /\ instrMap[a + 1] = k

Translate == Next /\ UNCHANGED hostVars

\* The host function is called: its entry block is the one at address 0.
HostCall ==
    /\ pc = "done" /\ hostAt = Idle
    /\ hostBlock' = Tracked(0)
    /\ hostAt' = FirstIn(0)
    /\ UNCHANGED vars

\* The next instruction is in the same block.
HostStep ==
    /\ hostAt \in Addr
    /\ GoesOnIn(hostBlock[1], hostAt)
    /\ hostAt' = hostAt + 1
    /\ UNCHANGED <<vars, hostBlock>>

\* The block in which the instruction is done: its untracked region, if the
\* terminator of the tracked block leads there.
LastBlock ==
    IF term[hostBlock].kind = "region"
    THEN CHOOSE u \in term[hostBlock].succ : TRUE
    ELSE hostBlock

HostBranch ==
    /\ hostAt \in Addr
    /\ ~GoesOnIn(hostBlock[1], hostAt)
    /\ \E b \in term[LastBlock].succ : /\ hostBlock' = b
                                       /\ hostAt' = FirstIn(b[1])
    /\ UNCHANGED vars

HostReturn ==
    /\ hostAt \in Addr
    /\ ~GoesOnIn(hostBlock[1], hostAt)
    /\ term[LastBlock].succ = {}
    /\ Terminated(LastBlock)
    /\ hostAt' = Exited
    /\ UNCHANGED <<vars, hostBlock>>

RunInit == Init /\ hostBlock = Tracked(0) /\ hostAt = Idle
RunNext == Translate \/ HostCall \/ HostStep \/ HostBranch \/ HostReturn

RunSpec == RunInit /\ [][RunNext]_<<vars, hostVars>>

(* Refinement: the translated function, run by the host, does a run of the *)
(* guest: it executes the same instructions in the same order and returns  *)
(* where the guest function returns.                                       *)
Guest == INSTANCE GuestRun WITH gpc <- hostAt
ImplementsGuest == Guest!GuestSpec

(* Safety: the host is never stuck inside the function: where a block ends *)
(* there is a terminator, and every block it leads to holds instructions.  *)
(* A block without a successor returns.                                    *)
HostNotStuck ==
    hostAt \in Addr =>
        \/ GoesOnIn(hostBlock[1], hostAt)
        \/ /\ Terminated(LastBlock)
           /\ \A b \in term[LastBlock].succ : \E a \in Addr : instrMap[a] = b[1]
=============================================================================
