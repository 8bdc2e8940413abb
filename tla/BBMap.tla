------------------------------- MODULE BBMap -------------------------------
(***************************************************************************)
(* The address lookups that Function makes in _bbMap, its sorted map from  *)
(* start address to basic block.  A map is represented by the set of its   *)
(* keys: two blocks of a function never share a start address, so the key  *)
(* identifies the block.  Addresses count instructions, not bytes          *)
(* (Constants::INSTRUCTION_SIZE is 1 here).                                *)
(***************************************************************************)
EXTENDS Integers, FiniteSetsExt

\* The null pointer / Constants::INVALID_ADDR of a failed lookup.
None == -1

AtOrAfter(map, a)  == {k \in map : k >= a}
AtOrBefore(map, a) == {k \in map : k <= a}

\* Map::lower_bound: the first key that is not less than a.
LowerBound(map, a) ==
    IF AtOrAfter(map, a) = {} THEN None ELSE Min(AtOrAfter(map, a))

\* Function::getBackBB: the block that starts at a or, failing that, the last
\* one that starts before a; the first block when all start after a.
GetBackBB(map, a) ==
    IF AtOrBefore(map, a) # {} THEN Max(AtOrBefore(map, a)) ELSE Min(map)

\* Function::nextBBAddr: the first key after a.
NextBBAddr(map, a) == LowerBound(map, a + 1)
=============================================================================
