---------------------------- MODULE BBMapProofs ----------------------------
(***************************************************************************)
(* What the lookups of BBMap return, for every map: the facts about        *)
(* Map::lower_bound, getBackBB and nextBBAddr that proofs cite by name.    *)
(***************************************************************************)
EXTENDS BBMap, DataFacts

\* A bounded set of naturals has a greatest element: the block at or before an
\* address.
LEMMA MaxExists ==
    ASSUME NEW N \in Nat, NEW S, S \subseteq 0 .. N, S # {}
    PROVE  \E m \in S : \A k \in S : k <= m
<1> DEFINE T == {N - k : k \in S}
<1>1. T \subseteq Nat
  BY SMT
<1>2. T # {}
  OBVIOUS
<1> HIDE DEF T
<1>3. PICK m \in T : \A k \in T : m <= k
  BY <1>1, <1>2, MinExists
<1>4. N - m \in S
  BY <1>3 DEF T
<1>5. \A k \in S : N - k \in T
  BY DEF T
<1>6. \A k \in S : k <= N - m
  BY <1>1, <1>3, <1>5
<1> QED BY <1>4, <1>6

\* lower_bound returns the first key at or after an address, or nothing when
\* there is none.
LEMMA LowerBoundFound ==
    ASSUME NEW map, map \subseteq Nat, NEW a \in Nat
    PROVE  \/ /\ LowerBound(map, a) = None
              /\ \A k \in map : k < a
           \/ /\ LowerBound(map, a) \in map
              /\ LowerBound(map, a) >= a
              /\ \A k \in map : k >= a => LowerBound(map, a) <= k
<1>1. CASE AtOrAfter(map, a) = {}
  <2>1. \A k \in map : ~ (k >= a)
    BY <1>1 DEF AtOrAfter
  <2> QED BY <1>1, <2>1 DEF LowerBound
<1>2. CASE AtOrAfter(map, a) # {}
  <2> DEFINE S == AtOrAfter(map, a)
  <2>1. S \subseteq Nat
    BY DEF AtOrAfter
  <2>2. \E m \in S : \A k \in S : m <= k
    BY <1>2, <2>1, MinExists
  <2>3. Min(S) \in S /\ \A k \in S : Min(S) <= k
    BY <2>2 DEF Min
  <2>4. LowerBound(map, a) = Min(S)
    BY <1>2 DEF LowerBound
  <2>5. \A k \in map : k >= a => k \in S
    BY DEF AtOrAfter
  <2>6. Min(S) \in map /\ Min(S) >= a
    BY <2>3 DEF AtOrAfter
  <2> QED BY <2>3, <2>4, <2>5, <2>6
<1> QED BY <1>1, <1>2

\* The last key at or before an address is the only one with no key between:
\* the Max that getBackBB returns is the nearest block start.
LEMMA MaxIsNearest ==
    ASSUME NEW map, map \subseteq Nat, NEW a \in Nat,
           NEW k \in map, k <= a, \A j \in map : j <= a => j <= k
    PROVE  Max(AtOrBefore(map, a)) = k
<1>1. k \in AtOrBefore(map, a) /\ \A j \in AtOrBefore(map, a) : k >= j
  BY DEF AtOrBefore
<1>2. \A x \in AtOrBefore(map, a) :
        (\A j \in AtOrBefore(map, a) : x >= j) => x = k
  <2>1. \A x \in AtOrBefore(map, a) : x \in Nat
    BY DEF AtOrBefore
  <2> QED BY <1>1, <2>1
<1> QED BY <1>1, <1>2 DEF Max

\* getBackBB returns the nearest block when one starts at or before a.
LEMMA GetBackBBIsNearest ==
    ASSUME NEW map, map \subseteq Nat, NEW a \in Nat,
           NEW k \in map, k <= a, \A j \in map : j <= a => j <= k
    PROVE  GetBackBB(map, a) = k
<1>1. AtOrBefore(map, a) # {}
  BY DEF AtOrBefore
<1> QED BY <1>1, MaxIsNearest DEF GetBackBB
=============================================================================
