------------------------------ MODULE DataFacts ----------------------------
(***************************************************************************)
(* The first element of a set of addresses or indices, which the lookups   *)
(* in sorted maps and streams return; the values of recursive functions;   *)
(* and parts of sequences, and sequences that are joined.                  *)
(***************************************************************************)
EXTENDS Integers, SequencesExt, WellFoundedInduction, SequenceTheorems, TLAPS

\* A non-empty set of naturals has a least element, so the first block of a
\* function, the first symbol at an address and the result of lower_bound exist.
LEMMA MinExists ==
    ASSUME NEW S, S \subseteq Nat, S # {}
    PROVE  \E m \in S : \A k \in S : m <= k
<1>1. PICK x \in S : \A y \in S : ~ (<<y, x>> \in OpToRel(<, Nat))
  BY NatLessThanWellFounded, WFMin
<1>2. OpToRel(<, Nat) = {p \in Nat \X Nat : p[1] < p[2]}
  BY Zenon DEF OpToRel
<1> HIDE DEF OpToRel
<1>3. \A y \in S : ~ (<<y, x>> \in {p \in Nat \X Nat : p[1] < p[2]})
  BY <1>1, <1>2, Zenon
<1>4. \A y \in Nat, z \in Nat :
        y < z => <<y, z>> \in {p \in Nat \X Nat : p[1] < p[2]}
  OBVIOUS
<1>5. \A y \in S : ~ (y < x)
  BY <1>3, <1>4, Zenon
<1>6. \A y \in S : x <= y
  BY <1>5
<1> QED BY <1>6

\* Min returns it.
LEMMA MinIsLeast ==
    ASSUME NEW S, S \subseteq Nat, S # {}
    PROVE  Min(S) \in S /\ \A k \in S : Min(S) <= k
BY MinExists DEF Min

\* The last element of a sequence and the sequence without it.
LEMMA FrontFacts ==
    ASSUME NEW S, NEW s \in Seq(S), Len(s) > 0
    PROVE  /\ Front(s) \in Seq(S) /\ Len(Front(s)) = Len(s) - 1
           /\ \A i \in 1 .. Len(s) - 1 : Front(s)[i] = s[i]
           /\ Last(s) \in S /\ Last(s) = s[Len(s)]
<1> DEFINE n == Len(s)
           t == SubSeq(s, 1, n - 1)
<1>1. n \in Nat /\ n > 0 /\ \A i \in 1 .. n : s[i] \in S
  BY LenProperties, ElementOfSeq
<1>2. /\ t \in Seq(S)
      /\ Len(t) = IF 1 <= n - 1 THEN n - 1 - 1 + 1 ELSE 0
      /\ \A i \in 1 .. n - 1 - 1 + 1 : t[i] = s[1 + i - 1]
  BY <1>1, SubSeqProperties
<1> HIDE DEF n, t
<1>3. Len(t) = n - 1
  BY <1>1, <1>2
<1>4. \A i \in 1 .. n - 1 : t[i] = s[i]
  BY <1>1, <1>2
<1>5. s[n] \in S
  BY <1>1
<1> QED BY <1>2, <1>3, <1>4, <1>5 DEF Front, Last, n, t

\* Induction up to n, over a set in the place of a formula: for the recursive
\* functions that a definition chooses.
LEMMA CountUp ==
    ASSUME NEW n \in Nat, NEW S, \A k \in 0 .. n : (\A j \in 0 .. k - 1 : j \in S) => k \in S
    PROVE  0 .. n \subseteq S
<1> SUFFICES ASSUME (0 .. n) \ S # {} PROVE FALSE
  OBVIOUS
<1>1. PICK m \in (0 .. n) \ S : \A k \in (0 .. n) \ S : m <= k
  <2>1. (0 .. n) \ S \subseteq Nat
    OBVIOUS
  <2> QED BY <2>1, MinExists
<1>2. \A j \in 0 .. m - 1 : j \in S
  BY <1>1
<1> QED BY <1>1, <1>2

StepsOf(n, S) == [1 .. n -> [S -> S]]
Follows(f, n, S, base, G) ==
    f \in [0 .. n -> S] /\ f[0] = base /\ \A k \in 1 .. n : f[k] = G[k][f[k - 1]]

\* A recursive function on 0 .. n exists: the steps are a function of the index
\* and the value before.
LEMMA RecursionTo ==
    ASSUME NEW n \in Nat, NEW S, NEW base \in S, NEW G \in StepsOf(n, S)
    PROVE  \E f : Follows(f, n, S, base, G)
<1> DEFINE Upto(k) == \E f \in [0 .. k -> S] :
                         f[0] = base /\ \A j \in 1 .. k : f[j] = G[j][f[j - 1]]
           T == {k \in 0 .. n : Upto(k)}
<1>0. G \in [1 .. n -> [S -> S]]
  BY DEF StepsOf
<1>1. ASSUME NEW k \in 0 .. n, \A j \in 0 .. k - 1 : j \in T PROVE k \in T
  <2>1. CASE k = 0
    <3> DEFINE f == [j \in 0 .. k |-> base]
    <3>1. f \in [0 .. k -> S] /\ f[0] = base /\ \A j \in 1 .. k : FALSE
      BY <2>1
    <3> QED BY <3>1
  <2>2. CASE k # 0
    <3>1. k - 1 \in 0 .. k - 1 /\ k \in 1 .. n /\ k - 1 \in 0 .. n
      BY <2>2
    <3>2. PICK f \in [0 .. k - 1 -> S] :
                 f[0] = base /\ \A j \in 1 .. k - 1 : f[j] = G[j][f[j - 1]]
      BY <1>1, <3>1
    <3> DEFINE last == G[k][f[k - 1]]
               g == [j \in 0 .. k |-> IF j = k THEN last ELSE f[j]]
    <3>3. last \in S
      BY <1>0, <3>1, <3>2
    <3>4. g \in [0 .. k -> S] /\ g[0] = base
      BY <2>2, <3>2, <3>3
    <3>5. ASSUME NEW j \in 1 .. k PROVE g[j] = G[j][g[j - 1]]
      <4>1. j - 1 \in 0 .. k /\ j - 1 # k /\ g[j - 1] = f[j - 1]
        OBVIOUS
      <4>2. CASE j = k
        BY <4>1, <4>2
      <4>3. CASE j # k
        BY <3>2, <4>1, <4>3
      <4> QED BY <4>2, <4>3
    <3> HIDE DEF g
    <3> QED BY <3>4, <3>5
  <2> QED BY <2>1, <2>2
<1>2. 0 .. n \subseteq T
  <2> HIDE DEF T
  <2>1. \A k \in 0 .. n : (\A j \in 0 .. k - 1 : j \in T) => k \in T
    BY <1>1
  <2> QED BY <2>1, CountUp
<1>3. Upto(n)
  BY <1>2
<1> QED BY <1>3 DEF Follows

Joins(r, s, t) ==
    /\ Len(s) \in Nat /\ Len(t) \in Nat /\ Len(r) = Len(s) + Len(t)
    /\ \A i \in 1 .. Len(s) : i \in 1 .. Len(r) /\ r[i] = s[i]
    /\ \A i \in 1 .. Len(t) : Len(s) + i \in 1 .. Len(r) /\ r[Len(s) + i] = t[i]

\* Two sequences, one behind the other.
LEMMA ConcatAt ==
    ASSUME NEW S, NEW s \in Seq(S), NEW t \in Seq(S)
    PROVE  s \o t \in Seq(S) /\ Joins(s \o t, s, t)
<1> DEFINE a == Len(s)
           b == Len(t)
           r == s \o t
<1>1. a \in Nat /\ b \in Nat
  BY LenProperties
<1>2. /\ r \in Seq(S) /\ Len(r) = a + b
      /\ \A i \in 1 .. a + b : /\ i <= a => r[i] = s[i]
                               /\ ~ (i <= a) => r[i] = t[i - a]
  BY ConcatProperties
<1> HIDE DEF a, b, r
<1>3. \A i \in 1 .. a : i \in 1 .. a + b /\ i <= a
  BY <1>1
<1>4. \A i \in 1 .. b : a + i \in 1 .. a + b /\ ~ (a + i <= a) /\ a + i - a = i
  BY <1>1
<1>5. \A i \in 1 .. a : i \in 1 .. a + b /\ r[i] = s[i]
  BY <1>2, <1>3
<1>6. ASSUME NEW i \in 1 .. b PROVE a + i \in 1 .. a + b /\ r[a + i] = t[i]
  <2>1. \A k \in 1 .. a + b : k = a + i => r[k] = t[i]
    <3>1. ASSUME NEW k \in 1 .. a + b, k = a + i PROVE ~ (k <= a) /\ k - a = i
      BY <1>1, <3>1
    <3> QED BY <1>2, <3>1
  <2> QED BY <1>4, <2>1
<1>7. r \in Seq(S) /\ Joins(r, s, t)
  BY <1>1, <1>2, <1>5, <1>6, Zenon DEF Joins, a, b
<1> QED BY <1>7 DEF r

\* Where the elements of a sequence of sequences begin when they are strung together.
Begins(q, b) ==
    /\ b \in [0 .. Len(q) -> Nat] /\ b[0] = 0
    /\ \A k \in 1 .. Len(q) : b[k] = b[k - 1] + Len(q[k])

Strung(q, b) ==
    /\ Len(FlattenSeq(q)) = b[Len(q)]
    /\ \A k \in 1 .. Len(q) : \A m \in 1 .. Len(q[k]) :
          /\ b[k - 1] + m \in 1 .. b[Len(q)]
          /\ FlattenSeq(q)[b[k - 1] + m] = q[k][m]

\* Joining sequences: the k-th one is found behind the elements of those before.
LEMMA FlattenAt ==
    ASSUME NEW S, NEW q \in Seq(Seq(S)), NEW at, Begins(q, at)
    PROVE  FlattenSeq(q) \in Seq(S) /\ Strung(q, at)
<1> DEFINE n == Len(q)
           Joined(s, k) ==
               /\ s \in Seq(S) /\ Len(s) = at[k]
               /\ \A j \in 1 .. k : \A m \in 1 .. Len(q[j]) :
                     at[j - 1] + m \in 1 .. at[k] /\ s[at[j - 1] + m] = q[j][m]
<1>1. n \in Nat /\ \A k \in 1 .. n : q[k] \in Seq(S) /\ Len(q[k]) \in Nat
  <2>1. n \in Nat /\ \A k \in 1 .. n : q[k] \in Seq(S)
    BY LenProperties, ElementOfSeq
  <2> QED BY <2>1, LenProperties
<1>2. /\ \A k \in 0 .. n : at[k] \in Nat
      /\ at[0] = 0 /\ \A k \in 1 .. n : at[k] = at[k - 1] + Len(q[k])
  BY DEF Begins
<1> HIDE DEF n
<1>3. Joined(<<>>, 0)
  <2>1. <<>> \in Seq(S) /\ Len(<<>>) = 0
    BY EmptySeq
  <2> QED BY <1>2, <2>1
<1>4. ASSUME NEW k \in 1 .. n, NEW s, Joined(s, k - 1)
      PROVE  Joined(s \o q[k], k)
  <2>1. s \in Seq(S) /\ Len(s) = at[k - 1] /\ k - 1 \in 0 .. n /\ k \in 0 .. n
    BY <1>1, <1>4
  <2> DEFINE r == s \o q[k]
  <2>2. /\ at[k] = at[k - 1] + Len(q[k]) /\ at[k - 1] \in Nat /\ Len(q[k]) \in Nat
        /\ q[k] \in Seq(S)
    BY <1>1, <1>2, <2>1
  <2>3. /\ r \in Seq(S) /\ Len(r) = at[k]
        /\ \A i \in 1 .. at[k - 1] : i \in 1 .. at[k] /\ r[i] = s[i]
        /\ \A i \in 1 .. Len(q[k]) : at[k - 1] + i \in 1 .. at[k] /\ r[at[k - 1] + i] = q[k][i]
    <3>1. r \in Seq(S) /\ Joins(r, s, q[k])
      BY <2>1, <2>2, ConcatAt
    <3> HIDE DEF r
    <3> QED BY <2>1, <2>2, <3>1, Zenon DEF Joins
  <2> HIDE DEF r
  <2>4. ASSUME NEW j \in 1 .. k, NEW m \in 1 .. Len(q[j])
        PROVE  at[j - 1] + m \in 1 .. at[k] /\ r[at[j - 1] + m] = q[j][m]
    <3>1. CASE j = k
      BY <2>3, <3>1, Zenon
    <3>2. CASE j # k
      <4>1. j \in 1 .. k - 1
        BY <3>2
      <4>2. at[j - 1] + m \in 1 .. at[k - 1] /\ s[at[j - 1] + m] = q[j][m]
        BY <1>4, <4>1
      <4> QED BY <2>3, <4>2, Zenon
    <3> QED BY <3>1, <3>2
  <2>5. Joined(r, k)
    BY <2>3, <2>4
  <2> QED BY <2>5 DEF r
<1> HIDE DEF Joined
<1>5. Joined(FlattenSeq(q), n)
  <2>1. CASE n = 0
    <3>1. FlattenSeq(q) = q
      BY <2>1, Zenon DEF FlattenSeq, n
    <3>2. q = <<>>
      BY <2>1, EmptySeq DEF n
    <3> QED BY <1>3, <2>1, <3>1, <3>2
  <2>2. CASE n # 0
    <3> DEFINE F == CHOOSE f : f = [i \in 1 .. n |-> IF i = 1 THEN q[i] ELSE f[i - 1] \o q[i]]
               G == [k \in 1 .. n |-> [s \in Seq(S) |-> s \o q[k]]]
    <3>1. FlattenSeq(q) = F[n]
      BY <2>2, Zenon DEF FlattenSeq, n
    <3>2. PICK f \in [0 .. n -> Seq(S)] :
                 f[0] = <<>> /\ \A k \in 1 .. n : f[k] = G[k][f[k - 1]]
      <4>1. \A k \in 1 .. n : \A s \in Seq(S) : s \o q[k] \in Seq(S)
        BY <1>1, ConcatProperties
      <4>2. G \in [1 .. n -> [Seq(S) -> Seq(S)]] /\ <<>> \in Seq(S)
        BY <4>1, EmptySeq
      <4> DEFINE V == Seq(S)
                 e == <<>>
      <4>3. G \in [1 .. n -> [V -> V]] /\ e \in V
        BY <4>2
      <4> HIDE DEF F, G, V, e
      <4>5. n \in Nat
        BY <1>1
      <4>4. G \in StepsOf(n, V)
        BY <4>3 DEF StepsOf
      <4>6. \E f : Follows(f, n, V, e, G)
        BY <4>3, <4>4, <4>5, RecursionTo
      <4> QED BY <4>6 DEF V, e, Follows
    <3>3. \A k \in 1 .. n : f[k] = f[k - 1] \o q[k]
      <4>1. \A k \in 1 .. n : f[k - 1] \in Seq(S)
        BY <1>1
      <4> QED BY <3>2, <4>1
    <3> DEFINE h == [i \in 1 .. n |-> f[i]]
    <3>4. h = [i \in 1 .. n |-> IF i = 1 THEN q[i] ELSE h[i - 1] \o q[i]]
      <4>0. \A i \in 1 .. n : i # 1 => h[i - 1] = f[i - 1]
        BY <1>1
      <4>1. ASSUME NEW i \in 1 .. n
            PROVE  f[i] = IF i = 1 THEN q[i] ELSE h[i - 1] \o q[i]
        <5>1. CASE i = 1
          <6>1. f[i - 1] = <<>>
            BY <3>2, <5>1
          <6>2. <<>> \o q[i] = q[i]
            BY <1>1, ConcatEmptySeq
          <6> QED BY <3>3, <5>1, <6>1, <6>2
        <5>2. CASE i # 1
          BY <3>3, <4>0, <5>2
        <5> QED BY <5>1, <5>2
      <4> QED BY <4>1
    <3> HIDE DEF h
    <3>5. F = [i \in 1 .. n |-> IF i = 1 THEN q[i] ELSE F[i - 1] \o q[i]]
      BY <3>4, Zenon
    <3> HIDE DEF F
    <3>6. \A i \in 1 .. n : F[i] = IF i = 1 THEN q[i] ELSE F[i - 1] \o q[i]
      BY <3>5, Zenon
    <3> DEFINE T == {k \in 0 .. n : k > 0 => Joined(F[k], k)}
    <3>7. ASSUME NEW k \in 0 .. n, \A j \in 0 .. k - 1 : j \in T PROVE k \in T
      <4>1. CASE k = 0
        BY <4>1
      <4>2. CASE k = 1
        <5>1. k - 1 = 0 /\ k \in 1 .. n
          BY <4>2
        <5>3. Joined(<<>> \o q[k], k)
          BY <1>3, <1>4, <5>1
        <5>2. <<>> \o q[k] = F[k]
          BY <1>1, <3>6, <4>2, <5>1, ConcatEmptySeq
        <5> QED BY <5>2, <5>3
      <4>3. CASE k > 1
        <5>1. Joined(F[k - 1], k - 1) /\ k \in 1 .. n
          BY <3>7, <4>3
        <5>2. F[k] = F[k - 1] \o q[k]
          <6>1. k # 1
            BY <4>3
          <6> QED BY <3>6, <5>1, <6>1, Zenon
        <5> QED BY <1>4, <5>1, <5>2
      <4> QED BY <4>1, <4>2, <4>3
    <3>8. 0 .. n \subseteq T
      <4> HIDE DEF T
      <4>1. \A k \in 0 .. n : (\A j \in 0 .. k - 1 : j \in T) => k \in T
        BY <3>7
      <4> QED BY <1>1, <4>1, CountUp
    <3>9. Joined(F[n], n)
      <4>1. n \in 0 .. n /\ n > 0
        BY <1>1, <2>2
      <4> QED BY <3>8, <4>1
    <3> QED BY <3>1, <3>9
  <2> QED BY <2>1, <2>2
<1>6. /\ FlattenSeq(q) \in Seq(S) /\ Len(FlattenSeq(q)) = at[n]
      /\ \A k \in 1 .. n : \A m \in 1 .. Len(q[k]) :
            at[k - 1] + m \in 1 .. at[n] /\ FlattenSeq(q)[at[k - 1] + m] = q[k][m]
  BY <1>5, Zenon DEF Joined
<1> QED BY <1>6, Zenon DEF Strung, n

\* Joining sequences of one element.
LEMMA FlattenOnes ==
    ASSUME NEW S, NEW g \in Seq(S)
    PROVE  FlattenSeq([k \in 1 .. Len(g) |-> <<g[k]>>]) = g
<1> DEFINE n == Len(g)
           q == [k \in 1 .. n |-> <<g[k]>>]
           at == [k \in 0 .. n |-> k]
<1>1. n \in Nat /\ \A k \in 1 .. n : g[k] \in S
  BY LenProperties, ElementOfSeq
<1>2. \A k \in 1 .. n : <<g[k]>> \in Seq(S) /\ Len(<<g[k]>>) = 1 /\ <<g[k]>>[1] = g[k]
  BY <1>1
<1>3. q \in Seq(Seq(S)) /\ Len(q) = n
  BY <1>1, <1>2
<1> HIDE DEF n
<1>4. /\ at \in [0 .. Len(q) -> Nat] /\ at[0] = 0 /\ at[Len(q)] = n
      /\ \A k \in 1 .. Len(q) : at[k] = at[k - 1] + Len(q[k])
  BY <1>1, <1>2, <1>3
<1>5. \A k \in 1 .. n : at[k - 1] + 1 = k /\ 1 \in 1 .. Len(q[k]) /\ q[k][1] = g[k]
  BY <1>1, <1>2
<1> HIDE DEF q, at
<1>6. /\ FlattenSeq(q) \in Seq(S) /\ Len(FlattenSeq(q)) = n
      /\ \A k \in 1 .. n : FlattenSeq(q)[k] = g[k]
  <2>1. /\ FlattenSeq(q) \in Seq(S) /\ Len(FlattenSeq(q)) = n
        /\ \A k \in 1 .. n : \A m \in 1 .. Len(q[k]) :
              FlattenSeq(q)[at[k - 1] + m] = q[k][m]
    <3>1. /\ FlattenSeq(q) \in Seq(S) /\ Len(FlattenSeq(q)) = at[Len(q)]
          /\ \A k \in 1 .. Len(q) : \A m \in 1 .. Len(q[k]) :
                FlattenSeq(q)[at[k - 1] + m] = q[k][m]
      <4>1. Begins(q, at)
        BY <1>4, Zenon DEF Begins
      <4>2. FlattenSeq(q) \in Seq(S) /\ Strung(q, at)
        BY <1>3, <4>1, FlattenAt
      <4> QED BY <4>2, Zenon DEF Strung
    <3> QED BY <1>3, <1>4, <3>1
  <2> QED BY <1>5, <2>1
<1>7. FlattenSeq(q) = g
  BY <1>6, SeqEqual DEF n
<1> QED BY <1>7 DEF q, n

\* The smaller of two numbers.
LEMMA MinOf == ASSUME NEW a \in Nat, NEW b \in Nat
               PROVE  Min({a, b}) = IF a <= b THEN a ELSE b
<1>1. {a, b} \subseteq Nat /\ {a, b} # {}
  OBVIOUS
<1> DEFINE m == Min({a, b})
<1>2. m \in {a, b} /\ \A k \in {a, b} : m <= k
  BY <1>1, MinIsLeast
<1> HIDE DEF m
<1>3. m = IF a <= b THEN a ELSE b
  BY <1>2
<1> QED BY <1>3 DEF m

\* A part of a sequence.
LEMMA PartOf ==
    ASSUME NEW S, NEW s \in Seq(S), NEW a \in Nat, NEW b \in Nat, a <= b, b <= Len(s)
    PROVE  /\ SubSeq(s, a + 1, b) \in Seq(S) /\ Len(SubSeq(s, a + 1, b)) = b - a
           /\ \A k \in 1 .. b - a : SubSeq(s, a + 1, b)[k] = s[a + k]
<1>1. Len(s) \in Nat /\ \A k \in 1 .. Len(s) : s[k] \in S
  BY LenProperties, ElementOfSeq
<1>2. \A k \in a + 1 .. b : s[k] \in S
  BY <1>1
<1>3. /\ SubSeq(s, a + 1, b) \in Seq(S)
      /\ Len(SubSeq(s, a + 1, b)) = IF a + 1 <= b THEN b - (a + 1) + 1 ELSE 0
      /\ \A k \in 1 .. b - (a + 1) + 1 : SubSeq(s, a + 1, b)[k] = s[(a + 1) + k - 1]
  BY <1>2, SubSeqProperties
<1>4. b - (a + 1) + 1 = b - a /\ (IF a + 1 <= b THEN b - (a + 1) + 1 ELSE 0) = b - a
  OBVIOUS
<1>5. \A k \in Nat : (a + 1) + k - 1 = a + k
  OBVIOUS
<1> QED BY <1>3, <1>4, <1>5

\* r is the part of s behind its a-th element up to the b-th.
IsPart(r, s, a, b) == Len(r) = b - a /\ \A k \in 1 .. b - a : r[k] = s[a + k]

LEMMA PartIs ==
    ASSUME NEW S, NEW s \in Seq(S), NEW a \in Nat, NEW b \in Nat, a <= b, b <= Len(s)
    PROVE  SubSeq(s, a + 1, b) \in Seq(S) /\ IsPart(SubSeq(s, a + 1, b), s, a, b)
BY PartOf DEF IsPart

\* The parts of a sequence that meet make one.
LEMMA PartsMeet ==
    ASSUME NEW S, NEW m \in Seq(S), NEW a \in Nat, NEW b \in Nat, a <= b, b <= Len(m)
    PROVE  SubSeq(m, 1, a) \o SubSeq(m, a + 1, b) = SubSeq(m, 1, b)
<1> DEFINE x == SubSeq(m, 0 + 1, a)
           y == SubSeq(m, a + 1, b)
           z == SubSeq(m, 0 + 1, b)
<1>1. x \in Seq(S) /\ Len(x) = a /\ \A k \in 1 .. a : x[k] = m[k]
  <2>1. 0 \in Nat /\ 0 <= a /\ a <= Len(m) /\ a - 0 = a /\ \A k \in 1 .. a : 0 + k = k
    BY LenProperties
  <2> HIDE DEF x
  <2>2. x \in Seq(S) /\ IsPart(x, m, 0, a)
    BY <2>1, PartIs DEF x
  <2> QED BY <2>1, <2>2 DEF IsPart
<1>2. y \in Seq(S) /\ Len(y) = b - a /\ \A k \in 1 .. b - a : y[k] = m[a + k]
  <2> HIDE DEF y
  <2>1. y \in Seq(S) /\ IsPart(y, m, a, b)
    BY PartIs DEF y
  <2> QED BY <2>1 DEF IsPart
<1>3. z \in Seq(S) /\ Len(z) = b /\ \A k \in 1 .. b : z[k] = m[k]
  <2>1. 0 \in Nat /\ 0 <= b /\ b - 0 = b /\ \A k \in 1 .. b : 0 + k = k
    OBVIOUS
  <2> HIDE DEF z
  <2>2. z \in Seq(S) /\ IsPart(z, m, 0, b)
    BY <2>1, PartIs DEF z
  <2> QED BY <2>1, <2>2 DEF IsPart
<1>4. x = SubSeq(m, 1, a) /\ z = SubSeq(m, 1, b)
  OBVIOUS
<1> HIDE DEF x, y, z
<1>5. /\ x \o y \in Seq(S) /\ Len(x \o y) = Len(x) + Len(y)
      /\ \A k \in 1 .. Len(x) + Len(y) : (x \o y)[k] = IF k <= Len(x) THEN x[k] ELSE y[k - Len(x)]
  BY <1>1, <1>2, ConcatProperties
<1> DEFINE w == x \o y
<1>6. w \in Seq(S) /\ Len(w) = b /\ \A k \in 1 .. b : w[k] = IF k <= a THEN x[k] ELSE y[k - a]
  BY <1>1, <1>2, <1>5
<1> HIDE DEF w
<1>7. \A k \in 1 .. b : w[k] = z[k]
  <2>1. ASSUME NEW k \in 1 .. b PROVE w[k] = z[k]
    <3>1. CASE k <= a
      BY <1>1, <1>3, <1>6, <3>1
    <3>2. CASE ~ (k <= a)
      <4>1. k - a \in 1 .. b - a /\ a + (k - a) = k
        BY <3>2
      <4> QED BY <1>2, <1>3, <1>6, <3>2, <4>1
    <3> QED BY <3>1, <3>2
  <2> QED BY <2>1
<1>8. w = z
  <2>1. w = [k \in 1 .. b |-> w[k]] /\ z = [k \in 1 .. b |-> z[k]]
    BY <1>3, <1>6, LenProperties
  <2> QED BY <1>7, <2>1
<1> QED BY <1>4, <1>8 DEF w, y
=============================================================================
