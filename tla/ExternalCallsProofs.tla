------------------------ MODULE ExternalCallsProofs ------------------------
(***************************************************************************)
(* Calls of library functions.  The first sections are about one call that *)
(* can be passed: its words are where the guest places them, a Caller      *)
(* takes them from there, and the library hears the arguments that the     *)
(* call means.  Then how a printf of any length is broken into such calls, *)
(* and that a pointer to an imported function leads to it.  The last       *)
(* sections put both together: the calls that are issued make up the one   *)
(* of the source.                                                          *)
(***************************************************************************)
EXTENDS ExternalCalls, DataFacts, FiniteSetTheorems

\* What is assumed of the library is used all over the module.
USE LibraryAssumption

-----------------------------------------------------------------------------
(* The words before an argument.                                           *)

LEMMA SizeFacts == \A type : Size(type) \in {1, 2} /\ (type # "double" => Size(type) = 1)
BY DEF Size

LEMMA WordsStep ==
    ASSUME NEW types, NEW k \in Nat, k > 0
    PROVE  /\ WordsBefore(types, k) \in Nat /\ WordsBefore(types, 1) = 0
           /\ WordsBefore(types, k + 1) = WordsBefore(types, k) + Size(types[k])
<1> DEFINE D(n) == {j \in 1 .. n - 1 : types[j] = "double"}
<1>1. \A n \in Nat : n > 0 => IsFiniteSet(D(n)) /\ Cardinality(D(n)) \in Nat
  <2>1. ASSUME NEW n \in Nat, n > 0 PROVE IsFiniteSet(D(n)) /\ Cardinality(D(n)) \in Nat
    <3>1. IsFiniteSet(1 .. n - 1)
      <4>1. 1 \in Int /\ n - 1 \in Int
        OBVIOUS
      <4> QED BY <4>1, FS_Interval
    <3>2. D(n) \subseteq 1 .. n - 1
      OBVIOUS
    <3>3. IsFiniteSet(D(n))
      BY <3>1, <3>2, FS_Subset
    <3> QED BY <3>3, FS_CardinalityType
  <2> QED BY <2>1
<1>2. D(1) = {}
  OBVIOUS
<1>3. D(k + 1) = IF types[k] = "double" THEN D(k) \cup {k} ELSE D(k)
  <2>1. \A j : j \in 1 .. k + 1 - 1 <=> j \in 1 .. k - 1 \/ j = k
    OBVIOUS
  <2> QED BY <2>1
<1>4. k \notin D(k)
  OBVIOUS
<1>5. \A n : WordsBefore(types, n) = n - 1 + Cardinality(D(n))
  BY DEF WordsBefore
<1> HIDE DEF D
<1>6. Cardinality(D(1)) = 0
  BY <1>2, FS_EmptySet
<1>7. Cardinality(D(k + 1)) = Cardinality(D(k)) + (IF types[k] = "double" THEN 1 ELSE 0)
  <2>1. IsFiniteSet(D(k)) /\ Cardinality(D(k)) \in Nat
    BY <1>1
  <2>2. Cardinality(D(k) \cup {k}) = Cardinality(D(k)) + 1
    BY <1>4, <2>1, FS_AddElement
  <2> QED BY <1>3, <2>1, <2>2
<1>8. Cardinality(D(k)) \in Nat
  BY <1>1
<1> DEFINE a == Cardinality(D(k))
           b == Cardinality(D(k + 1))
<1>9. WordsBefore(types, k) = k - 1 + a /\ WordsBefore(types, k + 1) = k + 1 - 1 + b
  BY <1>5
<1>10. a \in Nat /\ b = a + (IF types[k] = "double" THEN 1 ELSE 0)
  BY <1>7, <1>8
<1> HIDE DEF a, b
<1>11. WordsBefore(types, 1) = 0
  BY <1>5, <1>6
<1> QED BY <1>9, <1>10, <1>11 DEF Size

\* The types before it are all that counts.
LEMMA WordsSame ==
    ASSUME NEW types, NEW others, NEW n \in Nat, \A k \in 1 .. n : types[k] = others[k]
    PROVE  WordsBefore(types, n + 1) = WordsBefore(others, n + 1)
<1>1. 1 .. n + 1 - 1 = 1 .. n
  OBVIOUS
<1>2. {j \in 1 .. n : types[j] = "double"} = {j \in 1 .. n : others[j] = "double"}
  OBVIOUS
<1>3. \A t : WordsBefore(t, n + 1) = n + 1 - 1 + Cardinality({j \in 1 .. n : t[j] = "double"})
  BY <1>1 DEF WordsBefore
<1> QED BY <1>2, <1>3, Zenon

\* Each argument has at least one word.
LEMMA WordsAtLeast ==
    ASSUME NEW types, NEW k \in Nat, k > 0
    PROVE  k - 1 <= WordsBefore(types, k)
<1> DEFINE D == {j \in 1 .. k - 1 : types[j] = "double"}
<1>1. Cardinality(D) \in Nat
  <2>1. IsFiniteSet(1 .. k - 1)
    BY FS_Interval
  <2>2. D \subseteq 1 .. k - 1
    OBVIOUS
  <2> HIDE DEF D
  <2> QED BY <2>1, <2>2, FS_Subset, FS_CardinalityType
<1>2. WordsBefore(types, k) = k - 1 + Cardinality(D)
  BY DEF WordsBefore
<1> HIDE DEF D
<1> QED BY <1>1, <1>2

\* Any number of arguments later there are at least as many words.
LEMMA WordsGrow ==
    ASSUME NEW types, NEW j \in Nat, j > 0, NEW k \in Nat, j <= k
    PROVE  WordsBefore(types, j) <= WordsBefore(types, k)
<1> DEFINE T == {d \in 0 .. k - j : WordsBefore(types, j) <= WordsBefore(types, j + d)}
<1>1. ASSUME NEW d \in 0 .. k - j, \A e \in 0 .. d - 1 : e \in T PROVE d \in T
  <2>0. WordsBefore(types, j) \in Nat
    BY WordsStep
  <2>1. CASE d = 0
    <3>1. j + d = j
      BY <2>1
    <3> QED BY <2>0, <3>1
  <2>2. CASE d # 0
    <3>1. d - 1 \in 0 .. d - 1 /\ j + (d - 1) \in Nat /\ j + (d - 1) > 0 /\ j + (d - 1) + 1 = j + d
      BY <2>2
    <3>2. WordsBefore(types, j) <= WordsBefore(types, j + (d - 1))
      BY <1>1, <3>1
    <3> DEFINE p == j + (d - 1)
    <3>3. p \in Nat /\ p > 0 /\ p + 1 = j + d
      BY <3>1
    <3>4. WordsBefore(types, j) <= WordsBefore(types, p)
      BY <3>2
    <3> HIDE DEF p
    <3>5. WordsBefore(types, p) \in Nat
          /\ WordsBefore(types, p + 1) = WordsBefore(types, p) + Size(types[p])
      BY <3>3, WordsStep
    <3>6. Size(types[p]) \in Nat
      BY DEF Size
    <3>7. WordsBefore(types, j) <= WordsBefore(types, p + 1)
      BY <2>0, <3>4, <3>5, <3>6
    <3> QED BY <3>3, <3>7
  <2> QED BY <2>1, <2>2
<1>2. 0 .. k - j \subseteq T
  <2> HIDE DEF T
  <2>1. \A d \in 0 .. k - j : (\A e \in 0 .. d - 1 : e \in T) => d \in T
    BY <1>1
  <2>2. k - j \in Nat
    OBVIOUS
  <2> QED BY <2>1, <2>2, CountUp
<1>3. k - j \in T /\ j + (k - j) = k
  BY <1>2
<1> QED BY <1>3

\* Behind arguments of one word the words are counted from there.
LEMMA WordsShift ==
    ASSUME NEW types, NEW rest, NEW at \in Nat, NEW n \in Nat,
           \A k \in 1 .. at : types[k] # "double", \A k \in 1 .. n : rest[k] = types[at + k]
    PROVE  /\ \A k \in 0 .. at : WordsBefore(types, k + 1) = k
           /\ \A k \in 0 .. n : WordsBefore(types, at + k + 1) = at + WordsBefore(rest, k + 1)
<1> DEFINE T == {k \in 0 .. at : WordsBefore(types, k + 1) = k}
<1>1. ASSUME NEW k \in 0 .. at, \A e \in 0 .. k - 1 : e \in T PROVE k \in T
  <2>1. CASE k = 0
    <3>1. WordsBefore(types, 1) = 0 /\ k + 1 = 1
      <4>1. 1 \in Nat /\ 1 > 0
        OBVIOUS
      <4> QED BY <2>1, <4>1, WordsStep
    <3> QED BY <2>1, <3>1
  <2>2. CASE k # 0
    <3>1. k - 1 \in 0 .. k - 1 /\ k \in Nat /\ k > 0 /\ k - 1 + 1 = k /\ k \in 1 .. at
      BY <2>2
    <3>2. WordsBefore(types, k) = k - 1
      BY <1>1, <3>1
    <3>3. WordsBefore(types, k + 1) = WordsBefore(types, k) + Size(types[k])
      BY <3>1, WordsStep
    <3>4. Size(types[k]) = 1
      BY <3>1 DEF Size
    <3>5. WordsBefore(types, k + 1) = k - 1 + 1
      BY <3>2, <3>3, <3>4
    <3> QED BY <3>1, <3>5
  <2> QED BY <2>1, <2>2
<1>2. 0 .. at \subseteq T
  <2> HIDE DEF T
  <2>1. \A d \in 0 .. at : (\A e \in 0 .. d - 1 : e \in T) => d \in T
    BY <1>1
  <2> QED BY <2>1, CountUp
<1>3. \A k \in 0 .. at : WordsBefore(types, k + 1) = k
  BY <1>2
<1> DEFINE U == {k \in 0 .. n : WordsBefore(types, at + k + 1) = at + WordsBefore(rest, k + 1)}
<1>4. ASSUME NEW k \in 0 .. n, \A e \in 0 .. k - 1 : e \in U PROVE k \in U
  <2>1. CASE k = 0
    <3>1. WordsBefore(rest, 1) = 0
      <4>1. 1 \in Nat /\ 1 > 0
        OBVIOUS
      <4> QED BY <4>1, WordsStep
    <3>2. at \in 0 .. at /\ at + k + 1 = at + 1 /\ k + 1 = 1 /\ at + 0 = at
      BY <2>1
    <3>3. WordsBefore(types, at + 1) = at
      BY <1>3, <3>2
    <3> QED BY <3>1, <3>2, <3>3
  <2>2. CASE k # 0
    <3> DEFINE p == at + k
    <3>1. /\ k - 1 \in 0 .. k - 1 /\ k \in Nat /\ k > 0 /\ k - 1 + 1 = k /\ k \in 1 .. n
          /\ at + (k - 1) + 1 = p /\ p \in Nat /\ p > 0 /\ at + k + 1 = p + 1
      BY <2>2
    <3>2. WordsBefore(types, p) = at + WordsBefore(rest, k)
      <4>1. WordsBefore(types, at + (k - 1) + 1) = at + WordsBefore(rest, k - 1 + 1)
        BY <1>4, <3>1
      <4> QED BY <3>1, <4>1
    <3>3. rest[k] = types[p]
      BY <3>1
    <3> HIDE DEF p
    <3>4. WordsBefore(types, p + 1) = WordsBefore(types, p) + Size(types[p])
      BY <3>1, WordsStep
    <3>5. WordsBefore(rest, k + 1) = WordsBefore(rest, k) + Size(rest[k])
          /\ WordsBefore(rest, k) \in Nat
      BY <3>1, WordsStep
    <3>6. Size(rest[k]) \in Nat
      BY DEF Size
    <3>7. WordsBefore(types, p + 1) = at + WordsBefore(rest, k + 1)
      BY <3>2, <3>3, <3>4, <3>5, <3>6
    <3> QED BY <3>1, <3>7
  <2> QED BY <2>1, <2>2
<1>5. 0 .. n \subseteq U
  <2> HIDE DEF U, T
  <2>1. \A d \in 0 .. n : (\A e \in 0 .. d - 1 : e \in U) => d \in U
    BY <1>4
  <2> QED BY <2>1, CountUp
<1> QED BY <1>3, <1>5

Behind(types, rest, at, n) ==
    (\A k \in 1 .. at : types[k] # "double") /\ \A k \in 1 .. n : rest[k] = types[at + k]

ShiftedBy(types, rest, at, n) ==
    \A k \in 0 .. n : WordsBefore(types, at + k + 1) = at + WordsBefore(rest, k + 1)

LEMMA WordsBehind ==
    ASSUME NEW types, NEW rest, NEW at \in Nat, NEW n \in Nat, Behind(types, rest, at, n)
    PROVE  ShiftedBy(types, rest, at, n)
<1>1. (\A k \in 1 .. at : types[k] # "double") /\ \A k \in 1 .. n : rest[k] = types[at + k]
  BY DEF Behind
<1> QED BY <1>1, WordsShift DEF ShiftedBy

-----------------------------------------------------------------------------
(* The argument registers, and the registers that a Caller takes from.     *)

RegSet(W) == [x : Seq(W), f : Seq(Seq(W))]

InF(c, k) == k <= Fixed(c) /\ InFReg(c.args[k].type)

\* The words that the arguments take in the integer registers up to each one, and
\* the floating-point registers.
Counted(c, tx, tf) ==
    LET n == Len(c.args)
    IN /\ tx \in [0 .. n -> Nat] /\ tf \in [0 .. n -> Nat] /\ tx[0] = 0 /\ tf[0] = 0
       /\ \A k \in 1 .. n :
             IF InF(c, k) THEN tf[k] = tf[k - 1] + 1 /\ tx[k] = tx[k - 1]
             ELSE /\ tf[k] = tf[k - 1] /\ tx[k] = tx[k - 1] + Size(c.args[k].type)
                  /\ ~ (k <= Fixed(c)) /\ c.args[k].type = "double" => tx[k - 1] % 2 = 0

\* The first n arguments of a call are in the registers.
AreIn(c, n, r, tx, tf) ==
    /\ Len(r.x) = tx[n] /\ Len(r.f) = tf[n]
    /\ \A k \in 1 .. n :
          LET arg == c.args[k]
          IN IF InF(c, k)
             THEN tf[k - 1] + 1 \in 1 .. tf[n] /\ r.f[tf[k - 1] + 1] = arg.value
             ELSE \A m \in 1 .. Size(arg.type) :
                     tx[k - 1] + m \in 1 .. tx[n] /\ r.x[tx[k - 1] + m] = arg.value[m]

\* The values of the arguments are words of W.
WordsIn(c, W) ==
    \A k \in 1 .. Len(c.args) : c.args[k].value \in Seq(W)
                                /\ Len(c.args[k].value) = Size(c.args[k].type)

LEMMA ValueWords ==
    ASSUME NEW c, GoodArgs(c)
    PROVE  \E W : Junk \in W /\ WordsIn(c, W)
<1> DEFINE n == Len(c.args)
           Of(k) == {c.args[k].value[j] : j \in 1 .. Size(c.args[k].type)}
           W == {Junk} \cup UNION {Of(k) : k \in 1 .. n}
<1>1. ASSUME NEW k \in 1 .. n
      PROVE  c.args[k].value \in Seq(W) /\ Len(c.args[k].value) = Size(c.args[k].type)
  <2> DEFINE v == c.args[k].value
             z == Size(c.args[k].type)
  <2>1. v = [j \in 1 .. z |-> v[j]]
    <3> DEFINE arg == c.args[k]
               type == arg.type
               u == [j \in 1 .. z |-> v[j]]
    <3>1. arg = [type |-> type, value |-> u]
      BY DEF GoodArgs
    <3> HIDE DEF type, u
    <3>2. arg.value = u
      <4> HIDE DEF arg
      <4> QED BY <3>1
    <3> QED BY <3>2 DEF u
  <2>2. \A j \in 1 .. z : v[j] \in W
    OBVIOUS
  <2>3. z \in Nat
    BY DEF Size
  <2> HIDE DEF v, z, W
  <2>4. [j \in 1 .. z |-> v[j]] \in Seq(W) /\ Len([j \in 1 .. z |-> v[j]]) = z
    BY <2>2, <2>3
  <2>5. v \in Seq(W) /\ Len(v) = z
    BY <2>1, <2>4, Zenon
  <2> QED BY <2>5 DEF v, z
<1>2. Junk \in W
  OBVIOUS
<1> QED BY <1>1, <1>2 DEF WordsIn

\* One more argument.
LEMMA PlaceStep ==
    ASSUME NEW W, Junk \in W, NEW r \in RegSet(W), NEW arg, arg.value \in Seq(W),
           Len(arg.value) = Size(arg.type), NEW named \in BOOLEAN
    PROVE  /\ Place(r, arg, named) \in RegSet(W)
           /\ named /\ InFReg(arg.type) =>
                 Place(r, arg, named) = [x |-> r.x, f |-> Append(r.f, arg.value)]
           /\ ~ (named /\ InFReg(arg.type)) /\ (~named /\ arg.type = "double" => Len(r.x) % 2 = 0) =>
                 Place(r, arg, named) = [x |-> r.x \o arg.value, f |-> r.f]
<1>1. r.x \in Seq(W) /\ r.f \in Seq(Seq(W)) /\ r = [x |-> r.x, f |-> r.f]
  BY DEF RegSet
<1> DEFINE odd == ~named /\ arg.type = "double" /\ Len(r.x) % 2 = 1
           aligned == IF odd THEN Append(r.x, Junk) ELSE r.x
           v == arg.value
<1>2. Place(r, arg, named) = IF named /\ InFReg(arg.type)
                             THEN [r EXCEPT !.f = Append(@, v)]
                             ELSE [r EXCEPT !.x = aligned \o v]
  BY Zenon DEF Place
<1>3. aligned \in Seq(W)
  BY <1>1, AppendProperties
<1>4. (~named /\ arg.type = "double" => Len(r.x) % 2 = 0) => aligned = r.x
  <2>1. \A l : l = 0 => l # 1
    OBVIOUS
  <2>2. (~named /\ arg.type = "double" => Len(r.x) % 2 = 0) => ~odd
    BY <2>1, Zenon
  <2> HIDE DEF odd
  <2> QED BY <2>2, Zenon
<1>5. v \in Seq(W)
  OBVIOUS
<1> HIDE DEF aligned, v
<1>6. aligned \o v \in Seq(W)
  BY <1>3, <1>5, ConcatProperties
<1>7. Append(r.f, v) \in Seq(Seq(W))
  BY <1>1, <1>5, AppendProperties
<1>8. \A y, z : y \in Seq(W) /\ z \in Seq(Seq(W)) => [x |-> y, f |-> z] \in RegSet(W)
  BY DEF RegSet
<1>9. /\ [r EXCEPT !.f = Append(@, v)] = [x |-> r.x, f |-> Append(r.f, v)]
      /\ [r EXCEPT !.x = aligned \o v] = [x |-> aligned \o v, f |-> r.f]
  <2>1. \A a, d, y : /\ [[x |-> a, f |-> d] EXCEPT !.f = y] = [x |-> a, f |-> y]
                     /\ [[x |-> a, f |-> d] EXCEPT !.x = y] = [x |-> y, f |-> d]
    OBVIOUS
  <2>2. \A s, y, a, d : s = [x |-> a, f |-> d] =>
            [s EXCEPT !.f = y] = [x |-> a, f |-> y] /\ [s EXCEPT !.x = y] = [x |-> y, f |-> d]
    BY <2>1
  <2> DEFINE a == r.x
             d == r.f
             y == Append(r.f, v)
             t == aligned \o v
  <2>3. r = [x |-> a, f |-> d]
    BY <1>1
  <2> HIDE DEF a, d, y, t
  <2>4. [r EXCEPT !.f = y] = [x |-> a, f |-> y] /\ [r EXCEPT !.x = t] = [x |-> t, f |-> d]
    BY <2>2, <2>3
  <2> QED BY <2>4 DEF a, d, y, t
<1>10. CASE named /\ InFReg(arg.type)
  <2>1. Place(r, arg, named) = [x |-> r.x, f |-> Append(r.f, v)]
    BY <1>2, <1>9, <1>10
  <2> QED BY <1>1, <1>7, <1>8, <1>10, <2>1 DEF v
<1>11. CASE ~ (named /\ InFReg(arg.type))
  <2>1. Place(r, arg, named) = [x |-> aligned \o v, f |-> r.f]
    BY <1>2, <1>9, <1>11
  <2> QED BY <1>1, <1>4, <1>6, <1>8, <1>11, <2>1 DEF v
<1> QED BY <1>10, <1>11

\* Placing is the recursive function that it says, over register contents of W.
PlacesArgs(c, W) ==
    LET n == Len(c.args)
    IN /\ \A k \in 0 .. n : Placing(c)[k] \in RegSet(W)
       /\ Placing(c)[0] = [x |-> << >>, f |-> << >>]
       /\ \A k \in 1 .. n : Placing(c)[k] = Place(Placing(c)[k - 1], c.args[k], k <= Fixed(c))

LEMMA PlacingIs ==
    ASSUME NEW c, GoodArgs(c)
    PROVE  \E W : Junk \in W /\ WordsIn(c, W) /\ PlacesArgs(c, W)
<1> DEFINE n == Len(c.args)
           b == [x |-> << >>, f |-> << >>]
           fixed == Fixed(c)
           P == Placing(c)
           G == CHOOSE p : p = [k \in 0 .. n |-> IF k = 0 THEN b
                                   ELSE Place(p[k - 1], c.args[k], k <= fixed)]
<1>0. n \in Nat
  BY DEF GoodArgs
<1>1. PICK W : Junk \in W /\ WordsIn(c, W)
  BY ValueWords
<1>2. P = G
  BY Zenon DEF Placing, Fixed, SigOf
<1>3. b \in RegSet(W)
  BY EmptySeq DEF RegSet
<1>a. \A k \in 1 .. n : (k <= fixed) \in BOOLEAN /\ c.args[k].value \in Seq(W)
                        /\ Len(c.args[k].value) = Size(c.args[k].type)
  BY <1>1 DEF WordsIn
<1> HIDE DEF b, G, P, fixed
<1>b. \A k \in 1 .. n : \A r \in RegSet(W) : Place(r, c.args[k], k <= fixed) \in RegSet(W)
  <2> TAKE k \in 1 .. n
  <2> TAKE r \in RegSet(W)
  <2>1. (k <= fixed) \in BOOLEAN /\ c.args[k].value \in Seq(W)
        /\ Len(c.args[k].value) = Size(c.args[k].type)
    BY <1>a
  <2> DEFINE named == k <= fixed
  <2>2. named \in BOOLEAN
    BY <2>1
  <2> HIDE DEF named
  <2>3. Place(r, c.args[k], named) \in RegSet(W)
    BY <1>1, <2>1, <2>2, PlaceStep
  <2> QED BY <2>3 DEF named
<1>4. \E p : p = [k \in 0 .. n |-> IF k = 0 THEN b
                                   ELSE Place(p[k - 1], c.args[k], k <= fixed)]
  <2> DEFINE S == RegSet(W)
             H == [k \in 1 .. n |-> [r \in S |-> Place(r, c.args[k], k <= fixed)]]
  <2>1. H \in StepsOf(n, S)
    BY <1>b DEF StepsOf
  <2>2. \A k \in 1 .. n : \A r \in S : H[k][r] = Place(r, c.args[k], k <= fixed)
    OBVIOUS
  <2>3. b \in S
    BY <1>3
  <2> HIDE DEF H, S
  <2>4. PICK p : Follows(p, n, S, b, H)
    BY <1>0, <2>1, <2>3, RecursionTo
  <2>5. p \in [0 .. n -> S] /\ p[0] = b /\ \A k \in 1 .. n : p[k] = H[k][p[k - 1]]
    BY <2>4 DEF Follows
  <2>6. \A k \in 0 .. n : p[k] = IF k = 0 THEN b
                                 ELSE Place(p[k - 1], c.args[k], k <= fixed)
    <3>1. ASSUME NEW k \in 1 .. n PROVE p[k] = Place(p[k - 1], c.args[k], k <= fixed)
      <4>1. k - 1 \in 0 .. n
        BY <1>0
      <4>2. p[k - 1] \in S
        BY <2>5, <4>1
      <4>3. p[k] = H[k][p[k - 1]]
        BY <2>5
      <4> QED BY <2>2, <4>2, <4>3, Zenon
    <3>2. \A k \in 0 .. n : k = 0 \/ k \in 1 .. n
      OBVIOUS
    <3>3. \A k \in 1 .. n : k # 0
      OBVIOUS
    <3> QED BY <2>5, <3>1, <3>2, <3>3, Zenon
  <2>7. p = [k \in 0 .. n |-> p[k]]
    BY <2>5
  <2>8. p = [k \in 0 .. n |-> IF k = 0 THEN b ELSE Place(p[k - 1], c.args[k], k <= fixed)]
    BY <2>6, <2>7, Zenon
  <2> QED BY <2>8
<1>5. P = [k \in 0 .. n |-> IF k = 0 THEN b ELSE Place(P[k - 1], c.args[k], k <= fixed)]
  BY <1>2, <1>4, Zenon DEF G
<1>6. P[0] = b /\ \A k \in 1 .. n : P[k] = Place(P[k - 1], c.args[k], k <= fixed)
  <2>1. 0 \in 0 .. n /\ \A k \in 1 .. n : k \in 0 .. n /\ k # 0
    BY <1>0
  <2> QED BY <1>5, <2>1, Zenon
<1>7. \A k \in 0 .. n : P[k] \in RegSet(W)
  <2> DEFINE T == {k \in 0 .. n : P[k] \in RegSet(W)}
  <2>1. ASSUME NEW k \in 0 .. n, \A j \in 0 .. k - 1 : j \in T PROVE k \in T
    <3>1. CASE k = 0
      BY <1>3, <1>6, <3>1
    <3>2. CASE k # 0
      <4>1. k \in 1 .. n /\ k - 1 \in 0 .. k - 1
        BY <3>2
      <4>2. P[k - 1] \in RegSet(W)
        BY <2>1, <4>1
      <4> QED BY <1>6, <1>b, <4>1, <4>2, Zenon
    <3> QED BY <3>1, <3>2
  <2> HIDE DEF T
  <2>2. \A k \in 0 .. n : (\A j \in 0 .. k - 1 : j \in T) => k \in T
    BY <2>1
  <2>3. 0 .. n \subseteq T
    BY <1>0, <2>2, CountUp
  <2> QED BY <2>3 DEF T
<1>8. PlacesArgs(c, W)
  BY <1>6, <1>7, Zenon DEF PlacesArgs, P, n, b, fixed
<1> QED BY <1>1, <1>8

\* The registers that a call leaves hold words.
LEMMA PlacedSet ==
    ASSUME NEW c, GoodArgs(c)
    PROVE  \E W : Placed(c) \in RegSet(W)
<1>1. PICK W : PlacesArgs(c, W)
  BY PlacingIs
<1>2. Len(c.args) \in 0 .. Len(c.args)
  BY DEF GoodArgs
<1> QED BY <1>1, <1>2, Zenon DEF PlacesArgs, Placed

\* The arguments are found where the counts say.
LEMMA PlacedAt ==
    ASSUME NEW c, GoodArgs(c), NEW tx, NEW tf, Counted(c, tx, tf)
    PROVE  AreIn(c, Len(c.args), Placed(c), tx, tf)
<1> DEFINE n == Len(c.args)
           b == [x |-> << >>, f |-> << >>]
           fixed == Fixed(c)
           P == Placing(c)
<1>0. n \in Nat
  BY DEF GoodArgs
<1>1. PICK W : Junk \in W /\ WordsIn(c, W) /\ PlacesArgs(c, W)
  BY PlacingIs
<1>a. \A k \in 1 .. n : (k <= fixed) \in BOOLEAN /\ c.args[k].value \in Seq(W)
                        /\ Len(c.args[k].value) = Size(c.args[k].type)
  BY <1>1 DEF WordsIn
<1>3. b \in RegSet(W)
  BY EmptySeq DEF RegSet
<1>6. P[0] = b /\ \A k \in 1 .. n : P[k] = Place(P[k - 1], c.args[k], k <= fixed)
  BY <1>1, Zenon DEF PlacesArgs
<1> HIDE DEF b, P, fixed
<1> DEFINE T == {k \in 0 .. n : P[k] \in RegSet(W) /\ AreIn(c, k, P[k], tx, tf)}
<1>7. ASSUME NEW k \in 0 .. n, \A j \in 0 .. k - 1 : j \in T PROVE k \in T
  <2>1. CASE k = 0
    <3>1. Len(b.x) = 0 /\ Len(b.f) = 0
      BY DEF b
    <3>2. tx[0] = 0 /\ tf[0] = 0
      BY DEF Counted
    <3>3. AreIn(c, 0, b, tx, tf)
      BY <3>1, <3>2 DEF AreIn
    <3> QED BY <1>3, <1>6, <2>1, <3>3
  <2>2. CASE k # 0
    <3>1. k \in 1 .. n /\ k - 1 \in 0 .. k - 1 /\ k - 1 \in 0 .. n
      BY <2>2
    <3> DEFINE r == P[k - 1]
               q == P[k]
               v == c.args[k].value
               z == Size(c.args[k].type)
               named == k <= fixed
    <3>2. r \in RegSet(W) /\ AreIn(c, k - 1, r, tx, tf)
      BY <1>7, <3>1
    <3>3. q = Place(r, c.args[k], named)
      BY <1>6, <3>1
    <3>4. named \in BOOLEAN /\ v \in Seq(W) /\ Len(v) = z
      BY <1>a, <3>1
    <3>5. InF(c, k) <=> named /\ InFReg(c.args[k].type)
      BY DEF InF, fixed
    <3>6. /\ tx[k - 1] \in Nat /\ tf[k - 1] \in Nat
          /\ IF InF(c, k) THEN tf[k] = tf[k - 1] + 1 /\ tx[k] = tx[k - 1]
             ELSE /\ tf[k] = tf[k - 1] /\ tx[k] = tx[k - 1] + z
                  /\ ~named /\ c.args[k].type = "double" => tx[k - 1] % 2 = 0
      BY <3>1 DEF Counted, fixed
    <3>7. r.x \in Seq(W) /\ r.f \in Seq(Seq(W)) /\ Len(r.x) = tx[k - 1] /\ Len(r.f) = tf[k - 1]
      BY <3>2 DEF AreIn, RegSet
    <3> HIDE DEF r, q, named
    <3>8. /\ q \in RegSet(W)
          /\ InF(c, k) => q = [x |-> r.x, f |-> Append(r.f, v)]
          /\ ~InF(c, k) => q = [x |-> r.x \o v, f |-> r.f]
      <4>1. ~InF(c, k) => (~named /\ c.args[k].type = "double" => Len(r.x) % 2 = 0)
        BY <3>6, <3>7
      <4> QED BY <1>1, <3>2, <3>3, <3>4, <3>5, <4>1, PlaceStep
    <3> HIDE DEF v
    <3>9. \A j \in 1 .. k : j \in 1 .. k - 1 \/ j = k
      OBVIOUS
    <3>10. \A j \in 1 .. k - 1 :
              IF InF(c, j)
              THEN tf[j - 1] + 1 \in 1 .. tf[k - 1] /\ r.f[tf[j - 1] + 1] = c.args[j].value
              ELSE \A m \in 1 .. Size(c.args[j].type) :
                      /\ tx[j - 1] + m \in 1 .. tx[k - 1]
                      /\ r.x[tx[j - 1] + m] = c.args[j].value[m]
      BY <3>2, Zenon DEF AreIn
    <3>11. CASE InF(c, k)
      <4> DEFINE g == Append(r.f, v)
      <4>1. /\ g \in Seq(Seq(W)) /\ Len(g) = tf[k - 1] + 1 /\ g[tf[k - 1] + 1] = v
            /\ \A d \in 1 .. tf[k - 1] : g[d] = r.f[d]
        BY <3>4, <3>7, AppendProperties
      <4> HIDE DEF g
      <4>2. q.x = r.x /\ q.f = g
        BY <3>8, <3>11 DEF g
      <4>3. tf[k] = tf[k - 1] + 1 /\ tx[k] = tx[k - 1]
        BY <3>6, <3>11
      <4>4. \A d \in 1 .. tf[k - 1] : d \in 1 .. tf[k]
        BY <3>6, <4>3
      <4>5. tf[k - 1] + 1 \in 1 .. tf[k]
        BY <3>6, <4>3
      <4>6. ASSUME NEW j \in 1 .. k
            PROVE  IF InF(c, j)
                   THEN tf[j - 1] + 1 \in 1 .. tf[k] /\ q.f[tf[j - 1] + 1] = c.args[j].value
                   ELSE \A m \in 1 .. Size(c.args[j].type) :
                           /\ tx[j - 1] + m \in 1 .. tx[k]
                           /\ q.x[tx[j - 1] + m] = c.args[j].value[m]
        <5>1. CASE j = k
          BY <3>11, <4>1, <4>2, <4>5, <5>1 DEF v
        <5>2. CASE j \in 1 .. k - 1
          BY <3>10, <4>1, <4>2, <4>3, <4>4, <5>2, Zenon
        <5> QED BY <3>9, <5>1, <5>2
      <4>7. Len(q.x) = tx[k] /\ Len(q.f) = tf[k]
        BY <3>7, <4>1, <4>2, <4>3
      <4> QED BY <3>8, <4>6, <4>7 DEF AreIn, q
    <3>12. CASE ~InF(c, k)
      <4> DEFINE g == r.x \o v
      <4>1. g \in Seq(W) /\ Joins(g, r.x, v)
        BY <3>4, <3>7, ConcatAt
      <4> HIDE DEF g
      <4>2. q.f = r.f /\ q.x = g
        BY <3>8, <3>12 DEF g
      <4>3. tf[k] = tf[k - 1] /\ tx[k] = tx[k - 1] + z
        BY <3>6, <3>12
      <4>4. /\ Len(g) = tx[k]
            /\ \A d \in 1 .. tx[k - 1] : d \in 1 .. tx[k] /\ g[d] = r.x[d]
            /\ \A d \in 1 .. z : tx[k - 1] + d \in 1 .. tx[k] /\ g[tx[k - 1] + d] = v[d]
        BY <3>4, <3>7, <4>1, <4>3, Zenon DEF Joins
      <4>6. ASSUME NEW j \in 1 .. k
            PROVE  IF InF(c, j)
                   THEN tf[j - 1] + 1 \in 1 .. tf[k] /\ q.f[tf[j - 1] + 1] = c.args[j].value
                   ELSE \A m \in 1 .. Size(c.args[j].type) :
                           /\ tx[j - 1] + m \in 1 .. tx[k]
                           /\ q.x[tx[j - 1] + m] = c.args[j].value[m]
        <5>1. CASE j = k
          BY <3>12, <4>2, <4>4, <5>1, Zenon DEF v
        <5>2. CASE j \in 1 .. k - 1
          BY <3>10, <4>2, <4>3, <4>4, <5>2, Zenon
        <5> QED BY <3>9, <5>1, <5>2
      <4>7. Len(q.x) = tx[k] /\ Len(q.f) = tf[k]
        BY <3>7, <4>2, <4>3, <4>4
      <4> QED BY <3>8, <4>6, <4>7 DEF AreIn, q
    <3> QED BY <3>11, <3>12
  <2> QED BY <2>1, <2>2
<1>8. 0 .. n \subseteq T
  <2> HIDE DEF T
  <2>1. \A k \in 0 .. n : (\A j \in 0 .. k - 1 : j \in T) => k \in T
    BY <1>7
  <2> QED BY <1>0, <2>1, CountUp
<1>9. AreIn(c, n, P[n], tx, tf)
  <2>1. n \in 0 .. n
    BY <1>0
  <2> QED BY <1>8, <2>1
<1> QED BY <1>9 DEF Placed, P
-----------------------------------------------------------------------------
(* What the library hears of the values that it is passed.                 *)

\* A function that looks for the arguments in their words reads them.
LEMMA ReadAll ==
    ASSUME NEW S, NEW a \in Seq(S),
           \A k \in 1 .. Len(a) :
              a[k] = [type |-> a[k].type,
                      value |-> [j \in 1 .. Size(a[k].type) |-> a[k].value[j]]],
           NEW types, types = [k \in 1 .. Len(a) |-> a[k].type],
           NEW words, Len(words) \in Nat,
           \A k \in 1 .. Len(a) : \A m \in 1 .. Size(types[k]) :
              /\ WordsBefore(types, k) + m \in 1 .. Len(words)
              /\ words[WordsBefore(types, k) + m] = a[k].value[m]
    PROVE  Read(types, words) = a
<1> DEFINE n == Len(a)
           at(q) == IF q <= Len(words) THEN words[q] ELSE Junk
           v(k) == [j \in 1 .. Size(types[k]) |-> at(WordsBefore(types, k) + j)]
<1>1. n \in Nat /\ a = [k \in 1 .. n |-> a[k]]
  BY LenProperties
<1>2. ASSUME NEW k \in 1 .. n PROVE [type |-> types[k], value |-> v(k)] = a[k]
  <2>1. types[k] = a[k].type
    OBVIOUS
  <2>2. ASSUME NEW j \in 1 .. Size(types[k])
        PROVE  at(WordsBefore(types, k) + j) = a[k].value[j]
    <3>1. /\ WordsBefore(types, k) + j \in 1 .. Len(words)
          /\ words[WordsBefore(types, k) + j] = a[k].value[j]
      OBVIOUS
    <3>2. WordsBefore(types, k) + j <= Len(words)
      BY <3>1
    <3> QED BY <3>1, <3>2, Zenon
  <2>3. v(k) = [j \in 1 .. Size(types[k]) |-> a[k].value[j]]
    BY <2>2, Zenon
  <2>4. a[k] = [type |-> a[k].type,
                value |-> [j \in 1 .. Size(a[k].type) |-> a[k].value[j]]]
    OBVIOUS
  <2> QED BY <2>1, <2>3, <2>4, Zenon
<1>3. DOMAIN types = 1 .. n
  OBVIOUS
<1>4. Read(types, words) = [k \in 1 .. n |-> [type |-> types[k], value |-> v(k)]]
  BY <1>3, Zenon DEF Read
<1>5. Read(types, words) = [k \in 1 .. n |-> a[k]]
  BY <1>2, <1>4, Zenon
<1> QED BY <1>1, <1>5, Zenon

\* The arguments of a call as a sequence.
LEMMA ArgsOwn ==
    ASSUME NEW c, GoodArgs(c)
    PROVE  c.args \in Seq(Range(c.args))
<1> DEFINE n == Len(c.args)
           S == Range(c.args)
<1>1. n \in Nat /\ c.args = [k \in 1 .. n |-> c.args[k]]
  BY DEF GoodArgs
<1> HIDE DEF n
<1>2. DOMAIN c.args = 1 .. n
  BY <1>1
<1>3. \A k \in 1 .. n : c.args[k] \in S
  BY <1>2 DEF Range
<1> HIDE DEF S
<1>4. [k \in 1 .. n |-> c.args[k]] \in Seq(S)
  BY <1>1, <1>3
<1> QED BY <1>1, <1>4, Zenon DEF S

LEMMA ArgsSeq ==
    ASSUME NEW c, GoodArgs(c)
    PROVE  \E S : c.args \in Seq(S)
BY ArgsOwn

\* The arguments before the format are passed.
NamedPassed(c, at, vals) ==
    \A k \in 1 .. (IF at = 0 THEN Fixed(c) ELSE at - 1) : vals[k] = c.args[k].value

\* The words of the arguments behind the format are in the sequence.
WordsPassed(c, at, words) ==
    LET rest == SubSeq(ArgTypes(c), at + 1, Len(c.args))
    IN /\ Len(words) \in Nat
       /\ \A k \in 1 .. Len(c.args) - at : \A m \in 1 .. Size(c.args[at + k].type) :
             /\ WordsBefore(rest, k) + m \in 1 .. Len(words)
             /\ words[WordsBefore(rest, k) + m] = c.args[at + k].value[m]

\* The library hears what is meant, when the values that it is passed are the
\* arguments before the format, and their words the ones behind it.
LEMMA HearsMeant ==
    ASSUME NEW c, GoodCall(c), NEW vals, NEW at, at = SigOf(c).fmt,
           NamedPassed(c, at, vals),
           at > 0 => WordsPassed(c, at, FlattenSeq(SubSeq(vals, at + 1, Len(vals))))
    PROVE  Hears(ExternalName(c.fn), c.fmt, vals) = MeantBy(c)
<1> DEFINE fn == ExternalName(c.fn)
           sig == SigOf(c)
           n == Len(c.args)
           types == ArgTypes(c)
<1>1. PICK S : c.args \in Seq(S)
  BY ArgsSeq DEF GoodCall
<1>2. /\ n \in Nat /\ Fixed(c) <= n /\ \A k \in 1 .. Fixed(c) : types[k] = sig.params[k]
      /\ \A k \in 1 .. n :
            c.args[k] = [type |-> c.args[k].type,
                         value |-> [j \in 1 .. Size(c.args[k].type) |-> c.args[k].value[j]]]
  BY Zenon DEF GoodCall, GoodArgs
<1>3. GoodSig(sig)
  BY Zenon DEF GoodCall, GoodLibrary, SigOf
<1>4. /\ Fixed(c) \in Nat /\ at \in 0 .. Fixed(c) /\ (sig.vararg => at > 0)
      /\ sig.vararg \in BOOLEAN
  BY <1>3, LenProperties DEF GoodSig, Fixed
<1>5. \A k \in 1 .. n : types[k] = c.args[k].type
  BY DEF ArgTypes
<1>0. \A k \in 1 .. (IF at = 0 THEN Fixed(c) ELSE at - 1) : vals[k] = c.args[k].value
  BY DEF NamedPassed
<1>6. ASSUME NEW k \in 1 .. Fixed(c), vals[k] = c.args[k].value
      PROVE  [type |-> sig.params[k], value |-> vals[k]] = c.args[k]
  <2>1. k \in 1 .. n
    BY <1>2, <1>4
  <2>2. c.args[k].type = sig.params[k]
    BY <1>2, <1>5, <2>1
  <2> DEFINE arg == c.args[k]
             u == [j \in 1 .. Size(c.args[k].type) |-> c.args[k].value[j]]
             t == c.args[k].type
  <2>3. arg = [type |-> t, value |-> u]
    BY <1>2, <2>1, Zenon
  <2> HIDE DEF u, t
  <2>4. arg.value = u
    <3> HIDE DEF arg
    <3> QED BY <2>3
  <2> QED BY <1>6, <2>2, <2>3, <2>4, Zenon DEF t
<1>7. MeantBy(c) = SubSeq(c.args, 1, at - 1) \o SubSeq(c.args, at + 1, n)
  BY DEF MeantBy, SigOf
<1> HIDE DEF types
<1>8. CASE at = 0
  <2>1. SubSeq(c.args, 1, at - 1) = << >>
    <3>1. 1 \in Int /\ at - 1 \in Int /\ at - 1 < 1
      BY <1>8
    <3> QED BY <3>1, SubSeqEmpty
  <2>2. SubSeq(c.args, at + 1, n) = c.args
    <3>1. SubSeq(c.args, 1, n) = c.args
      BY <1>1, SubSeqFull
    <3>2. at + 1 = 1
      BY <1>8
    <3> QED BY <3>1, <3>2, Zenon
  <2>3. MeantBy(c) = c.args
    <3>1. << >> \o c.args = c.args
      BY <1>1, ConcatEmptySeq
    <3> QED BY <1>7, <2>1, <2>2, <3>1, Zenon
  <2>4. n = Fixed(c)
    <3>1. ~sig.vararg
      BY <1>4, <1>8
    <3> QED BY <3>1, Zenon DEF GoodCall
  <2>5. Hears(fn, c.fmt, vals) = [k \in 1 .. n |-> [type |-> sig.params[k], value |-> vals[k]]]
    BY <1>8, <2>4, Zenon DEF Hears, SigOf, Fixed
  <2>6. \A k \in 1 .. n : [type |-> sig.params[k], value |-> vals[k]] = c.args[k]
    BY <1>0, <1>6, <1>8, <2>4
  <2>7. Hears(fn, c.fmt, vals) = [k \in 1 .. n |-> c.args[k]]
    BY <2>5, <2>6, Zenon
  <2>8. c.args = [k \in 1 .. n |-> c.args[k]]
    BY Zenon DEF GoodCall, GoodArgs
  <2> QED BY <2>3, <2>7, <2>8, Zenon
<1>9. CASE at # 0
  <2> DEFINE named == [k \in 1 .. at - 1 |-> [type |-> sig.params[k], value |-> vals[k]]]
             words == FlattenSeq(SubSeq(vals, at + 1, Len(vals)))
             a == SubSeq(c.args, at + 1, n)
             rest == SubSeq(types, at + 1, n)
             pre == SubSeq(c.args, 1, at - 1)
  <2>1. Hears(fn, c.fmt, vals) = named \o Read(TypesOf(c.fmt), words)
    BY <1>9, Zenon DEF Hears, SigOf
  <2>2. at > 0 /\ at \in Nat /\ at <= n /\ at - 1 \in Nat /\ at - 1 <= n /\ n - at \in Nat
    BY <1>2, <1>4, <1>9
  <2>3. TypesOf(c.fmt) = rest
    BY <2>2, Zenon DEF GoodCall, types
  <2>0. n \in Nat /\ n = Len(c.args)
    BY <1>2
  <2>4. a \in Seq(S) /\ Len(a) = n - at /\ \A k \in 1 .. n - at : a[k] = c.args[at + k]
    <3> HIDE DEF n
    <3>1. n <= Len(c.args)
      BY <2>0
    <3>2. a \in Seq(S) /\ IsPart(a, c.args, at, n)
      BY <1>1, <2>0, <2>2, <3>1, PartIs
    <3> HIDE DEF a
    <3> QED BY <3>2 DEF IsPart
  <2>5. /\ pre \in Seq(S) /\ Len(pre) = at - 1
        /\ \A k \in 1 .. at - 1 : pre[k] = c.args[k]
    <3> DEFINE o == at - 1
               z == 0
    <3>1. o \in Nat /\ o <= n /\ z \in Nat /\ z <= o
      BY <2>2
    <3> HIDE DEF o, z
    <3>2. /\ SubSeq(c.args, z + 1, o) \in Seq(S) /\ Len(SubSeq(c.args, z + 1, o)) = o - z
          /\ \A k \in 1 .. o - z : SubSeq(c.args, z + 1, o)[k] = c.args[z + k]
      BY <1>1, <3>1, PartOf
    <3>3. z + 1 = 1 /\ o - z = o /\ \A k \in 1 .. o : z + k = k
      BY <3>1 DEF z
    <3>4. /\ SubSeq(c.args, 1, o) \in Seq(S) /\ Len(SubSeq(c.args, 1, o)) = o
          /\ \A k \in 1 .. o : SubSeq(c.args, 1, o)[k] = c.args[k]
      BY <3>2, <3>3, Zenon
    <3> QED BY <3>4 DEF o
  <2>6. /\ rest = [k \in 1 .. n - at |-> rest[k]]
        /\ \A k \in 1 .. n - at : rest[k] = c.args[at + k].type
    <3>1. \A k \in 1 .. n : types[k] \in {c.args[j].type : j \in 1 .. n}
      BY <1>5
    <3> DEFINE Q == {c.args[j].type : j \in 1 .. n}
    <3>2. types \in Seq(Q) /\ Len(types) = n
      BY <1>2, <3>1 DEF ArgTypes, types
    <3> HIDE DEF Q
    <3>3. /\ rest \in Seq(Q) /\ Len(rest) = n - at
          /\ \A k \in 1 .. n - at : rest[k] = types[at + k]
      <4> HIDE DEF n
      <4>1. n <= Len(types)
        BY <2>0, <3>2
      <4>2. rest \in Seq(Q) /\ IsPart(rest, types, at, n)
        BY <2>0, <2>2, <3>2, <4>1, PartIs
      <4> HIDE DEF rest
      <4> QED BY <4>2 DEF IsPart
    <3> HIDE DEF rest
    <3>4. rest = [k \in 1 .. n - at |-> rest[k]]
      BY <3>3
    <3>5. \A k \in 1 .. n - at : at + k \in 1 .. n
      <4> HIDE DEF n
      <4> QED BY <2>0, <2>2
    <3> QED BY <1>5, <3>3, <3>4, <3>5
  <2>7. /\ Len(words) \in Nat
        /\ \A k \in 1 .. n - at : \A m \in 1 .. Size(c.args[at + k].type) :
              /\ WordsBefore(rest, k) + m \in 1 .. Len(words)
              /\ words[WordsBefore(rest, k) + m] = c.args[at + k].value[m]
    BY <2>2, Zenon DEF types, WordsPassed
  <2> HIDE DEF named, words, a, rest, pre, n
  <2>8. Read(rest, words) = a
    <3> DEFINE l == n - at
    <3>0. l \in Nat /\ Len(a) = l /\ \A k \in 1 .. l : at + k \in 1 .. n
      BY <1>2, <2>2, <2>4
    <3>1. /\ \A k \in 1 .. l : a[k] = c.args[at + k] /\ rest[k] = c.args[at + k].type
          /\ rest = [k \in 1 .. l |-> rest[k]]
      BY <2>4, <2>6, Zenon
    <3>2. ASSUME NEW k \in 1 .. l
          PROVE  a[k] = [type |-> a[k].type,
                         value |-> [j \in 1 .. Size(a[k].type) |-> a[k].value[j]]]
      <4> DEFINE arg == c.args[at + k]
      <4>1. arg = [type |-> arg.type,
                   value |-> [j \in 1 .. Size(arg.type) |-> arg.value[j]]]
        BY <1>2, <3>0, Zenon DEF n
      <4>2. a[k] = arg
        BY <3>1, Zenon
      <4> HIDE DEF arg
      <4> QED BY <4>1, <4>2, Zenon
    <3>3. rest = [k \in 1 .. l |-> a[k].type]
      <4>1. \A k \in 1 .. l : rest[k] = a[k].type
        BY <3>1, Zenon
      <4> QED BY <3>1, <4>1, Zenon
    <3>4. ASSUME NEW k \in 1 .. l
          PROVE  \A m \in 1 .. Size(rest[k]) :
                    /\ WordsBefore(rest, k) + m \in 1 .. Len(words)
                    /\ words[WordsBefore(rest, k) + m] = a[k].value[m]
      <4> DEFINE arg == c.args[at + k]
      <4>1. \A m \in 1 .. Size(arg.type) :
               /\ WordsBefore(rest, k) + m \in 1 .. Len(words)
               /\ words[WordsBefore(rest, k) + m] = arg.value[m]
        BY <2>7, Zenon
      <4>2. a[k] = arg /\ rest[k] = arg.type
        BY <3>1, Zenon
      <4> HIDE DEF arg
      <4>3. rest[k] = a[k].type
        BY <4>2, Zenon
      <4> QED BY <4>1, <4>2, Zenon
    <3> HIDE DEF l
    <3>5. rest = [k \in 1 .. Len(a) |-> a[k].type]
      BY <3>0, <3>3, Zenon
    <3>6. \A k \in 1 .. Len(a) :
             /\ a[k] = [type |-> a[k].type,
                        value |-> [j \in 1 .. Size(a[k].type) |-> a[k].value[j]]]
             /\ \A m \in 1 .. Size(rest[k]) :
                   /\ WordsBefore(rest, k) + m \in 1 .. Len(words)
                   /\ words[WordsBefore(rest, k) + m] = a[k].value[m]
      BY <3>0, <3>2, <3>4, Zenon
    <3> QED BY <2>4, <2>7, <3>5, <3>6, ReadAll
  <2>9. named = pre
    <3>1. \A k \in 1 .. at - 1 : k \in 1 .. Fixed(c)
      BY <1>4, <2>2
    <3>2. \A k \in 1 .. at - 1 : [type |-> sig.params[k], value |-> vals[k]] = c.args[k]
      BY <1>0, <1>6, <1>9, <3>1
    <3>3. named = [k \in 1 .. at - 1 |-> c.args[k]]
      BY <3>2, Zenon DEF named
    <3>4. pre = [k \in 1 .. at - 1 |-> pre[k]]
      BY <2>5
    <3>5. pre = [k \in 1 .. at - 1 |-> c.args[k]]
      BY <2>5, <3>4, Zenon
    <3> QED BY <3>3, <3>5, Zenon
  <2> QED BY <1>7, <2>1, <2>3, <2>8, <2>9, Zenon DEF named, words, a, rest, pre, n
<1> QED BY <1>8, <1>9

-----------------------------------------------------------------------------
(* The registers that a Caller takes the values of types from.             *)

Taken(types, tx, tf) ==
    LET n == Len(types)
    IN /\ tx \in [0 .. n -> Nat] /\ tf \in [0 .. n -> Nat] /\ tx[0] = 0 /\ tf[0] = 0
       /\ \A k \in 1 .. n :
             IF InFReg(types[k]) THEN tf[k] = tf[k - 1] + 1 /\ tx[k] = tx[k - 1]
             ELSE tf[k] = tf[k - 1] /\ tx[k] = tx[k - 1] + Size(types[k])

LEMMA TakeFacts ==
    ASSUME NEW r, NEW type, NEW y \in Nat, NEW z \in Nat, r = [x |-> y, f |-> z]
    PROVE  Take(r, type) = IF InFReg(type) THEN [x |-> y, f |-> z + 1]
                                           ELSE [x |-> y + Size(type), f |-> z]
<1>1. \A a, d, u : /\ [[x |-> a, f |-> d] EXCEPT !.f = u] = [x |-> a, f |-> u]
                   /\ [[x |-> a, f |-> d] EXCEPT !.x = u] = [x |-> u, f |-> d]
  OBVIOUS
<1>2. r.x = y /\ r.f = z
  OBVIOUS
<1>3. /\ [r EXCEPT !.f = z + 1] = [x |-> y, f |-> z + 1]
      /\ [r EXCEPT !.x = y + Size(type)] = [x |-> y + Size(type), f |-> z]
  BY <1>1
<1>4. Take(r, type) = IF InFReg(type) THEN [r EXCEPT !.f = r.f + 1]
                                      ELSE [r EXCEPT !.x = r.x + Size(type)]
  BY Zenon DEF Take
<1> QED BY <1>2, <1>3, <1>4, Zenon

\* The counts are those of Taking.
LEMMA TakingIs ==
    ASSUME NEW types, Len(types) \in Nat, NEW tx, NEW tf, Taken(types, tx, tf)
    PROVE  \A k \in 0 .. Len(types) : Taking(types)[k] = [x |-> tx[k], f |-> tf[k]]
<1> DEFINE n == Len(types)
           b == [x |-> 0, f |-> 0]
           F == Taking(types)
           h == [k \in 0 .. n |-> [x |-> tx[k], f |-> tf[k]]]
           G == CHOOSE p : p = [k \in 0 .. n |-> IF k = 0 THEN b ELSE Take(p[k - 1], types[k])]
<1>0. n \in Nat /\ \A k \in 0 .. n : tx[k] \in Nat /\ tf[k] \in Nat
  BY DEF Taken
<1>1. F = G
  BY Zenon DEF Taking
<1>2. \A k \in 0 .. n : h[k] = [x |-> tx[k], f |-> tf[k]]
  OBVIOUS
<1>3. ASSUME NEW k \in 1 .. n, NEW r, r = [x |-> tx[k - 1], f |-> tf[k - 1]]
      PROVE  Take(r, types[k]) = [x |-> tx[k], f |-> tf[k]]
  <2>1. k - 1 \in 0 .. n
    BY <1>0
  <2> DEFINE y == tx[k - 1]
             z == tf[k - 1]
             y1 == tx[k]
             z1 == tf[k]
  <2>2. /\ y \in Nat /\ z \in Nat /\ r = [x |-> y, f |-> z]
        /\ IF InFReg(types[k]) THEN z1 = z + 1 /\ y1 = y
           ELSE z1 = z /\ y1 = y + Size(types[k])
    BY <1>0, <1>3, <2>1 DEF Taken
  <2> HIDE DEF y, z, y1, z1
  <2>3. Take(r, types[k]) = IF InFReg(types[k]) THEN [x |-> y, f |-> z + 1]
                            ELSE [x |-> y + Size(types[k]), f |-> z]
    BY <2>2, TakeFacts
  <2>4. Take(r, types[k]) = [x |-> y1, f |-> z1]
    BY <2>2, <2>3
  <2> QED BY <2>4 DEF y1, z1
<1> HIDE DEF h, F, G
<1>4. h = [k \in 0 .. n |-> IF k = 0 THEN b ELSE Take(h[k - 1], types[k])]
  <2>1. ASSUME NEW k \in 0 .. n
        PROVE  h[k] = IF k = 0 THEN b ELSE Take(h[k - 1], types[k])
    <3>1. CASE k = 0
      <4>1. tx[0] = 0 /\ tf[0] = 0
        BY DEF Taken
      <4> QED BY <1>2, <3>1, <4>1
    <3>2. CASE k # 0
      <4>1. k \in 1 .. n /\ k - 1 \in 0 .. n
        BY <3>2
      <4>2. h[k - 1] = [x |-> tx[k - 1], f |-> tf[k - 1]]
        BY <1>2, <4>1
      <4>3. Take(h[k - 1], types[k]) = h[k]
        BY <1>2, <1>3, <4>1, <4>2
      <4> QED BY <3>2, <4>3
    <3> QED BY <3>1, <3>2
  <2>2. h = [k \in 0 .. n |-> h[k]]
    BY DEF h
  <2> HIDE DEF b
  <2> QED BY <2>1, <2>2, Zenon
<1>5. F = [k \in 0 .. n |-> IF k = 0 THEN b ELSE Take(F[k - 1], types[k])]
  BY <1>1, <1>4, Zenon DEF G
<1>6. F[0] = b /\ \A k \in 1 .. n : F[k] = Take(F[k - 1], types[k])
  <2>1. 0 \in 0 .. n /\ \A k \in 1 .. n : k \in 0 .. n /\ k # 0
    BY <1>0
  <2> HIDE DEF b
  <2> QED BY <1>5, <2>1, Zenon
<1> DEFINE T == {k \in 0 .. n : F[k] = [x |-> tx[k], f |-> tf[k]]}
<1>7. ASSUME NEW k \in 0 .. n, \A j \in 0 .. k - 1 : j \in T PROVE k \in T
  <2>1. CASE k = 0
    <3>1. tx[0] = 0 /\ tf[0] = 0
      BY DEF Taken
    <3> QED BY <1>6, <2>1, <3>1
  <2>2. CASE k # 0
    <3>1. k \in 1 .. n /\ k - 1 \in 0 .. k - 1
      BY <2>2
    <3>2. F[k - 1] = [x |-> tx[k - 1], f |-> tf[k - 1]]
      BY <1>7, <3>1
    <3>3. F[k] = [x |-> tx[k], f |-> tf[k]]
      BY <1>3, <1>6, <3>1, <3>2
    <3> QED BY <3>3
  <2> QED BY <2>1, <2>2
<1>8. 0 .. n \subseteq T
  <2> HIDE DEF T
  <2>1. \A k \in 0 .. n : (\A j \in 0 .. k - 1 : j \in T) => k \in T
    BY <1>7
  <2> QED BY <1>0, <2>1, CountUp
<1> QED BY <1>8 DEF F

\* There are such counts, no more than the words.
LEMMA TakesExist ==
    ASSUME NEW types, Len(types) \in Nat
    PROVE  \E tx, tf : /\ Taken(types, tx, tf)
                       /\ \A k \in 0 .. Len(types) :
                             /\ tx[k] <= WordsBefore(types, k + 1)
                             /\ ~hf => tx[k] = WordsBefore(types, k + 1)
<1> DEFINE n == Len(types)
           S == [x : Nat, f : Nat]
           b == [x |-> 0, f |-> 0]
           G == [k \in 1 .. n |-> [r \in S |->
                    IF InFReg(types[k]) THEN [x |-> r.x, f |-> r.f + 1]
                                        ELSE [x |-> r.x + Size(types[k]), f |-> r.f]]]
<1>0. n \in Nat
  OBVIOUS
<1>1. \A k \in 1 .. n : Size(types[k]) \in Nat
  BY DEF Size
<1>2. G \in StepsOf(n, S)
  <2>1. \A k \in 1 .. n : \A r \in S :
           (IF InFReg(types[k]) THEN [x |-> r.x, f |-> r.f + 1]
                                ELSE [x |-> r.x + Size(types[k]), f |-> r.f]) \in S
    BY <1>1
  <2> QED BY <2>1 DEF StepsOf
<1>3. b \in S
  OBVIOUS
<1>4. \A k \in 1 .. n : \A r \in S :
         G[k][r] = IF InFReg(types[k]) THEN [x |-> r.x, f |-> r.f + 1]
                                       ELSE [x |-> r.x + Size(types[k]), f |-> r.f]
  OBVIOUS
<1> HIDE DEF G
<1>5. PICK p : Follows(p, n, S, b, G)
  <2> HIDE DEF S, b, n
  <2> QED BY <1>0, <1>2, <1>3, RecursionTo
<1>6. p \in [0 .. n -> S] /\ p[0] = b /\ \A k \in 1 .. n : p[k] = G[k][p[k - 1]]
  BY <1>5 DEF Follows
<1> DEFINE tx == [k \in 0 .. n |-> p[k].x]
           tf == [k \in 0 .. n |-> p[k].f]
<1>7. tx \in [0 .. n -> Nat] /\ tf \in [0 .. n -> Nat] /\ tx[0] = 0 /\ tf[0] = 0
  BY <1>6
<1>8. ASSUME NEW k \in 1 .. n
      PROVE  IF InFReg(types[k]) THEN tf[k] = tf[k - 1] + 1 /\ tx[k] = tx[k - 1]
             ELSE tf[k] = tf[k - 1] /\ tx[k] = tx[k - 1] + Size(types[k])
  <2>1. k - 1 \in 0 .. n /\ k \in 0 .. n
    BY <1>0
  <2> DEFINE r == p[k - 1]
             q == p[k]
  <2>2. r \in S /\ q = G[k][r]
    BY <1>6, <2>1
  <2>3. tx[k - 1] = r.x /\ tf[k - 1] = r.f /\ tx[k] = q.x /\ tf[k] = q.f
    BY <2>1
  <2> HIDE DEF r, q, tx, tf
  <2>4. q = IF InFReg(types[k]) THEN [x |-> r.x, f |-> r.f + 1]
                                ELSE [x |-> r.x + Size(types[k]), f |-> r.f]
    BY <1>4, <2>2
  <2> QED BY <2>3, <2>4
<1> HIDE DEF tx, tf
<1>9. Taken(types, tx, tf)
  BY <1>7, <1>8 DEF Taken
<1> DEFINE T == {k \in 0 .. n : /\ tx[k] <= WordsBefore(types, k + 1)
                                /\ ~hf => tx[k] = WordsBefore(types, k + 1)}
<1>10. ASSUME NEW k \in 0 .. n, \A j \in 0 .. k - 1 : j \in T PROVE k \in T
  <2>1. CASE k = 0
    <3>1. WordsBefore(types, 1) = 0 /\ k + 1 = 1
      <4>1. 1 \in Nat /\ 1 > 0
        OBVIOUS
      <4> QED BY <2>1, <4>1, WordsStep
    <3> QED BY <1>7, <2>1, <3>1
  <2>2. CASE k # 0
    <3>1. k \in 1 .. n /\ k - 1 \in 0 .. k - 1 /\ k - 1 + 1 = k /\ k \in Nat /\ k > 0
          /\ k - 1 \in 0 .. n
      BY <2>2
    <3> DEFINE w == WordsBefore(types, k)
               w1 == WordsBefore(types, k + 1)
               z == Size(types[k])
    <3>2. tx[k - 1] <= w /\ (~hf => tx[k - 1] = w)
      BY <1>10, <3>1
    <3>3. w \in Nat /\ w1 = w + z
      BY <3>1, WordsStep
    <3>4. z \in Nat
      BY <1>1, <3>1
    <3>5. tx[k - 1] \in Nat
      BY <1>7, <3>1
    <3>6. IF InFReg(types[k]) THEN tx[k] = tx[k - 1] ELSE tx[k] = tx[k - 1] + z
      BY <1>8, <3>1
    <3>7. ~hf => ~InFReg(types[k])
      BY DEF InFReg
    <3> HIDE DEF w, w1, z
    <3>8. tx[k] <= w1 /\ (~hf => tx[k] = w1)
      BY <3>2, <3>3, <3>4, <3>5, <3>6, <3>7
    <3> QED BY <3>8 DEF w1
  <2> QED BY <2>1, <2>2
<1>11. 0 .. n \subseteq T
  <2> HIDE DEF T
  <2>1. \A k \in 0 .. n : (\A j \in 0 .. k - 1 : j \in T) => k \in T
    BY <1>10
  <2> QED BY <1>0, <2>1, CountUp
<1> QED BY <1>9, <1>11

\* The values that a Caller passes.
LEMMA CallerPasses ==
    ASSUME NEW fn, NEW words, TotalArgs(fn) \in Nat,
           NEW tx, NEW tf, Taken(ParamTypes(fn), tx, tf)
    PROVE  /\ Len(CallerArgs(fn, words)) = TotalArgs(fn)
           /\ CallerArgs(fn, words) = [k \in 1 .. TotalArgs(fn) |-> CallerArgs(fn, words)[k]]
           /\ \A k \in 1 .. TotalArgs(fn) :
                 CallerArgs(fn, words)[k] =
                    IF InFReg(ParamTypes(fn)[k]) THEN FReg(tf[k - 1])
                    ELSE [j \in 1 .. Size(ParamTypes(fn)[k]) |->
                             IF tx[k - 1] + j - 1 < words THEN Reg(tx[k - 1] + j - 1) ELSE Zero]
<1> DEFINE types == ParamTypes(fn)
           n == TotalArgs(fn)
           taken == Taking(types)
           word(k) == IF k < words THEN Reg(k) ELSE Zero
           C == CallerArgs(fn, words)
<1>1. DOMAIN types = 1 .. n /\ Len(types) = n
  BY DEF ParamTypes
<1>2. C = [k \in 1 .. n |-> IF InFReg(types[k]) THEN FReg(taken[k - 1].f)
                            ELSE [j \in 1 .. Size(types[k]) |-> word(taken[k - 1].x + j - 1)]]
  BY <1>1, Zenon DEF CallerArgs
<1>3. \A k \in 0 .. n : taken[k] = [x |-> tx[k], f |-> tf[k]]
  BY <1>1, TakingIs
<1> HIDE DEF types, n, taken, C
<1>4. \A k \in 1 .. n : taken[k - 1].x = tx[k - 1] /\ taken[k - 1].f = tf[k - 1]
  <2>1. ASSUME NEW k \in 0 .. n PROVE taken[k].x = tx[k] /\ taken[k].f = tf[k]
    <3> DEFINE r == taken[k]
               y == tx[k]
               z == tf[k]
    <3>1. r = [x |-> y, f |-> z]
      BY <1>3
    <3> HIDE DEF r, y, z
    <3>2. r.x = y /\ r.f = z
      BY <3>1
    <3> QED BY <3>2 DEF r, y, z
  <2>2. \A k \in 1 .. n : k - 1 \in 0 .. n
    BY DEF n
  <2> QED BY <2>1, <2>2
<1>5. Len(C) = n /\ C = [k \in 1 .. n |-> C[k]]
  BY <1>2 DEF n
<1>6. \A k \in 1 .. n : C[k] = IF InFReg(types[k]) THEN FReg(tf[k - 1])
                               ELSE [j \in 1 .. Size(types[k]) |-> word(tx[k - 1] + j - 1)]
  BY <1>2, <1>4, Zenon
<1> QED BY <1>5, <1>6, Zenon DEF types, n, C

-----------------------------------------------------------------------------
(* The arguments of a call that can be passed reach the library.           *)

\* What a Caller passes on of a function's words: all of them.
WordsEnough(fn, words) == words = 2 * MaxArgs \/ (words = WordArgs(fn) /\ (~hf \/ Library[fn].vararg))

LEMMA ArgsTotal ==
    ASSUME NEW c, GoodCall(c), NEW fn, fn = ExternalName(c.fn), NEW words,
           WordsEnough(fn, words)
    PROVE  LET n == TotalArgs(fn)
               w == WordsBefore(SigOf(c).params, Fixed(c) + 1)
           IN /\ n \in Nat /\ words \in Nat /\ Fixed(c) \in Nat /\ Fixed(c) <= 8 /\ w <= 8
              /\ w \in Nat
              /\ SigOf(c).vararg => /\ n <= 8 /\ n <= words /\ Fixed(c) <= n
                                    /\ \A k \in 1 .. Fixed(c) : SigOf(c).params[k] = "int"
              /\ ~SigOf(c).vararg => n = Fixed(c) /\ w <= words
<1> DEFINE sig == SigOf(c)
           fixed == Fixed(c)
           w == WordsBefore(sig.params, fixed + 1)
<1>1. GoodSig(sig) /\ fn \in DOMAIN Library /\ sig = Library[fn] /\ fixed = Len(sig.params)
  BY Zenon DEF GoodCall, GoodLibrary, SigOf, Fixed
<1>2. fixed \in Nat /\ sig.vararg \in BOOLEAN /\ w <= 8
      /\ (sig.vararg => \A k \in 1 .. fixed : sig.params[k] = "int")
  BY <1>1, LenProperties DEF GoodSig, MaxArgs
<1>3. fixed <= 8
  <2> DEFINE e == fixed + 1
             p == sig.params
  <2>1. e \in Nat /\ e > 0 /\ e - 1 = fixed
    BY <1>2
  <2> HIDE DEF e, p
  <2>2. WordsBefore(p, e) \in Nat /\ e - 1 <= WordsBefore(p, e)
    BY <2>1, WordsStep, WordsAtLeast
  <2>3. w = WordsBefore(p, e)
    BY DEF e, p
  <2> HIDE DEF w, fixed
  <2> QED BY <1>2, <2>1, <2>2, <2>3
<1>4. w \in Nat
  <2>1. fixed + 1 \in Nat /\ fixed + 1 > 0
    BY <1>2
  <2> HIDE DEF sig, fixed
  <2> QED BY <2>1, WordsStep
<1>5. ASSUME sig.vararg PROVE w = fixed
  <2> DEFINE p == sig.params
  <2>1. \A k \in 1 .. fixed : p[k] # "double"
    BY <1>2, <1>5
  <2> HIDE DEF p, fixed
  <2>2. \A k \in 0 .. fixed : WordsBefore(p, k + 1) = k
    <3> DEFINE z == 0
    <3>1. z \in Nat /\ \A k \in 1 .. z : p[k] = p[fixed + k]
      OBVIOUS
    <3> HIDE DEF z
    <3> QED BY <1>2, <2>1, <3>1, WordsShift
  <2>3. fixed \in 0 .. fixed
    BY <1>2
  <2>4. WordsBefore(p, fixed + 1) = fixed
    BY <2>2, <2>3
  <2> QED BY <2>4 DEF p
<1>6. TotalArgs(fn) = IF sig.vararg THEN Min({fixed + 4, MaxArgs}) ELSE fixed
  BY <1>1, Zenon DEF TotalArgs
<1>7. ~hf \/ sig.vararg => WordArgs(fn) = IF sig.vararg THEN Min({w + 4, MaxArgs}) ELSE w
  BY <1>1, Zenon DEF WordArgs
<1>8. words = 2 * MaxArgs \/ (words = WordArgs(fn) /\ (~hf \/ sig.vararg))
  BY <1>1, Zenon DEF WordsEnough
<1>9. Min({fixed + 4, MaxArgs}) = IF fixed + 4 <= 8 THEN fixed + 4 ELSE 8
  <2>1. fixed + 4 \in Nat /\ 8 \in Nat
    BY <1>2
  <2> HIDE DEF fixed
  <2> QED BY <2>1, MinOf DEF MaxArgs
<1> DEFINE n == TotalArgs(fn)
<1> HIDE DEF sig, fixed, w, n
<1>10. CASE sig.vararg
  <2>1. n = (IF fixed + 4 <= 8 THEN fixed + 4 ELSE 8) /\ w = fixed
    BY <1>5, <1>6, <1>9, <1>10 DEF n
  <2>2. n \in Nat /\ n <= 8 /\ fixed <= n
    BY <1>2, <1>3, <2>1
  <2>3. words = 16 \/ words = n
    <3>1. words = WordArgs(fn) /\ (~hf \/ sig.vararg) => words = n
      BY <1>6, <1>7, <1>10, <2>1, Zenon DEF n
    <3> QED BY <1>8, <3>1 DEF MaxArgs
  <2> QED BY <1>2, <1>3, <1>4, <1>10, <2>2, <2>3 DEF sig, fixed, w, n
<1>11. CASE ~sig.vararg
  <2>1. n = fixed
    BY <1>6, <1>11 DEF n
  <2>2. words = 16 \/ words = w
    BY <1>7, <1>8, <1>11 DEF MaxArgs
  <2> QED BY <1>2, <1>3, <1>4, <1>11, <2>1, <2>2 DEF sig, fixed, w, n
<1> QED BY <1>2, <1>10, <1>11

\* The values of the arguments.
ValuesOf(c, vals) == /\ Len(vals) = Len(c.args)
                     /\ vals = [k \in 1 .. Len(c.args) |-> c.args[k].value]

\* A function with named arguments only is passed each one.
LEMMA FixedPassed ==
    ASSUME NEW c, GoodCall(c), NEW fn, fn = ExternalName(c.fn), NEW words,
           WordsEnough(fn, words), regs = Placed(c), ~SigOf(c).vararg
    PROVE  ValuesOf(c, CallerArgs(fn, words))
<1> DEFINE n == Len(c.args)
           types == ParamTypes(fn)
           C == CallerArgs(fn, words)
           w == WordsBefore(SigOf(c).params, Fixed(c) + 1)
<1>1. /\ n \in Nat /\ n = Fixed(c) /\ n = TotalArgs(fn) /\ w <= 8 /\ w <= words
      /\ words \in Nat /\ w \in Nat
  <2>1. n = Fixed(c)
    BY Zenon DEF GoodCall
  <2> QED BY <2>1, ArgsTotal
<1>2. /\ \A k \in 1 .. n : c.args[k].type = types[k] /\ types[k] = SigOf(c).params[k]
      /\ types = [k \in 1 .. n |-> types[k]] /\ Len(types) = n
  <2>1. \A k \in 1 .. n : ArgTypes(c)[k] = SigOf(c).params[k]
    BY <1>1, Zenon DEF GoodCall
  <2>2. \A k \in 1 .. n : ArgTypes(c)[k] = c.args[k].type
    BY DEF ArgTypes
  <2>3. types = [k \in 1 .. n |-> IF k <= n THEN SigOf(c).params[k] ELSE "int"]
    BY <1>1, Zenon DEF ParamTypes, SigOf, Fixed
  <2>4. \A k \in 1 .. n : types[k] = SigOf(c).params[k]
    <3> HIDE DEF types
    <3> QED BY <1>1, <2>3
  <2>5. Len(types) = n /\ types = [k \in 1 .. n |-> types[k]]
    <3> HIDE DEF types, n
    <3> QED BY <1>1, <2>3
  <2> QED BY <2>1, <2>2, <2>4, <2>5, Zenon
<1>3. PICK tx, tf : /\ Taken(types, tx, tf)
                    /\ \A k \in 0 .. n : /\ tx[k] <= WordsBefore(types, k + 1)
                                         /\ ~hf => tx[k] = WordsBefore(types, k + 1)
  <2>1. Len(types) \in Nat /\ Len(types) = n
    BY <1>1, <1>2
  <2> HIDE DEF types, n
  <2> QED BY <2>1, TakesExist
<1> HIDE DEF n, types, C, w
<1>4. \A k \in 1 .. n : InF(c, k) <=> InFReg(types[k])
  <2>1. \A k \in 1 .. n : k <= Fixed(c)
    BY <1>1
  <2> QED BY <1>2, <2>1, Zenon DEF InF
<1>5. Counted(c, tx, tf)
  <2>1. /\ tx \in [0 .. n -> Nat] /\ tf \in [0 .. n -> Nat] /\ tx[0] = 0 /\ tf[0] = 0
        /\ \A k \in 1 .. n :
              IF InFReg(types[k]) THEN tf[k] = tf[k - 1] + 1 /\ tx[k] = tx[k - 1]
              ELSE tf[k] = tf[k - 1] /\ tx[k] = tx[k - 1] + Size(types[k])
    BY <1>2, <1>3 DEF Taken
  <2>2. \A k \in 1 .. n : k <= Fixed(c)
    BY <1>1
  <2>3. ASSUME NEW k \in 1 .. n
        PROVE  IF InF(c, k) THEN tf[k] = tf[k - 1] + 1 /\ tx[k] = tx[k - 1]
               ELSE /\ tf[k] = tf[k - 1] /\ tx[k] = tx[k - 1] + Size(c.args[k].type)
                    /\ ~ (k <= Fixed(c)) /\ c.args[k].type = "double" => tx[k - 1] % 2 = 0
    <3>1. c.args[k].type = types[k] /\ (InF(c, k) <=> InFReg(types[k])) /\ k <= Fixed(c)
      BY <1>2, <1>4, <2>2
    <3> QED BY <2>1, <3>1, Zenon
  <2> QED BY <2>1, <2>3, Zenon DEF Counted, n
<1>6. AreIn(c, n, regs, tx, tf)
  <2>1. GoodArgs(c)
    BY DEF GoodCall
  <2> QED BY <1>5, <2>1, PlacedAt DEF n
<1>7. tx[n] <= w /\ \A k \in 0 .. n : tx[k] \in Nat /\ tf[k] \in Nat
  <2>1. tx \in [0 .. n -> Nat] /\ tf \in [0 .. n -> Nat]
    BY <1>2, <1>3 DEF Taken
  <2>2. n \in 0 .. n
    BY <1>1
  <2>3. tx[n] <= WordsBefore(types, n + 1)
    BY <1>3, <2>2
  <2>4. WordsBefore(types, n + 1) = w
    <3>1. \A k \in 1 .. n : types[k] = SigOf(c).params[k]
      BY <1>2
    <3>4. WordsBefore(types, n + 1) = WordsBefore(SigOf(c).params, n + 1)
      <4> DEFINE p == SigOf(c).params
      <4>1. \A k \in 1 .. n : types[k] = p[k]
        BY <3>1
      <4> HIDE DEF p
      <4>2. WordsBefore(types, n + 1) = WordsBefore(p, n + 1)
        BY <1>1, <4>1, WordsSame
      <4> QED BY <4>2 DEF p
    <3>5. n = Fixed(c)
      BY <1>1
    <3> QED BY <3>4, <3>5, Zenon DEF w
  <2> QED BY <2>1, <2>3, <2>4
<1>8. /\ Len(C) = n /\ C = [k \in 1 .. n |-> C[k]]
      /\ \A k \in 1 .. n :
            C[k] = IF InFReg(types[k]) THEN FReg(tf[k - 1])
                   ELSE [j \in 1 .. Size(types[k]) |->
                            IF tx[k - 1] + j - 1 < words THEN Reg(tx[k - 1] + j - 1) ELSE Zero]
  <2>1. TotalArgs(fn) \in Nat /\ Taken(ParamTypes(fn), tx, tf)
    BY <1>1, <1>3 DEF types
  <2> QED BY <1>1, <2>1, CallerPasses DEF types, C
<1>9. ASSUME NEW k \in 1 .. n PROVE C[k] = c.args[k].value
  <2> DEFINE arg == c.args[k]
             x0 == tx[k - 1]
             f0 == tf[k - 1]
  <2>1. k - 1 \in 0 .. n
    BY <1>1
  <2>2. x0 \in Nat /\ f0 \in Nat
    BY <1>7, <2>1
  <2>3. arg.type = types[k] /\ (InF(c, k) <=> InFReg(types[k]))
    BY <1>2, <1>4
  <2>4. /\ Len(regs.x) = tx[n] /\ Len(regs.f) = tf[n]
        /\ IF InF(c, k) THEN f0 + 1 \in 1 .. tf[n] /\ regs.f[f0 + 1] = arg.value
           ELSE \A m \in 1 .. Size(arg.type) :
                   x0 + m \in 1 .. tx[n] /\ regs.x[x0 + m] = arg.value[m]
    BY <1>6, Zenon DEF AreIn
  <2>5. C[k] = IF InFReg(types[k]) THEN FReg(f0)
               ELSE [j \in 1 .. Size(types[k]) |->
                        IF x0 + j - 1 < words THEN Reg(x0 + j - 1) ELSE Zero]
    BY <1>8
  <2>6. arg = [type |-> arg.type, value |-> [j \in 1 .. Size(arg.type) |-> arg.value[j]]]
    BY Zenon DEF GoodCall, GoodArgs, n
  <2>n. n \in 0 .. n
    BY <1>1
  <2>7. tx[n] \in Nat /\ tf[n] \in Nat /\ tx[n] <= 8 /\ tx[n] <= words
    BY <1>1, <1>7, <2>n
  <2> HIDE DEF arg, x0, f0
  <2>8. CASE InFReg(types[k])
    <3>1. f0 + 1 \in 1 .. tf[n] /\ regs.f[f0 + 1] = arg.value
      BY <2>3, <2>4, <2>8
    <3>2. f0 < Len(regs.f)
      BY <2>2, <2>4, <2>7, <3>1
    <3>3. FReg(f0) = arg.value
      BY <3>1, <3>2, Zenon DEF FReg
    <3> QED BY <2>5, <2>8, <3>3 DEF arg
  <2>9. CASE ~InFReg(types[k])
    <3>1. ASSUME NEW j \in 1 .. Size(types[k])
          PROVE  (IF x0 + j - 1 < words THEN Reg(x0 + j - 1) ELSE Zero) = arg.value[j]
      <4>1. x0 + j \in 1 .. tx[n] /\ regs.x[x0 + j] = arg.value[j]
        BY <2>3, <2>4, <2>9
      <4>2. j \in Nat
        BY DEF Size
      <4> DEFINE e == x0 + j - 1
      <4>3. e < words /\ e < 8 /\ e < Len(regs.x) /\ e + 1 = x0 + j
        <5> DEFINE t == tx[n]
        <5>1. Len(regs.x) = t /\ t \in Nat /\ t <= 8 /\ t <= words /\ words \in Nat
              /\ x0 + j \in 1 .. t
          BY <1>1, <2>4, <2>7, <4>1
        <5> HIDE DEF t
        <5> QED BY <2>2, <4>2, <5>1
      <4> HIDE DEF e
      <4>4. Reg(e) = arg.value[j]
        BY <4>1, <4>3 DEF Reg, MaxArgs
      <4> QED BY <4>3, <4>4 DEF e
    <3>2. C[k] = [j \in 1 .. Size(types[k]) |-> arg.value[j]]
      BY <2>5, <2>9, <3>1, Zenon
    <3> DEFINE u == [j \in 1 .. Size(arg.type) |-> arg.value[j]]
               t == arg.type
    <3>3. arg = [type |-> t, value |-> u]
      BY <2>6, Zenon
    <3>5. C[k] = u
      BY <2>3, <3>2 DEF arg
    <3> HIDE DEF u, t
    <3>4. arg.value = u
      BY <3>3
    <3> QED BY <3>4, <3>5 DEF arg
  <2> QED BY <2>8, <2>9
<1>10. C = [k \in 1 .. n |-> c.args[k].value]
  BY <1>8, <1>9, Zenon
<1> QED BY <1>8, <1>10 DEF n, C, ValuesOf

\* A variadic function is passed its named arguments, and the words of the others.
LEMMA VariadicPassed ==
    ASSUME NEW c, GoodCall(c), NEW fn, fn = ExternalName(c.fn), NEW words,
           WordsEnough(fn, words), regs = Placed(c), SigOf(c).vararg, NEW C, C = CallerArgs(fn, words)
    PROVE  /\ NamedPassed(c, SigOf(c).fmt, C)
           /\ WordsPassed(c, SigOf(c).fmt, FlattenSeq(SubSeq(C, SigOf(c).fmt + 1, Len(C))))
<1> DEFINE n == Len(c.args)
           at == SigOf(c).fmt
           types == ArgTypes(c)
           P == ParamTypes(fn)
           N1 == TotalArgs(fn)
           L == WordsBefore(types, n + 1)
           wx == [k \in 0 .. n |-> WordsBefore(types, k + 1)]
           wf == [k \in 0 .. n |-> 0]
           tx == [k \in 0 .. N1 |-> k]
           tf == [k \in 0 .. N1 |-> 0]
<1>1. /\ N1 \in Nat /\ N1 <= 8 /\ words \in Nat /\ N1 <= words /\ Fixed(c) <= N1
      /\ Fixed(c) \in Nat /\ \A k \in 1 .. Fixed(c) : SigOf(c).params[k] = "int"
  BY ArgsTotal
<1>2. at = Fixed(c) /\ at > 0
  <2>1. GoodSig(SigOf(c))
    BY Zenon DEF GoodCall, GoodLibrary, SigOf
  <2> QED BY <2>1 DEF GoodSig, Fixed
<1>3. /\ n \in Nat /\ Fixed(c) <= n /\ \A k \in 1 .. Fixed(c) : types[k] = SigOf(c).params[k]
      /\ L <= N1
      /\ \A k \in Fixed(c) + 1 .. n : types[k] = "double" => WordsBefore(types, k) % 2 = 0
  BY Zenon DEF GoodCall, GoodArgs
<1>4. \A k \in 1 .. n : types[k] = c.args[k].type
  BY DEF ArgTypes
<1>5. \A k \in 1 .. n :
         c.args[k] = [type |-> c.args[k].type,
                      value |-> [j \in 1 .. Size(c.args[k].type) |-> c.args[k].value[j]]]
  BY Zenon DEF GoodCall, GoodArgs
<1>6. /\ \A k \in 1 .. N1 : P[k] = "int"
      /\ Len(P) = N1
  <2>1. P = [k \in 1 .. N1 |-> IF k <= Fixed(c) THEN SigOf(c).params[k] ELSE "int"]
    BY Zenon DEF ParamTypes, SigOf, Fixed
  <2> HIDE DEF P, N1
  <2> QED BY <1>1, <2>1
<1>7. ~InFReg("int")
  BY DEF InFReg
<1> HIDE DEF n, at, types, P, N1
<1>8. Taken(P, tx, tf)
  <2>1. \A k \in 1 .. N1 : ~InFReg(P[k]) /\ Size(P[k]) = 1 /\ k \in 0 .. N1 /\ k - 1 \in 0 .. N1
    BY <1>6, <1>7 DEF Size
  <2>2. /\ tx \in [0 .. N1 -> Nat] /\ tf \in [0 .. N1 -> Nat] /\ tx[0] = 0 /\ tf[0] = 0
        /\ \A k \in 1 .. N1 : tf[k] = tf[k - 1] /\ tx[k] = tx[k - 1] + 1
    BY <1>1, <2>1
  <2> HIDE DEF tx, tf
  <2> QED BY <1>6, <2>1, <2>2 DEF Taken
<1>9. Counted(c, wx, wf)
  <2>1. \A k \in 0 .. n : WordsBefore(types, k + 1) \in Nat
    <3>1. ASSUME NEW k \in 0 .. n PROVE WordsBefore(types, k + 1) \in Nat
      <4>1. k + 1 \in Nat /\ k + 1 > 0
        OBVIOUS
      <4> QED BY <4>1, WordsStep
    <3> QED BY <3>1
  <2>2. WordsBefore(types, 1) = 0
    <3>1. 1 \in Nat /\ 1 > 0
      OBVIOUS
    <3> QED BY <3>1, WordsStep
  <2>3. /\ wx \in [0 .. n -> Nat] /\ wf \in [0 .. n -> Nat] /\ wx[0] = 0 /\ wf[0] = 0
    BY <1>3, <2>1, <2>2
  <2>4. ASSUME NEW k \in 1 .. n
        PROVE  /\ ~InF(c, k) /\ wf[k] = wf[k - 1] /\ wx[k] = wx[k - 1] + Size(c.args[k].type)
               /\ ~ (k <= Fixed(c)) /\ c.args[k].type = "double" => wx[k - 1] % 2 = 0
    <3>1. k \in 0 .. n /\ k - 1 \in 0 .. n /\ k - 1 + 1 = k /\ k \in Nat /\ k > 0
      BY <1>3
    <3>2. wx[k] = WordsBefore(types, k + 1) /\ wx[k - 1] = WordsBefore(types, k)
          /\ wf[k] = 0 /\ wf[k - 1] = 0
      BY <3>1
    <3> HIDE DEF wx, wf
    <3>3. WordsBefore(types, k + 1) = WordsBefore(types, k) + Size(types[k])
      BY <3>1, WordsStep
    <3>4. types[k] = c.args[k].type
      BY <1>4
    <3>5. ~InF(c, k)
      <4>1. k <= Fixed(c) => k \in 1 .. Fixed(c)
        BY <1>1
      <4>2. k \in 1 .. Fixed(c) => c.args[k].type = "int"
        BY <1>1, <1>3, <3>4
      <4> QED BY <1>7, <4>1, <4>2, Zenon DEF InF
    <3>6. ~ (k <= Fixed(c)) /\ types[k] = "double" => wx[k - 1] % 2 = 0
      <4>1. ~ (k <= Fixed(c)) => k \in Fixed(c) + 1 .. n
        BY <1>1
      <4> QED BY <1>3, <3>2, <4>1, Zenon
    <3> QED BY <3>2, <3>3, <3>4, <3>5, <3>6, Zenon
  <2> HIDE DEF wx, wf
  <2> QED BY <2>3, <2>4, Zenon DEF Counted, n
<1>10. AreIn(c, n, regs, wx, wf)
  <2>1. GoodArgs(c)
    BY DEF GoodCall
  <2> HIDE DEF wx, wf
  <2> QED BY <1>9, <2>1, PlacedAt DEF n
\* The words are where the host looks for them.
<1>11. /\ Len(regs.x) = L /\ L \in Nat
       /\ \A k \in 1 .. n : \A m \in 1 .. Size(types[k]) :
             /\ WordsBefore(types, k) + m \in 1 .. L
             /\ regs.x[WordsBefore(types, k) + m] = c.args[k].value[m]
  <2>1. n \in 0 .. n /\ wx[n] = L
    BY <1>3
  <2>2. Len(regs.x) = L
    <3> HIDE DEF wx, wf, L
    <3> QED BY <1>10, <2>1 DEF AreIn
  <2>3. L \in Nat
    <3>1. n + 1 \in Nat /\ n + 1 > 0
      BY <1>3
    <3> QED BY <3>1, WordsStep
  <2>4. ASSUME NEW k \in 1 .. n, NEW m \in 1 .. Size(types[k])
        PROVE  /\ WordsBefore(types, k) + m \in 1 .. L
               /\ regs.x[WordsBefore(types, k) + m] = c.args[k].value[m]
    <3>1. k - 1 \in 0 .. n /\ k - 1 + 1 = k
      BY <1>3
    <3>2. wx[k - 1] = WordsBefore(types, k)
      BY <3>1
    <3> HIDE DEF wx, wf, L
    <3>3. ~InF(c, k)
      <4>1. k \in 1 .. Fixed(c) => c.args[k].type = "int"
        BY <1>1, <1>3, <1>4
      <4>2. k <= Fixed(c) => k \in 1 .. Fixed(c)
        BY <1>1
      <4> QED BY <1>7, <4>1, <4>2, Zenon DEF InF
    <3>4. m \in 1 .. Size(c.args[k].type)
      BY <1>4
    <3>5. wx[k - 1] + m \in 1 .. wx[n] /\ regs.x[wx[k - 1] + m] = c.args[k].value[m]
      BY <1>10, <3>3, <3>4, Zenon DEF AreIn
    <3> QED BY <2>1, <3>2, <3>5, Zenon
  <2> QED BY <2>2, <2>3, <2>4
<1> HIDE DEF wx, wf, L
<1> DEFINE g == [k \in 1 .. N1 |-> IF k <= L THEN regs.x[k] ELSE Junk]
<1>12. /\ Len(C) = N1 /\ C = [k \in 1 .. N1 |-> C[k]]
       /\ \A k \in 1 .. N1 : C[k] = <<g[k]>>
  <2>1. /\ Len(C) = N1 /\ C = [k \in 1 .. N1 |-> C[k]]
        /\ \A k \in 1 .. N1 :
              C[k] = IF InFReg(P[k]) THEN FReg(tf[k - 1])
                     ELSE [j \in 1 .. Size(P[k]) |->
                              IF tx[k - 1] + j - 1 < words THEN Reg(tx[k - 1] + j - 1) ELSE Zero]
    <3> HIDE DEF tx, tf, g
    <3> QED BY <1>1, <1>8, CallerPasses DEF P, N1
  <2>2. ASSUME NEW k \in 1 .. N1 PROVE C[k] = <<g[k]>>
    <3>1. /\ tx[k - 1] = k - 1 /\ ~InFReg(P[k]) /\ Size(P[k]) = 1
      <4>1. k - 1 \in 0 .. N1
        BY <1>1
      <4> QED BY <1>6, <1>7, <4>1 DEF Size
    <3>2. g[k] = IF k <= L THEN regs.x[k] ELSE Junk
      OBVIOUS
    <3> HIDE DEF tx, tf, g
    <3>3. C[k] = [j \in 1 .. 1 |->
                     IF k - 1 + j - 1 < words THEN Reg(k - 1 + j - 1) ELSE Zero]
      <4>1. C[k] = [j \in 1 .. Size(P[k]) |->
                       IF tx[k - 1] + j - 1 < words THEN Reg(tx[k - 1] + j - 1) ELSE Zero]
        BY <2>1, <3>1, Zenon
      <4> DEFINE z == Size(P[k])
                 x0 == tx[k - 1]
                 e == k - 1
      <4>2. C[k] = [j \in 1 .. z |-> IF x0 + j - 1 < words THEN Reg(x0 + j - 1) ELSE Zero]
        BY <4>1
      <4>3. z = 1 /\ x0 = e
        BY <3>1
      <4> HIDE DEF z, x0, e
      <4>4. C[k] = [j \in 1 .. 1 |-> IF e + j - 1 < words THEN Reg(e + j - 1) ELSE Zero]
        BY <4>2, <4>3
      <4> QED BY <4>4 DEF e
    <3>4. ASSUME NEW j \in 1 .. 1
          PROVE  (IF k - 1 + j - 1 < words THEN Reg(k - 1 + j - 1) ELSE Zero) = g[k]
      <4>1. k - 1 + j - 1 = k - 1
        OBVIOUS
      <4> DEFINE e == k - 1
      <4>2. e < words /\ e < 8 /\ e + 1 = k /\ (e < Len(regs.x) <=> k <= L)
        BY <1>1, <1>11
      <4> HIDE DEF e
      <4>3. Reg(e) = g[k]
        BY <3>2, <4>2 DEF Reg, MaxArgs
      <4>4. (IF e < words THEN Reg(e) ELSE Zero) = g[k]
        BY <4>2, <4>3, Zenon
      <4> QED BY <4>1, <4>4, Zenon DEF e
    <3>5. C[k] = [j \in 1 .. 1 |-> g[k]]
      BY <3>3, <3>4, Zenon
    <3> DEFINE u == g[k]
    <3> HIDE DEF u
    <3>6. [j \in 1 .. 1 |-> u] = <<u>>
      OBVIOUS
    <3> QED BY <3>5, <3>6, Zenon DEF u
  <2> QED BY <2>1, <2>2
<1>13. \A k \in 1 .. N1 : k <= L => g[k] = regs.x[k]
  OBVIOUS
<1> HIDE DEF g, tx, tf
<1>14. \A k \in 1 .. at : types[k] # "double" /\ types[k] = "int"
  BY <1>1, <1>2, <1>3
<1>15. NamedPassed(c, at, C)
  <2>1. ASSUME NEW k \in 1 .. at - 1 PROVE C[k] = c.args[k].value
    <3>1. k \in 1 .. n /\ k \in 1 .. at /\ k \in 1 .. N1 /\ k - 1 \in 0 .. at /\ k - 1 + 1 = k
      BY <1>1, <1>2, <1>3
    <3>2. WordsBefore(types, k) = k - 1
      <4> DEFINE z == 0
      <4>1. z \in Nat /\ \A q \in 1 .. z : types[q] = types[at + q]
        OBVIOUS
      <4> HIDE DEF z
      <4>2. at \in Nat
        BY <1>1, <1>2
      <4>3. \A q \in 0 .. at : WordsBefore(types, q + 1) = q
        BY <1>14, <4>1, <4>2, WordsShift
      <4> QED BY <3>1, <4>3
    <3>3. Size(types[k]) = 1 /\ types[k] = c.args[k].type
      BY <1>4, <1>14, <3>1 DEF Size
    <3>4. k - 1 + 1 \in 1 .. L /\ regs.x[k - 1 + 1] = c.args[k].value[1]
      <4>1. 1 \in 1 .. Size(types[k])
        BY <3>3
      <4> QED BY <1>11, <3>1, <3>2, <4>1, Zenon
    <3>5. C[k] = <<regs.x[k]>> /\ regs.x[k] = c.args[k].value[1]
      <4>1. k <= L
        BY <1>11, <3>1, <3>4
      <4> QED BY <1>12, <1>13, <3>1, <3>4, <4>1
    <3> DEFINE arg == c.args[k]
               v == arg.value
               t == arg.type
    <3>6. arg = [type |-> t, value |-> [j \in 1 .. 1 |-> v[j]]]
      BY <1>5, <3>1, <3>3
    <3> DEFINE u == [j \in 1 .. 1 |-> v[j]]
    <3>7. u = <<v[1]>>
      OBVIOUS
    <3>8. arg = [type |-> t, value |-> u]
      BY <3>6
    <3>9. arg.value = u
      <4> HIDE DEF arg, t, u
      <4> QED BY <3>8
    <3> QED BY <3>5, <3>7, <3>9
  <2>2. at # 0
    BY <1>1, <1>2
  <2> QED BY <2>1, <2>2, Zenon DEF NamedPassed
<1> DEFINE l == N1 - at
           h == [k \in 1 .. l |-> g[at + k]]
           rest == SubSeq(types, at + 1, n)
<1>16. at \in Nat /\ at <= n /\ at <= N1 /\ l \in Nat /\ l = N1 - at /\ N1 = Len(C)
  BY <1>1, <1>2, <1>3, <1>12
<1>17. FlattenSeq(SubSeq(C, at + 1, Len(C))) = h /\ Len(h) = l
       /\ \A k \in 1 .. l : h[k] = g[at + k]
  <2> DEFINE S == {g[k] : k \in 1 .. N1}
             r == SubSeq(C, at + 1, Len(C))
  <2>1. \A k \in 1 .. l : at + k \in 1 .. N1
    <3> HIDE DEF l
    <3> QED BY <1>16
  <2>2. h \in Seq(S) /\ Len(h) = l /\ \A k \in 1 .. l : h[k] = g[at + k]
    <3>1. \A k \in 1 .. l : g[at + k] \in S
      BY <2>1
    <3> HIDE DEF S, l
    <3> QED BY <1>16, <3>1
  <2> HIDE DEF h, S, l
  <2>3. FlattenSeq([k \in 1 .. Len(h) |-> <<h[k]>>]) = h
    BY <2>2, FlattenOnes
  <2>4. r = [k \in 1 .. l |-> <<h[k]>>]
    <3> DEFINE Q == {C[k] : k \in 1 .. N1}
    <3>1. C \in Seq(Q)
      <4>1. \A k \in 1 .. N1 : C[k] \in Q
        OBVIOUS
      <4> HIDE DEF Q
      <4>2. [k \in 1 .. N1 |-> C[k]] \in Seq(Q)
        BY <1>1, <4>1
      <4> QED BY <1>12, <4>2, Zenon
    <3> HIDE DEF Q
    <3>2. r \in Seq(Q) /\ IsPart(r, C, at, Len(C))
      <4>1. Len(C) \in Nat /\ at <= Len(C) /\ Len(C) <= Len(C)
        BY <1>1, <1>16
      <4> QED BY <1>16, <3>1, <4>1, PartIs
    <3> HIDE DEF r
    <3>3. Len(r) = l /\ \A k \in 1 .. l : r[k] = C[at + k]
      BY <1>16, <3>2, Zenon DEF IsPart
    <3>4. \A k \in 1 .. l : r[k] = <<h[k]>>
      BY <1>12, <2>1, <2>2, <3>3
    <3>5. r = [k \in 1 .. l |-> r[k]]
      BY <3>2, <3>3
    <3> QED BY <3>4, <3>5, Zenon
  <2> QED BY <2>2, <2>3, <2>4, Zenon DEF r
<1>18. \A k \in 1 .. n - at : rest[k] = types[at + k] /\ at + k \in 1 .. n
  <2> DEFINE Q == {types[k] : k \in 1 .. n}
  <2>1. types \in Seq(Q) /\ Len(types) = n
    <3>1. types = [k \in 1 .. n |-> types[k]]
      BY DEF types, n, ArgTypes
    <3>2. \A k \in 1 .. n : types[k] \in Q
      OBVIOUS
    <3> HIDE DEF Q
    <3>3. [k \in 1 .. n |-> types[k]] \in Seq(Q) /\ Len([k \in 1 .. n |-> types[k]]) = n
      BY <1>3, <3>2
    <3> QED BY <3>1, <3>3, Zenon
  <2> HIDE DEF Q
  <2>2. IsPart(rest, types, at, n)
    <3>1. n <= Len(types)
      BY <1>3, <2>1
    <3> QED BY <1>3, <1>16, <2>1, <3>1, PartIs
  <2> HIDE DEF rest
  <2>3. \A k \in 1 .. n - at : at + k \in 1 .. n
    BY <1>3, <1>16
  <2> QED BY <2>2, <2>3 DEF IsPart
<1> HIDE DEF h, rest, l
<1>19. ShiftedBy(types, rest, at, n - at)
  <2> DEFINE d == n - at
  <2>1. d \in Nat /\ at \in Nat
    BY <1>3, <1>16
  <2>2. Behind(types, rest, at, d)
    BY <1>14, <1>18 DEF Behind
  <2> HIDE DEF d
  <2>3. ShiftedBy(types, rest, at, d)
    BY <2>1, <2>2, WordsBehind
  <2> QED BY <2>3 DEF d
<1>20. ASSUME NEW k \in 1 .. n - at, NEW m \in 1 .. Size(c.args[at + k].type)
       PROVE  /\ WordsBefore(rest, k) + m \in 1 .. l
              /\ h[WordsBefore(rest, k) + m] = c.args[at + k].value[m]
  <2> DEFINE j == at + k
             p == WordsBefore(rest, k)
  <2>1. j \in 1 .. n /\ types[j] = c.args[j].type
    BY <1>4, <1>18
  <2>2. WordsBefore(types, j) = at + p
    <3>1. k - 1 \in 0 .. n - at /\ k - 1 + 1 = k /\ at + (k - 1) + 1 = j
      BY <1>3, <1>16
    <3> QED BY <1>19, <3>1 DEF ShiftedBy
  <2>3. p \in Nat
    <3>1. k \in Nat /\ k > 0
      OBVIOUS
    <3> QED BY <3>1, WordsStep
  <2>4. m \in Nat /\ m > 0
    BY DEF Size
  <2> HIDE DEF j, p
  <2>5. at + p + m \in 1 .. L /\ regs.x[at + p + m] = c.args[j].value[m]
    <3>1. m \in 1 .. Size(types[j])
      BY <2>1 DEF j
    <3> QED BY <1>11, <2>1, <2>2, <3>1
  <2> DEFINE q == p + m
  <2>6. q \in Nat /\ q > 0 /\ at + q = at + p + m
    BY <1>16, <2>3, <2>4
  <2> HIDE DEF q
  <2>7. q \in 1 .. l /\ at + q \in 1 .. N1 /\ at + q <= L
    BY <1>1, <1>3, <1>11, <1>16, <2>5, <2>6
  <2>8. h[q] = regs.x[at + q]
    BY <1>13, <1>17, <2>7, Zenon
  <2> QED BY <2>5, <2>6, <2>7, <2>8 DEF q, p, j
<1>21. WordsPassed(c, at, h)
  <2>1. Len(h) \in Nat
    BY <1>16, <1>17
  <2>2. \A k \in 1 .. n - at : \A m \in 1 .. Size(c.args[at + k].type) :
           /\ WordsBefore(rest, k) + m \in 1 .. Len(h)
           /\ h[WordsBefore(rest, k) + m] = c.args[at + k].value[m]
    BY <1>17, <1>20, Zenon
  <2> QED BY <2>1, <2>2, Zenon DEF WordsPassed, rest, types, n
<1> QED BY <1>15, <1>17, <1>21, Zenon DEF at

\* The words of named arguments.
LEMMA FixedWords ==
    ASSUME NEW c, GoodArgs(c), NEW at \in Nat, at <= Len(c.args),
           NEW C, C = [k \in 1 .. Len(c.args) |-> c.args[k].value]
    PROVE  WordsPassed(c, at, FlattenSeq(SubSeq(C, at + 1, Len(C))))
<1> DEFINE n == Len(c.args)
           types == ArgTypes(c)
           rest == SubSeq(types, at + 1, n)
           d == n - at
           r == SubSeq(C, at + 1, Len(C))
           bx == [k \in 0 .. d |-> WordsBefore(rest, k + 1)]
<1>1. n \in Nat /\ d \in Nat
  BY DEF GoodArgs
<1>2. PICK W : WordsIn(c, W)
  BY ValueWords
<1>3. C \in Seq(Seq(W)) /\ Len(C) = n /\ \A k \in 1 .. n : C[k] = c.args[k].value
  <2> DEFINE V == Seq(W)
  <2>1. \A k \in 1 .. n : c.args[k].value \in V
    BY <1>2 DEF WordsIn
  <2> HIDE DEF V, n
  <2>2. C = [k \in 1 .. n |-> c.args[k].value]
    BY DEF n
  <2>3. C \in Seq(V) /\ Len(C) = n /\ \A k \in 1 .. n : C[k] = c.args[k].value
    BY <1>1, <2>1, <2>2
  <2> QED BY <2>3 DEF V
<1>4. \A k \in 1 .. n : types[k] = c.args[k].type /\ Len(c.args[k].value) = Size(types[k])
  BY <1>2 DEF ArgTypes, WordsIn
<1>5. rest \in Seq({types[k] : k \in 1 .. n}) /\ IsPart(rest, types, at, n)
  <2> DEFINE Q == {types[k] : k \in 1 .. n}
  <2>1. types \in Seq(Q) /\ Len(types) = n
    <3>1. types = [k \in 1 .. n |-> types[k]]
      BY DEF ArgTypes
    <3>2. \A k \in 1 .. n : types[k] \in Q
      OBVIOUS
    <3> HIDE DEF Q, types, n
    <3>3. [k \in 1 .. n |-> types[k]] \in Seq(Q) /\ Len([k \in 1 .. n |-> types[k]]) = n
      BY <1>1, <3>2
    <3> QED BY <3>1, <3>3, Zenon
  <2> HIDE DEF Q, types
  <2>2. n <= Len(types) /\ at <= n
    BY <1>1, <2>1
  <2> HIDE DEF n
  <2> QED BY <1>1, <2>1, <2>2, PartIs DEF Q
<1>6. r \in Seq(Seq(W)) /\ IsPart(r, C, at, n)
  <2> DEFINE V == Seq(W)
  <2>1. C \in Seq(V) /\ n = Len(C) /\ n <= Len(C) /\ at <= n
    BY <1>1, <1>3
  <2> HIDE DEF V, n
  <2>2. SubSeq(C, at + 1, n) \in Seq(V) /\ IsPart(SubSeq(C, at + 1, n), C, at, n)
    BY <1>1, <2>1, PartIs
  <2> QED BY <2>1, <2>2, Zenon DEF V
<1> HIDE DEF n, types, rest, r, d
<1>7. \A k \in 1 .. d : at + k \in 1 .. n
  BY <1>1 DEF d
<1>8. /\ Len(r) = d /\ \A k \in 1 .. d : r[k] = c.args[at + k].value
      /\ \A k \in 1 .. d : rest[k] = types[at + k] /\ Len(r[k]) = Size(rest[k])
                           /\ rest[k] = c.args[at + k].type
  <2>1. Len(r) = d /\ \A k \in 1 .. d : r[k] = C[at + k]
    BY <1>6, Zenon DEF IsPart, d
  <2>2. \A k \in 1 .. d : rest[k] = types[at + k]
    BY <1>5, Zenon DEF IsPart, d
  <2>3. ASSUME NEW k \in 1 .. d
        PROVE  /\ r[k] = c.args[at + k].value /\ rest[k] = types[at + k]
               /\ Len(r[k]) = Size(rest[k]) /\ rest[k] = c.args[at + k].type
    <3>1. at + k \in 1 .. n
      BY <1>7
    <3>2. C[at + k] = c.args[at + k].value
      BY <1>3, <3>1, Zenon
    <3>3. types[at + k] = c.args[at + k].type /\ Len(c.args[at + k].value) = Size(types[at + k])
      BY <1>4, <3>1, Zenon
    <3> QED BY <2>1, <2>2, <3>2, <3>3, Zenon
  <2> QED BY <2>1, <2>3, Zenon
<1>9. /\ bx \in [0 .. d -> Nat] /\ bx[0] = 0
      /\ \A k \in 1 .. d : bx[k] = bx[k - 1] + Len(r[k])
  <2>1. ASSUME NEW k \in Nat PROVE WordsBefore(rest, k + 1) \in Nat
    <3>1. k + 1 \in Nat /\ k + 1 > 0
      OBVIOUS
    <3> QED BY <3>1, WordsStep
  <2>2. WordsBefore(rest, 1) = 0
    <3>1. 1 \in Nat /\ 1 > 0
      OBVIOUS
    <3> QED BY <3>1, WordsStep
  <2>3. bx \in [0 .. d -> Nat] /\ bx[0] = 0
    BY <1>1, <2>1, <2>2
  <2>4. ASSUME NEW k \in 1 .. d PROVE bx[k] = bx[k - 1] + Len(r[k])
    <3>1. k \in 0 .. d /\ k - 1 \in 0 .. d /\ k - 1 + 1 = k /\ k \in Nat /\ k > 0
      BY <1>1
    <3>2. bx[k] = WordsBefore(rest, k + 1) /\ bx[k - 1] = WordsBefore(rest, k)
      BY <3>1
    <3> HIDE DEF bx
    <3>3. WordsBefore(rest, k + 1) = WordsBefore(rest, k) + Size(rest[k])
      BY <3>1, WordsStep
    <3> QED BY <1>8, <3>2, <3>3
  <2> QED BY <2>3, <2>4
<1>10. \A k \in 1 .. d : bx[k - 1] = WordsBefore(rest, k)
  <2>1. \A k \in 1 .. d : k - 1 \in 0 .. d /\ k - 1 + 1 = k
    BY <1>1
  <2> QED BY <2>1
<1> HIDE DEF bx
<1> DEFINE w == FlattenSeq(r)
<1>11. /\ Len(w) = bx[d]
       /\ \A k \in 1 .. d : \A m \in 1 .. Len(r[k]) :
             /\ bx[k - 1] + m \in 1 .. bx[d]
             /\ w[bx[k - 1] + m] = r[k][m]
  <2>1. Begins(r, bx)
    BY <1>8, <1>9, Zenon DEF Begins
  <2>2. Strung(r, bx)
    BY <1>6, <2>1, FlattenAt
  <2> QED BY <1>8, <2>2, Zenon DEF Strung
<1> HIDE DEF w
<1>12. Len(w) \in Nat
  <2>1. d \in 0 .. d
    BY <1>1
  <2> QED BY <1>9, <1>11, <2>1
<1>13. ASSUME NEW k \in 1 .. d, NEW m \in 1 .. Size(c.args[at + k].type)
       PROVE  /\ WordsBefore(rest, k) + m \in 1 .. Len(w)
              /\ w[WordsBefore(rest, k) + m] = c.args[at + k].value[m]
  <2>1. m \in 1 .. Len(r[k])
    BY <1>8
  <2>2. bx[k - 1] + m \in 1 .. Len(w) /\ w[bx[k - 1] + m] = r[k][m]
    BY <1>11, <2>1, Zenon
  <2> QED BY <1>8, <1>10, <2>2, Zenon
<1>14. WordsPassed(c, at, w)
  BY <1>12, <1>13, Zenon DEF WordsPassed, rest, types, n, d
<1> QED BY <1>14 DEF w, r

\* The library hears the arguments that are meant, whichever path their words take.
LEMMA CallHeard ==
    ASSUME NEW c, GoodCall(c), NEW fn, fn = ExternalName(c.fn), NEW words,
           WordsEnough(fn, words), regs = Placed(c)
    PROVE  Hears(fn, c.fmt, CallerArgs(fn, words)) = MeantBy(c)
<1> DEFINE C == CallerArgs(fn, words)
           at == SigOf(c).fmt
<1> HIDE DEF C, at
<1>1. CASE SigOf(c).vararg
  <2>1. NamedPassed(c, at, C) /\ WordsPassed(c, at, FlattenSeq(SubSeq(C, at + 1, Len(C))))
    BY <1>1, VariadicPassed DEF C, at
  <2>2. Hears(ExternalName(c.fn), c.fmt, C) = MeantBy(c)
    BY <2>1, HearsMeant DEF at
  <2> QED BY <2>2 DEF C
<1>2. CASE ~SigOf(c).vararg
  <2>0. ValuesOf(c, C)
    BY <1>2, FixedPassed DEF C
  <2>1. C = [k \in 1 .. Len(c.args) |-> c.args[k].value] /\ Len(C) = Len(c.args)
    BY <2>0, Zenon DEF ValuesOf
  <2>2. /\ GoodArgs(c) /\ Len(c.args) = Fixed(c) /\ at \in Nat /\ at <= Len(c.args)
        /\ Fixed(c) \in Nat
    <3>1. GoodSig(SigOf(c)) /\ GoodArgs(c) /\ Len(c.args) = Fixed(c)
      BY <1>2, Zenon DEF GoodCall, GoodLibrary, SigOf
    <3> QED BY <3>1, LenProperties DEF GoodSig, Fixed, at
  <2>3. WordsPassed(c, at, FlattenSeq(SubSeq(C, at + 1, Len(C))))
    BY <2>1, <2>2, FixedWords
  <2>4. NamedPassed(c, at, C)
    <3>1. \A k \in 1 .. (IF at = 0 THEN Fixed(c) ELSE at - 1) : k \in 1 .. Len(c.args)
      BY <2>2
    <3>2. \A k \in 1 .. Len(c.args) : C[k] = c.args[k].value
      BY <2>1
    <3> QED BY <3>1, <3>2, Zenon DEF NamedPassed
  <2>5. Hears(ExternalName(c.fn), c.fmt, C) = MeantBy(c)
    BY <2>3, <2>4, HearsMeant DEF at
  <2> QED BY <2>5 DEF C
<1> QED BY <1>1, <1>2

-----------------------------------------------------------------------------
(* The result.                                                             *)

ResultOf(c) == Result(ExternalName(c.fn), c.fmt)

\* The first values are set, however many there were.
LEMMA FirstSet ==
    ASSUME NEW W, NEW s \in Seq(W), NEW V, NEW r \in Seq(V)
    PROVE  /\ Len(SetFirst(s, r)) \in Nat /\ Len(r) <= Len(SetFirst(s, r))
           /\ \A k \in 1 .. Len(r) : SetFirst(s, r)[k] = r[k]
<1> DEFINE B == V \cup W
           t == SubSeq(s, Len(r) + 1, Len(s))
<1>1. Len(r) \in Nat /\ Len(s) \in Nat /\ \A k \in 1 .. Len(s) : s[k] \in W
  BY LenProperties, ElementOfSeq
<1>2. t \in Seq(W)
  <2>1. \A k \in Len(r) + 1 .. Len(s) : s[k] \in W
    BY <1>1
  <2>2. Len(r) + 1 \in Nat /\ Len(r) + 1 >= 1
    BY <1>1
  <2> QED BY <1>1, <2>1, <2>2, SubSeqProperties
<1> HIDE DEF t
<1>3. r \in Seq(B) /\ t \in Seq(B) /\ Len(t) \in Nat
  BY <1>2
<1> HIDE DEF B
<1>4. /\ Len(r \o t) = Len(r) + Len(t)
      /\ \A k \in 1 .. Len(r) + Len(t) : (r \o t)[k] = IF k <= Len(r) THEN r[k] ELSE t[k - Len(r)]
  BY <1>3, ConcatProperties
<1>5. SetFirst(s, r) = r \o t
  BY DEF SetFirst, t
<1> HIDE DEF t
<1> QED BY <1>1, <1>3, <1>4, <1>5

\* How many words a value has.
Words(type) == IF type = "void" THEN 0 ELSE Size(type)

\* The guest gets the result that the host's function returned.
LEMMA GuestGets ==
    ASSUME NEW type \in Types \cup {"void"}, NEW W, regs \in RegSet(W), hf \in BOOLEAN,
           NEW V, NEW r \in Seq(V), Len(r) = Words(type), hf' = hf,
           regs' = IF InFReg(type) THEN [regs EXCEPT !.f = SetFirst(@, <<r>>)]
                                   ELSE [regs EXCEPT !.x = SetFirst(@, r)]
    PROVE  GuestResult(type)' = r
<1>1. r = [k \in 1 .. Words(type) |-> r[k]]
  OBVIOUS
<1>2. regs = [x |-> regs.x, f |-> regs.f] /\ regs.x \in Seq(W) /\ regs.f \in Seq(Seq(W))
  BY DEF RegSet
<1>3. CASE type = "void"
  <2>1. r = << >>
    BY <1>1, <1>3 DEF Words
  <2>2. ~InFReg(type)' /\ type # "double"
    BY <1>3 DEF InFReg
  <2>3. GuestResult(type)' = << >>
    BY <1>3, <2>2, Zenon DEF GuestResult
  <2> QED BY <2>1, <2>3
<1>4. CASE hf /\ type \in {"float", "double"}
  <2> DEFINE f == SetFirst(regs.f, <<r>>)
  <2>1. <<r>> \in Seq(Seq(V)) /\ Len(<<r>>) = 1 /\ <<r>>[1] = r
    OBVIOUS
  <2>2. Len(f) \in Nat /\ 1 <= Len(f) /\ f[1] = r
    <3> DEFINE X == Seq(V)
               Y == Seq(W)
               q == <<r>>
    <3>1. regs.f \in Seq(Y) /\ q \in Seq(X) /\ Len(q) = 1 /\ q[1] = r
      BY <1>2, <2>1
    <3> HIDE DEF X, Y, q
    <3>2. Len(SetFirst(regs.f, q)) \in Nat /\ Len(q) <= Len(SetFirst(regs.f, q))
          /\ \A k \in 1 .. Len(q) : SetFirst(regs.f, q)[k] = q[k]
      BY <3>1, FirstSet
    <3>3. f = SetFirst(regs.f, q)
      BY DEF q
    <3> HIDE DEF f
    <3> QED BY <3>1, <3>2, <3>3
  <2>3. regs'.f = f
    BY <1>2, <1>4 DEF InFReg
  <2> HIDE DEF f
  <2>4. FReg(0)' = r
    BY <2>2, <2>3 DEF FReg
  <2>5. InFReg(type)' /\ type # "void" /\ hf'
    BY <1>4 DEF InFReg
  <2> QED BY <2>4, <2>5, Zenon DEF GuestResult
<1>5. CASE type # "void" /\ ~ (hf /\ type \in {"float", "double"})
  <2> DEFINE x == SetFirst(regs.x, r)
  <2>1. Len(x) \in Nat /\ Len(r) <= Len(x) /\ \A k \in 1 .. Len(r) : x[k] = r[k]
    BY <1>2, FirstSet
  <2>2. regs'.x = x
    BY <1>2, <1>5 DEF InFReg
  <2> HIDE DEF x
  <2>3. ~InFReg(type)'
    BY <1>5 DEF InFReg
  <2>4. CASE type = "double"
    <3>1. Len(r) = 2 /\ r = <<r[1], r[2]>> /\ x[1] = r[1] /\ x[2] = r[2] /\ 2 <= Len(x)
      BY <1>1, <2>1, <2>4 DEF Words, Size
    <3>2. Reg(0)' = r[1] /\ Reg(1)' = r[2]
      BY <2>1, <2>2, <3>1 DEF Reg, MaxArgs
    <3>3. ~hf' /\ GuestResult(type)' = <<Reg(0)', Reg(1)'>>
      BY <1>5, <2>3, <2>4, Zenon DEF GuestResult
    <3> QED BY <3>1, <3>2, <3>3
  <2>5. CASE type # "double"
    <3>1. Len(r) = 1 /\ r = <<r[1]>> /\ x[1] = r[1] /\ 1 <= Len(x)
      BY <1>1, <1>5, <2>1, <2>5 DEF Words, Size
    <3>2. Reg(0)' = r[1]
      BY <2>1, <2>2, <3>1 DEF Reg, MaxArgs
    <3>3. GuestResult(type)' = <<Reg(0)'>>
      BY <1>5, <2>3, <2>5, Zenon DEF GuestResult
    <3> QED BY <3>1, <3>2, <3>3
  <2> QED BY <2>4, <2>5
<1> QED BY <1>3, <1>4, <1>5

\* The result of a call has the words of its type.
LEMMA ResultWords ==
    ASSUME NEW fn \in DOMAIN Library, NEW fmt
    PROVE  \E V : Result(fn, fmt) \in Seq(V) /\ Len(Result(fn, fmt)) = Words(Library[fn].ret)
<1> DEFINE r == Result(fn, fmt)
           t == Library[fn].ret
<1>1. GoodSig(Library[fn])
  BY Zenon DEF GoodLibrary
<1>2. t \in Types \cup {"void"} /\ (Library[fn].fmt > 0 => t = "int")
  BY <1>1, Zenon DEF GoodSig
<1>3. CASE Library[fn].fmt > 0
  <2>1. r = <<Word(Len(fmt), "printed")>> /\ Words(t) = 1
    BY <1>2, <1>3 DEF Result, Words, Size
  <2>2. r \in Seq({Word(Len(fmt), "printed")}) /\ Len(r) = 1
    <3> HIDE DEF r
    <3> QED BY <2>1
  <2> QED BY <2>1, <2>2
<1>4. CASE ~(Library[fn].fmt > 0)
  <2>1. r = Value(0, t)
    BY <1>4, Zenon DEF Result
  <2> HIDE DEF r, t
  <2>2. CASE t = "double"
    <3>1. r = <<Word(0, "lo"), Word(0, "hi")>> /\ Words(t) = 2
      BY <2>1, <2>2 DEF Value, Words, Size
    <3>2. r \in Seq({Word(0, "lo"), Word(0, "hi")}) /\ Len(r) = 2
      BY <3>1
    <3> QED BY <3>1, <3>2 DEF r, t
  <2>3. CASE t = "void"
    <3>1. r = << >> /\ Words(t) = 0
      BY <2>1, <2>3 DEF Value, Words
    <3>2. r \in Seq({}) /\ Len(r) = 0
      BY <3>1
    <3> QED BY <3>1, <3>2 DEF r, t
  <2>4. CASE t # "double" /\ t # "void"
    <3>1. r = <<Word(0, "word")>> /\ Words(t) = 1
      BY <2>1, <2>4 DEF Value, Words, Size
    <3>2. r \in Seq({Word(0, "word")}) /\ Len(r) = 1
      BY <3>1
    <3> QED BY <3>1, <3>2 DEF r, t
  <2> QED BY <2>2, <2>3, <2>4
<1> QED BY <1>3, <1>4

\* What HostReturns leaves in the registers is the result of the call.
LEMMA HostResult ==
    ASSUME GoodCall(Current), regs = Placed(Current), hf \in BOOLEAN,
           callee = ExternalName(Current.fn), HostReturns
    PROVE  GuestResult(SigOf(Current).ret)' = ResultOf(Current)
<1>1. PICK c : c = Current
  OBVIOUS
<1>2. PICK t : t = SigOf(c).ret
  OBVIOUS
<1>3. Current' = c
  BY <1>1, Zenon DEF HostReturns, Current
<1>4. GoodArgs(c) /\ ExternalName(c.fn) \in DOMAIN Library
  BY <1>1, Zenon DEF GoodCall
<1>5. t \in Types \cup {"void"}
  BY <1>2, <1>4, Zenon DEF GoodLibrary, GoodSig, SigOf
<1>6. PICK W : regs \in RegSet(W)
  <2>1. \E W : Placed(c) \in RegSet(W)
    BY <1>4, PlacedSet
  <2> QED BY <1>1, <2>1
<1>7. PICK r : r = Result(ExternalName(c.fn), c.fmt)
  OBVIOUS
<1>8. PICK V : r \in Seq(V) /\ Len(r) = Words(t)
  BY <1>2, <1>4, <1>7, ResultWords, Zenon DEF SigOf
<1>9. /\ hf' = hf
      /\ regs' = IF InFReg(t) THEN [regs EXCEPT !.f = SetFirst(@, <<r>>)]
                              ELSE [regs EXCEPT !.x = SetFirst(@, r)]
  BY <1>1, <1>2, <1>7, Zenon DEF HostReturns, SigOf
<1>10. GuestResult(t)' = r
  BY <1>5, <1>6, <1>8, <1>9, GuestGets
<1>11. (SigOf(Current).ret)' = t
  BY <1>2, <1>3, Zenon DEF SigOf
<1> QED BY <1>1, <1>7, <1>10, <1>11 DEF ResultOf

-----------------------------------------------------------------------------
(* The inductive invariant.                                                *)

PieceSet == [fmt : Seq(Convs), args : Nat, isDouble : BOOLEAN]

\* Piece k takes the arguments behind the b[k-1]-th up to the b[k]-th, with their
\* conversions, and all pieces take all arguments.
PiecesAt(p, b) ==
    /\ p \in Seq(PieceSet) /\ Len(p) > 0
    /\ b \in [0 .. Len(p) -> Nat] /\ b[0] = 0 /\ b[Len(p)] = N
    /\ \A k \in 1 .. Len(p) : /\ b[k - 1] <= b[k] /\ p[k].args = b[k] - b[k - 1]
                              /\ p[k].fmt = SubSeq(call.fmt, b[k - 1] + 1, b[k])

\* The arguments of piece k can be passed in one call.
Passable(p, b, k) ==
    IF p[k].isDouble THEN b[k] = b[k - 1] + 1 /\ IsDouble(b[k])
    ELSE b[k] <= b[k - 1] + 4 /\ \A j \in b[k - 1] + 1 .. b[k] : ~IsDouble(j)

\* s.next is the first argument of the last piece, which is the rest of the
\* printf, and the pieces before it can be passed; in the end all of them can.
Broken(s, b) ==
    /\ s.ok /\ s.next \in 1 .. N + 1
    /\ PiecesAt(s.pieces, b)
    /\ \A k \in 1 .. Len(s.pieces) - 1 : Passable(s.pieces, b, k)
    /\ IF s.next <= N THEN ~Last(s.pieces).isDouble /\ b[Len(s.pieces) - 1] = s.next - 1
                      ELSE Passable(s.pieces, b, Len(s.pieces))

BreakInv ==
    pc = "break" => /\ i = next
                    /\ \E b : Broken([pieces |-> pieces, next |-> next, ok |-> TRUE], b)

\* The calls that replace a broken printf.
IssuedInv ==
    pc # "break" => /\ issued = [k \in 1 .. Len(issued) |-> issued[k]]
                    /\ Len(issued) \in Nat \ {0}
                    /\ PiecesPassable

\* Each imported function has an address of its own, below the next one.
ImportInv ==
    /\ IsFiniteSet(DOMAIN funMap)
    /\ \A n \in DOMAIN funMap :
          /\ funMap[n] \in Nat /\ FirstExtFuncAddr <= funMap[n] /\ funMap[n] < NextExtFuncAddr
          /\ funMap[n] \in DOMAIN funcByAddr /\ funcByAddr[funMap[n]] = n

\* When the program runs, what it calls has been imported.
RunInv ==
    pc \notin {"break", "import"} =>
        \A k \in 1 .. Len(issued) : ExternalName(issued[k].fn) \in DOMAIN funMap

\* The call that is made is one of those issued.
MadeInv ==
    /\ made \in Nat
    /\ pc # "break" /\ pc # "done" => made < Len(issued)
    /\ pc \in {"break", "import"} => made = 0

ExternalInv ==
    /\ call \in Calls /\ GoodSource(call)
    /\ pc \in {"break", "import", "call", "direct", "icall", "host", "return", "done"}
    /\ pc = "break" => Needed(call)
    /\ BreakInv /\ IssuedInv /\ ImportInv /\ RunInv /\ MadeInv /\ CalleeMeant

-----------------------------------------------------------------------------
(* The pass splits the last piece.                                         *)

\* A part of a part of the format.
LEMMA PartOfPart ==
    ASSUME NEW S, NEW s \in Seq(S), NEW a \in Nat, NEW b \in Nat, a < b, b <= Len(s),
           NEW n \in Nat, n < b - a
    PROVE  /\ SubSeq(s, a + 1, b) \in Seq(S) /\ Len(SubSeq(s, a + 1, b)) = b - a
           /\ SubSeq(SubSeq(s, a + 1, b), n + 1, b - a) = SubSeq(s, a + n + 1, b)
           /\ n > 0 => SubSeq(SubSeq(s, a + 1, b), 1, n) = SubSeq(s, a + 1, a + n)
<1>1. Len(s) \in Nat /\ \A k \in 1 .. Len(s) : s[k] \in S
  BY LenProperties, ElementOfSeq
<1>2. a + 1 \in 1 .. Len(s) /\ b \in 1 .. Len(s) /\ b - (a + 1) + 1 = b - a
  BY <1>1
<1>3. \A k \in a + 1 .. b : s[k] \in S
  BY <1>1
<1>4. SubSeq(s, a + 1, b) \in Seq(S) /\ Len(SubSeq(s, a + 1, b)) = b - a
  <2>1. /\ SubSeq(s, a + 1, b) \in Seq(S)
        /\ Len(SubSeq(s, a + 1, b)) = IF a + 1 <= b THEN b - (a + 1) + 1 ELSE 0
    BY <1>3, SubSeqProperties
  <2> QED BY <2>1
<1>5. SubSeq(SubSeq(s, a + 1, b), n + 1, b - a) = SubSeq(s, a + n + 1, b)
  <2>1. n + 1 \in 1 .. b - (a + 1) + 1 /\ b - a \in 1 .. b - (a + 1) + 1
    OBVIOUS
  <2>2. SubSeq(SubSeq(s, a + 1, b), n + 1, b - a)
          = SubSeq(s, (a + 1) + (n + 1) - 1, (a + 1) + (b - a) - 1)
    BY <1>2, <2>1, SubSeqOfSubSeq
  <2>3. (a + 1) + (n + 1) - 1 = a + n + 1 /\ (a + 1) + (b - a) - 1 = b
    OBVIOUS
  <2> QED BY <2>2, <2>3
<1>6. ASSUME n > 0 PROVE SubSeq(SubSeq(s, a + 1, b), 1, n) = SubSeq(s, a + 1, a + n)
  <2>1. 1 \in 1 .. b - (a + 1) + 1 /\ n \in 1 .. b - (a + 1) + 1
    BY <1>6
  <2>2. SubSeq(SubSeq(s, a + 1, b), 1, n) = SubSeq(s, (a + 1) + 1 - 1, (a + 1) + n - 1)
    BY <1>2, <2>1, SubSeqOfSubSeq
  <2>3. (a + 1) + 1 - 1 = a + 1 /\ (a + 1) + n - 1 = a + n
    OBVIOUS
  <2> QED BY <2>2, <2>3
<1> QED BY <1>4, <1>5, <1>6

\* The printf of the source.
Printf == /\ call.fmt \in Seq(Convs) /\ N \in Nat /\ N = Len(call.fmt)
          /\ \A k \in 1 .. N : IsDouble(k) <=> call.fmt[k] = "%f"

LEMMA ByNameFacts ==
    ASSUME GoodSource(call), ByName(call)
    PROVE  /\ Printf
           /\ call.args \in Seq(Range(call.args)) /\ Len(call.args) = N + 1
           /\ \A k \in 1 .. N : call.args[k + 1].type = TypeOf(call.fmt[k])
<1>1. /\ call.fmt \in Seq(Convs) /\ Len(call.args) = Len(call.fmt) + 1
      /\ \A k \in 1 .. Len(call.fmt) : call.args[k + 1].type = TypeOf(call.fmt[k])
  BY Zenon DEF GoodSource, GoodPrintf
<1>2. Len(call.fmt) \in Nat /\ N = Len(call.fmt)
  BY <1>1, LenProperties DEF N
<1>3. \A k \in 1 .. N : IsDouble(k) <=> call.fmt[k] = "%f"
  BY <1>1, <1>2 DEF IsDouble, TypeOf
<1>4. call.args \in Seq(Range(call.args))
  BY ArgsOwn, Zenon DEF GoodSource, GoodPrintf
<1> QED BY <1>1, <1>2, <1>3, <1>4 DEF Printf

LEMMA PrintfFacts ==
    ASSUME GoodSource(call), Needed(call)
    PROVE  /\ Printf /\ N > 0
           /\ call.args \in Seq(Range(call.args)) /\ Len(call.args) = N + 1
           /\ \A k \in 1 .. N : call.args[k + 1].type = TypeOf(call.fmt[k])
<1>1. ByName(call)
  BY DEF Needed
<1>2. N > 0
  <2>1. Len(call.args) - 1 >= 5 \/ \E k \in 2 .. Len(call.args) : call.args[k].type = "double"
    BY DEF Needed
  <2>2. N \in Nat /\ Len(call.args) = N + 1
    BY <1>1, ByNameFacts DEF Printf
  <2> QED BY <2>1, <2>2
<1> QED BY <1>1, <1>2, ByNameFacts

\* The parts of a format that is split behind its n-th conversion.
LEMMA FormatSplit ==
    ASSUME NEW S, NEW s \in Seq(S), NEW at \in Nat, NEW m \in Nat, NEW n \in Nat,
           n > 0, at + n < m, m = Len(s)
    PROVE  \A f : f = SubSeq(s, at + 1, m) =>
              /\ Len(f) = m - at
              /\ SubSeq(f, n + 1, Len(f)) = SubSeq(s, at + n + 1, m)
              /\ SubSeq(f, 1, n) = SubSeq(s, at + 1, at + n)
<1>1. at < m /\ n < m - at /\ m <= Len(s)
  OBVIOUS
<1>2. /\ Len(SubSeq(s, at + 1, m)) = m - at
      /\ SubSeq(SubSeq(s, at + 1, m), n + 1, m - at) = SubSeq(s, at + n + 1, m)
      /\ SubSeq(SubSeq(s, at + 1, m), 1, n) = SubSeq(s, at + 1, at + n)
  BY <1>1, PartOfPart
<1> QED BY <1>2, Zenon

\* Two pieces in the place of the last one.
LEMMA LastReplaced ==
    ASSUME NEW S, NEW p \in Seq(S), NEW L \in Nat, L > 0, L = Len(p),
           NEW x \in S, NEW y \in S
    PROVE  \A q : q = Append([p EXCEPT ![L] = x], y) =>
              /\ q \in Seq(S) /\ Len(q) = L + 1
              /\ \A k \in 1 .. L - 1 : q[k] = p[k]
              /\ q[L] = x /\ q[L + 1] = y
<1>1. L \in 1 .. Len(p)
  OBVIOUS
<1>2. /\ [p EXCEPT ![L] = x] \in Seq(S) /\ Len([p EXCEPT ![L] = x]) = L
      /\ \A k \in 1 .. L : [p EXCEPT ![L] = x][k] = IF k = L THEN x ELSE p[k]
  BY <1>1, ExceptSeq
<1>3. ASSUME NEW t \in Seq(S), Len(t) = L
      PROVE  /\ Append(t, y) \in Seq(S) /\ Len(Append(t, y)) = L + 1
             /\ \A k \in 1 .. L : Append(t, y)[k] = t[k]
             /\ Append(t, y)[L + 1] = y
  BY <1>3, AppendProperties
<1>4. ASSUME NEW t, t = [p EXCEPT ![L] = x], NEW q, q = Append(t, y)
      PROVE  /\ q \in Seq(S) /\ Len(q) = L + 1
             /\ \A k \in 1 .. L - 1 : q[k] = p[k]
             /\ q[L] = x /\ q[L + 1] = y
  <2>1. t \in Seq(S) /\ Len(t) = L /\ \A k \in 1 .. L : t[k] = IF k = L THEN x ELSE p[k]
    BY <1>2, <1>4
  <2>2. q \in Seq(S) /\ Len(q) = L + 1 /\ q[L + 1] = y /\ \A k \in 1 .. L : q[k] = t[k]
    BY <1>3, <1>4, <2>1
  <2> QED BY <2>1, <2>2
<1> QED BY <1>4

\* The pieces and their arguments after the last piece, behind the at-th argument,
\* has been split at its n-th one.
SplitPieces(p, at, n, m, isDouble) ==
    Append([p EXCEPT ![Len(p)] = Piece(SubSeq(Last(p).fmt, 1, n), n, isDouble)],
           Piece(SubSeq(Last(p).fmt, n + 1, Len(Last(p).fmt)), m - at - n, FALSE))

SplitStarts(b, L, at, n, m) ==
    [k \in 0 .. L + 1 |-> IF k < L THEN b[k] ELSE IF k = L THEN at + n ELSE m]

\* The last one of the pieces takes the arguments behind the at-th, n of which are
\* split off.
Splittable(p, b, L, at, n, m) ==
    /\ L \in Nat /\ at \in Nat /\ n \in Nat /\ m \in Nat
    /\ L > 0 /\ n > 0 /\ at + n < m
    /\ PiecesAt(p, b) /\ m = N /\ Len(p) = L /\ b[L - 1] = at

SplitOff(q, c, p, b, L, at, n, isDouble) ==
    /\ PiecesAt(q, c) /\ Len(q) = L + 1
    /\ \A k \in 1 .. L - 1 : q[k] = p[k] /\ c[k] = b[k] /\ c[k - 1] = b[k - 1]
    /\ c[L] = at + n /\ c[L - 1] = at
    /\ q[L].isDouble = isDouble /\ q[L + 1].isDouble = FALSE

LEMMA PiecesSplit ==
    ASSUME Printf, NEW p, NEW b, NEW L, NEW at, NEW n, NEW m,
           Splittable(p, b, L, at, n, m), NEW isDouble \in BOOLEAN
    PROVE  \A q, c :
              q = SplitPieces(p, at, n, m, isDouble) /\ c = SplitStarts(b, L, at, n, m)
              => SplitOff(q, c, p, b, L, at, n, isDouble)
<1>0. SUFFICES ASSUME NEW q, NEW c, q = SplitPieces(p, at, n, m, isDouble),
                      c = SplitStarts(b, L, at, n, m)
               PROVE  SplitOff(q, c, p, b, L, at, n, isDouble)
  BY Zenon
<1>a. L \in Nat /\ at \in Nat /\ n \in Nat /\ m \in Nat /\ L > 0 /\ n > 0 /\ at + n < m
  BY DEF Splittable
<1> USE <1>a
<1>b. PiecesAt(p, b) /\ m = N /\ Len(p) = L /\ b[L - 1] = at
  BY DEF Splittable
<1>1. /\ p \in Seq(PieceSet) /\ b \in [0 .. L -> Nat] /\ b[0] = 0 /\ b[L] = m
      /\ b[L - 1] = at /\ L = Len(p) /\ m = N
      /\ \A k \in 1 .. L : /\ b[k - 1] <= b[k] /\ p[k].args = b[k] - b[k - 1]
                           /\ p[k].fmt = SubSeq(call.fmt, b[k - 1] + 1, b[k])
  BY <1>b DEF PiecesAt
<1>2. Last(p) = p[L] /\ L \in 1 .. L /\ m - at - n \in Nat /\ m - at - n = m - (at + n)
  BY <1>1 DEF Last
<1>3. call.fmt \in Seq(Convs) /\ m = Len(call.fmt)
  BY <1>1 DEF Printf
<1> DEFINE f == Last(p).fmt
           p1 == Piece(SubSeq(call.fmt, at + 1, at + n), n, isDouble)
           p2 == Piece(SubSeq(call.fmt, at + n + 1, m), m - at - n, FALSE)
<1>4. f = SubSeq(call.fmt, at + 1, m)
  BY <1>1, <1>2
<1>5. /\ SubSeq(f, n + 1, Len(f)) = SubSeq(call.fmt, at + n + 1, m)
      /\ SubSeq(f, 1, n) = SubSeq(call.fmt, at + 1, at + n)
  BY <1>3, <1>4, FormatSplit
<1>6. q = Append([p EXCEPT ![L] = p1], p2)
  BY <1>0, <1>b, <1>5 DEF SplitPieces
<1>7. p1 \in PieceSet /\ p2 \in PieceSet
  <2>1. /\ SubSeq(call.fmt, at + 1, at + n) \in Seq(Convs)
        /\ SubSeq(call.fmt, at + n + 1, m) \in Seq(Convs)
    <3>1. at + n \in Nat /\ at <= at + n /\ at + n <= m
      OBVIOUS
    <3> QED BY <1>3, <3>1, PartOf, SMTT(20)
  <2> QED BY <1>2, <2>1 DEF PieceSet, Piece
<1>8. /\ p1.fmt = SubSeq(call.fmt, at + 1, at + n) /\ p1.args = n /\ p1.isDouble = isDouble
      /\ p2.fmt = SubSeq(call.fmt, at + n + 1, m) /\ p2.args = m - (at + n)
      /\ p2.isDouble = FALSE
  BY <1>2 DEF Piece
<1> HIDE DEF p1, p2, f
<1>9. /\ q \in Seq(PieceSet) /\ Len(q) = L + 1 /\ \A k \in 1 .. L - 1 : q[k] = p[k]
      /\ q[L] = p1 /\ q[L + 1] = p2
  <2>1. \A r : r = Append([p EXCEPT ![L] = p1], p2) =>
           /\ r \in Seq(PieceSet) /\ Len(r) = L + 1 /\ \A k \in 1 .. L - 1 : r[k] = p[k]
           /\ r[L] = p1 /\ r[L + 1] = p2
    BY <1>1, <1>7, LastReplaced
  <2> QED BY <1>6, <2>1
<1>10. /\ DOMAIN c = 0 .. L + 1
       /\ \A k \in 0 .. L + 1 : c[k] = IF k < L THEN b[k] ELSE IF k = L THEN at + n ELSE m
       /\ c = [k \in 0 .. L + 1 |-> c[k]]
  BY <1>0 DEF SplitStarts
<1>11. /\ \A k \in 0 .. L - 1 : c[k] = b[k] /\ c[k] \in Nat
       /\ c[L] = at + n /\ c[L + 1] = m /\ c[0] = 0 /\ c[L - 1] = at
  <2>0. b \in [0 .. L -> Nat] /\ \A k \in 0 .. L - 1 : k \in 0 .. L
    BY <1>1
  <2>1. \A k \in 0 .. L - 1 : b[k] \in Nat
    BY <2>0
  <2>2. 0 \in 0 .. L - 1 /\ L - 1 \in 0 .. L - 1 /\ ~ (L + 1 < L) /\ L + 1 # L
    OBVIOUS
  <2>3. \A k \in 0 .. L - 1 : c[k] = b[k]
    BY <1>10
  <2>4. c[L] = at + n /\ c[L + 1] = m
    BY <1>10
  <2> QED BY <1>1, <2>1, <2>2, <2>3, <2>4
<1>12. \A k \in 0 .. L + 1 : k \in 0 .. L - 1 \/ k = L \/ k = L + 1
  OBVIOUS
<1>13. c \in [0 .. L + 1 -> Nat]
  <2>1. at + n \in Nat
    OBVIOUS
  <2>2. \A k \in 0 .. L + 1 : c[k] \in Nat
    BY <1>11, <1>12, <2>1, Zenon
  <2> QED BY <1>10, <2>2
<1>14. ASSUME NEW k \in 1 .. L - 1
       PROVE  /\ q[k] = p[k] /\ c[k] = b[k] /\ c[k - 1] = b[k - 1]
              /\ c[k - 1] <= c[k] /\ q[k].args = c[k] - c[k - 1]
              /\ q[k].fmt = SubSeq(call.fmt, c[k - 1] + 1, c[k])
  <2>1. k \in 1 .. L /\ k - 1 \in 0 .. L - 1 /\ k \in 0 .. L - 1
    OBVIOUS
  <2>2. c[k] = b[k] /\ c[k - 1] = b[k - 1] /\ q[k] = p[k]
    BY <1>9, <1>11, <2>1
  <2> QED BY <1>1, <2>1, <2>2
<1>15. /\ c[L - 1] <= c[L] /\ q[L].args = c[L] - c[L - 1]
       /\ q[L].fmt = SubSeq(call.fmt, c[L - 1] + 1, c[L])
  <2>1. at <= at + n /\ n = at + n - at
    OBVIOUS
  <2> QED BY <1>8, <1>9, <1>11, <2>1
<1>16. /\ c[L + 1 - 1] <= c[L + 1] /\ q[L + 1].args = c[L + 1] - c[L + 1 - 1]
       /\ q[L + 1].fmt = SubSeq(call.fmt, c[L + 1 - 1] + 1, c[L + 1])
  <2>1. at + n <= m /\ L + 1 - 1 = L
    OBVIOUS
  <2> QED BY <1>8, <1>9, <1>11, <2>1
<1>17. ASSUME NEW k \in 1 .. L + 1
       PROVE  /\ c[k - 1] <= c[k] /\ q[k].args = c[k] - c[k - 1]
              /\ q[k].fmt = SubSeq(call.fmt, c[k - 1] + 1, c[k])
  <2>1. k \in 1 .. L - 1 \/ k = L \/ k = L + 1
    OBVIOUS
  <2> QED BY <1>14, <1>15, <1>16, <2>1
<1>18. PiecesAt(q, c)
  <2>1. L + 1 > 0
    OBVIOUS
  <2> QED BY <1>1, <1>9, <1>11, <1>13, <1>17, <2>1 DEF PiecesAt
<1> QED BY <1>8, <1>9, <1>11, <1>14, <1>18 DEF SplitOff

\* Splitting off passable arguments leaves passable pieces.
LEMMA SplitGood ==
    ASSUME Printf, NEW s, NEW b, Broken(s, b), s.next <= N, NEW n \in Nat, n > 0,
           s.next + n <= N + 1, NEW isDouble \in BOOLEAN,
           isDouble => n = 1 /\ IsDouble(s.next),
           ~isDouble => n <= 4 /\ \A j \in s.next .. s.next + n - 1 : ~IsDouble(j)
    PROVE  \A r : r = Split(s, n, isDouble) => r.next = s.next + n /\ \E c : Broken(r, c)
<1>0. SUFFICES ASSUME NEW r, r = Split(s, n, isDouble)
               PROVE  r.next = s.next + n /\ \E c : Broken(r, c)
  BY Zenon
<1> DEFINE p == s.pieces
           L == Len(p)
           m == N
           at == s.next - 1
           f == Last(p).fmt
<1>1. /\ PiecesAt(p, b) /\ s.ok /\ s.next \in 1 .. m + 1
      /\ \A k \in 1 .. L - 1 : Passable(p, b, k)
      /\ ~Last(p).isDouble /\ b[L - 1] = at
  BY DEF Broken
<1>2. /\ p \in Seq(PieceSet) /\ L > 0 /\ b \in [0 .. L -> Nat] /\ b[L] = m
      /\ \A k \in 1 .. L : /\ b[k - 1] <= b[k] /\ p[k].args = b[k] - b[k - 1]
                           /\ p[k].fmt = SubSeq(call.fmt, b[k - 1] + 1, b[k])
  BY <1>1 DEF PiecesAt
<1>3. L \in Nat /\ L \in 1 .. L /\ Last(p) = p[L]
  BY <1>2, LenProperties DEF Last
<1>4. m \in Nat /\ m = Len(call.fmt) /\ call.fmt \in Seq(Convs)
  BY DEF Printf
<1> HIDE DEF L, m, at
<1>5. at \in Nat /\ s.next = at + 1 /\ at + n <= m
  BY <1>1, <1>4 DEF m, at
<1>6. f = SubSeq(call.fmt, at + 1, m)
  BY <1>1, <1>2, <1>3
<1>7. f \in Seq(Convs) /\ Len(f) = m - at
  <2>1. at <= m
    BY <1>4, <1>5
  <2> QED BY <1>4, <1>5, <1>6, <2>1, PartOf
<1>8. /\ r.next = s.next + n /\ r.ok
      /\ r.pieces = CASE Len(f) > n -> SplitPieces(p, at, n, m, isDouble)
                      [] Len(f) <= n /\ isDouble -> [p EXCEPT ![L] = Piece(f, n, TRUE)]
                      [] OTHER -> p
  <2>1. r = [pieces |->
                 CASE Len(f) > n -> SplitPieces(p, at, n, m, isDouble)
                   [] Len(f) <= n /\ isDouble -> [p EXCEPT ![L] = Piece(f, n, TRUE)]
                   [] OTHER -> p,
             next |-> s.next + n,
             ok |-> s.ok /\ Len(f) >= n /\ (isDouble => n = 1)]
    BY <1>0 DEF Split, SplitPieces, Rest, L, m, at
  <2>2. Len(f) >= n
    BY <1>4, <1>5, <1>7
  <2> HIDE DEF f, p
  <2> QED BY <1>1, <2>1, <2>2
<1> HIDE DEF f
<1>9. CASE at + n < m
  <2>1. Len(f) > n
    BY <1>4, <1>5, <1>7, <1>9
  <2>2. r.pieces = SplitPieces(p, at, n, m, isDouble)
    BY <1>8, <2>1
  <2> DEFINE q == r.pieces
             c == SplitStarts(b, L, at, n, m)
  <2>3. SplitOff(q, c, p, b, L, at, n, isDouble)
    <3>1. Splittable(p, b, L, at, n, m)
      <4>1. L > 0 /\ Len(p) = L /\ m = N /\ n \in Nat /\ n > 0
        BY <1>2 DEF L, m
      <4> HIDE DEF p
      <4> QED BY <1>1, <1>3, <1>4, <1>5, <1>9, <4>1, Zenon DEF Splittable
    <3> HIDE DEF p
    <3> QED BY <2>2, <3>1, PiecesSplit, Zenon
  <2> HIDE DEF q, c, p
  <2>a. /\ PiecesAt(q, c) /\ Len(q) = L + 1
        /\ \A k \in 1 .. L - 1 : q[k] = p[k] /\ c[k] = b[k] /\ c[k - 1] = b[k - 1]
        /\ c[L] = at + n /\ c[L - 1] = at
        /\ q[L].isDouble = isDouble /\ q[L + 1].isDouble = FALSE
    BY <2>3, Zenon DEF SplitOff
  <2>4. ASSUME NEW k \in 1 .. L - 1 PROVE Passable(q, c, k)
    <3>1. Passable(p, b, k)
      BY <1>1 DEF p
    <3> QED BY <2>a, <3>1 DEF Passable
  <2>5. Passable(q, c, L)
    <3>1. CASE isDouble
      <4>1. n = 1 /\ IsDouble(at + 1)
        BY <1>5, <3>1
      <4> QED BY <2>a, <3>1, <4>1 DEF Passable
    <3>2. CASE ~isDouble
      <4>1. n <= 4 /\ \A j \in at + 1 .. at + n : ~IsDouble(j)
        BY <1>5, <3>2
      <4>2. at + n <= at + 4
        BY <1>5, <4>1
      <4> QED BY <2>a, <3>2, <4>1, <4>2 DEF Passable
    <3> QED BY <3>1, <3>2
  <2>6. \A k \in 1 .. Len(q) - 1 : Passable(q, c, k)
    <3>1. Len(q) - 1 = L /\ \A k \in 1 .. L : k \in 1 .. L - 1 \/ k = L
      BY <1>3, <2>a
    <3> QED BY <2>4, <2>5, <3>1
  <2>7. ~Last(q).isDouble /\ c[Len(q) - 1] = at + n
    <3>1. Len(q) - 1 = L
      BY <1>3, <2>a
    <3> QED BY <2>a, <3>1 DEF Last
  <2>8. /\ s.next + n \in 1 .. m + 1 /\ s.next + n <= m /\ s.next + n - 1 = at + n
    BY <1>4, <1>5, <1>9
  <2>9. Broken(r, c)
    <3>1. r.next \in 1 .. m + 1 /\ r.next <= m /\ r.next - 1 = at + n
      <4>1. r.next = s.next + n
        BY <1>8
      <4> QED BY <1>4, <1>5, <2>8, <4>1
    <3>2. /\ r.ok /\ PiecesAt(r.pieces, c)
          /\ \A k \in 1 .. Len(r.pieces) - 1 : Passable(r.pieces, c, k)
          /\ ~Last(r.pieces).isDouble /\ c[Len(r.pieces) - 1] = r.next - 1
      BY <1>8, <2>a, <2>6, <2>7, <3>1 DEF q
    <3> QED BY <3>1, <3>2, Zenon DEF Broken, m
  <2> QED BY <1>8, <2>9
<1>10. CASE at + n = m
  <2>1. Len(f) = n /\ n = m - at
    BY <1>4, <1>5, <1>7, <1>10
  <2>2. r.pieces = IF isDouble THEN [p EXCEPT ![L] = Piece(f, n, TRUE)] ELSE p
    <3>1. ~ (Len(f) > n) /\ Len(f) <= n
      BY <2>1
    <3> QED BY <1>8, <3>1
  <2>3. s.next + n \in 1 .. m + 1 /\ ~ (s.next + n <= m)
    BY <1>4, <1>5, <1>10
  <2> DEFINE q == r.pieces
  <2>4. /\ q \in Seq(PieceSet) /\ Len(q) = L
        /\ \A k \in 1 .. L : k # L => q[k] = p[k]
        /\ q[L].args = n /\ q[L].fmt = f /\ q[L].isDouble = isDouble
    <3>1. CASE isDouble
      <4>1. Piece(f, n, TRUE) \in PieceSet
        BY <1>7 DEF Piece, PieceSet
      <4>2. /\ [p EXCEPT ![L] = Piece(f, n, TRUE)] \in Seq(PieceSet)
            /\ Len([p EXCEPT ![L] = Piece(f, n, TRUE)]) = Len(p)
            /\ \A k \in 1 .. Len(p) : [p EXCEPT ![L] = Piece(f, n, TRUE)][k] =
                                         IF k = L THEN Piece(f, n, TRUE) ELSE p[k]
        <5>1. L \in 1 .. Len(p)
          BY <1>3 DEF L
        <5>2. p \in Seq(PieceSet)
          BY <1>2
        <5> HIDE DEF p
        <5>3. ASSUME NEW e \in PieceSet
              PROVE  /\ [p EXCEPT ![L] = e] \in Seq(PieceSet)
                     /\ Len([p EXCEPT ![L] = e]) = Len(p)
                     /\ \A k \in 1 .. Len(p) :
                           [p EXCEPT ![L] = e][k] = IF k = L THEN e ELSE p[k]
          BY <5>1, <5>2, ExceptSeq
        <5> QED BY <4>1, <5>3
      <4>3. q = [p EXCEPT ![L] = Piece(f, n, TRUE)] /\ Len(p) = L
        BY <2>2, <3>1 DEF L
      <4> HIDE DEF q, p
      <4>4. q \in Seq(PieceSet) /\ Len(q) = L
            /\ \A k \in 1 .. L : q[k] = IF k = L THEN Piece(f, n, TRUE) ELSE p[k]
        BY <4>2, <4>3
      <4>5. q[L] = Piece(f, n, TRUE)
        BY <1>3, <4>4
      <4>6. q[L].args = n /\ q[L].fmt = f /\ q[L].isDouble = TRUE
        BY <4>5 DEF Piece
      <4>7. \A k \in 1 .. L : k # L => q[k] = p[k]
        BY <4>4
      <4>8. isDouble = TRUE
        BY <3>1
      <4> QED BY <4>4, <4>6, <4>7, <4>8
    <3>2. CASE ~isDouble
      <4>1. q = p /\ Len(p) = L
        BY <2>2, <3>2 DEF L
      <4>2. p[L].isDouble = FALSE /\ p[L].args = m - at /\ p[L].fmt = f
        <5>1. p[L] \in PieceSet
          BY <1>2, <1>3, ElementOfSeq DEF L
        <5>2. p[L].isDouble \in BOOLEAN
          BY <5>1 DEF PieceSet
        <5> QED BY <1>1, <1>2, <1>3, <5>2 DEF f
      <4> HIDE DEF q, p
      <4> QED BY <1>2, <2>1, <3>2, <4>1, <4>2 DEF p
    <3> QED BY <3>1, <3>2
  <2> HIDE DEF q, p
  <2>5. PiecesAt(q, b)
    <3>1. ASSUME NEW k \in 1 .. L
          PROVE  /\ b[k - 1] <= b[k] /\ q[k].args = b[k] - b[k - 1]
                 /\ q[k].fmt = SubSeq(call.fmt, b[k - 1] + 1, b[k])
      <4>1. CASE k # L
        BY <1>2, <2>4, <4>1
      <4>2. CASE k = L
        <5>1. at <= m
          BY <1>4, <1>5
        <5> QED BY <1>1, <1>2, <1>6, <2>1, <2>4, <4>2, <5>1
      <4> QED BY <4>1, <4>2
    <3> QED BY <1>1, <1>2, <2>4, <3>1 DEF PiecesAt, L, m
  <2>6. \A k \in 1 .. Len(q) - 1 : Passable(q, b, k)
    <3>1. \A k \in 1 .. L - 1 : k \in 1 .. L /\ k # L
      BY <1>3
    <3> QED BY <1>1, <2>4, <3>1 DEF Passable, p
  <2>7. Passable(q, b, Len(q))
    <3>1. CASE isDouble
      <4>1. n = 1 /\ IsDouble(at + 1)
        BY <1>5, <3>1
      <4> QED BY <1>1, <1>2, <1>10, <2>4, <3>1, <4>1 DEF Passable
    <3>2. CASE ~isDouble
      <4>1. n <= 4 /\ \A j \in at + 1 .. at + n : ~IsDouble(j)
        BY <1>5, <3>2
      <4>2. m <= at + 4
        BY <1>5, <1>10, <4>1
      <4> QED BY <1>1, <1>2, <1>10, <2>4, <3>2, <4>1, <4>2 DEF Passable
    <3> QED BY <3>1, <3>2
  <2>8. Broken(r, b)
    BY <1>8, <2>3, <2>5, <2>6, <2>7 DEF Broken, q, m
  <2> QED BY <1>8, <2>8
<1> QED BY <1>4, <1>5, <1>9, <1>10

\* Only these fields count.
LEMMA BrokenFields ==
    ASSUME NEW s, NEW t, NEW b, Broken(s, b), t.ok = s.ok, t.next = s.next, t.pieces = s.pieces
    PROVE  Broken(t, b)
BY Zenon DEF Broken

LEMMA BreakInvNext ==
    ASSUME call' = call, NEW b, i' = next',
           Broken([pieces |-> pieces', next |-> next', ok |-> TRUE], b)
    PROVE  BreakInv'
<1>1. N' = N /\ \A k : IsDouble(k)' <=> IsDouble(k)
  BY DEF N, IsDouble
<1>2. \A p, k : Passable(p, b, k)' <=> Passable(p, b, k)
  BY <1>1, Zenon DEF Passable
<1>3. \A p : PiecesAt(p, b)' <=> PiecesAt(p, b)
  BY <1>1, Zenon DEF PiecesAt, PieceSet, Convs
<1>4. \A s : Broken(s, b)' <=> Broken(s, b)
  BY <1>1, <1>2, <1>3, Zenon DEF Broken
<1> QED BY <1>4 DEF BreakInv

\* One round of the loop of breakPrintfCall.
LEMMA GroupGood ==
    ASSUME Printf, pc = "break", i \in 1 .. N, i = next, NEW b,
           Broken([pieces |-> pieces, next |-> next, ok |-> TRUE], b)
    PROVE  /\ SplitGroup.split.next = SplitGroup.i /\ \E c : Broken(SplitGroup.split, c)
           /\ i < SplitGroup.i
<1> DEFINE s == [pieces |-> pieces, next |-> next, ok |-> TRUE]
           e == Min({i + GroupSize, N + 1})
           D == {k \in i .. e - 1 : IsDouble(k)}
           d == Min(D)
           s1 == IF d > i THEN Split(s, d - i, FALSE) ELSE s
           m == N
<1>1. m \in Nat /\ i \in Nat /\ i > 0 /\ i <= m
  BY DEF Printf
<1> HIDE DEF m
<1>2. e \in Nat /\ i < e /\ e <= i + 4 /\ e <= m + 1
  <2>1. {i + GroupSize, m + 1} \subseteq Nat /\ {i + GroupSize, m + 1} # {}
    BY <1>1 DEF GroupSize
  <2>2. /\ e \in {i + GroupSize, m + 1} /\ \A k \in {i + GroupSize, m + 1} : e <= k
    BY <2>1, MinIsLeast DEF m
  <2> QED BY <1>1, <2>2 DEF GroupSize
<1>3. s.next = i /\ Broken(s, b)
  OBVIOUS
<1>4. SplitGroup = IF D = {} THEN [split |-> Split(s, e - i, FALSE), i |-> e]
                   ELSE [split |-> Split(s1, 1, TRUE), i |-> d + 1]
  BY DEF SplitGroup, AfterDouble
<1> HIDE DEF s, e
<1>5. CASE D = {}
  <2>1. SplitGroup.split = Split(s, e - i, FALSE) /\ SplitGroup.i = e
    BY <1>4, <1>5
  <2>2. /\ s.next <= N /\ e - i \in Nat /\ e - i > 0 /\ s.next + (e - i) <= N + 1
        /\ s.next + (e - i) = e /\ e - i <= 4
    BY <1>1, <1>2, <1>3 DEF m
  <2>3. \A j \in s.next .. s.next + (e - i) - 1 : ~IsDouble(j)
    BY <1>3, <1>5, <2>2
  <2>4. \A r : r = Split(s, e - i, FALSE) =>
                 r.next = s.next + (e - i) /\ \E c : Broken(r, c)
    BY <1>3, <2>2, <2>3, SplitGood
  <2> QED BY <1>2, <2>1, <2>2, <2>4
<1>6. CASE D # {}
  <2>1. SplitGroup.split = Split(s1, 1, TRUE) /\ SplitGroup.i = d + 1
    BY <1>4, <1>6
  <2>2. d \in D /\ \A k \in D : d <= k
    <3>1. D \subseteq Nat
      BY <1>1, <1>2
    <3> QED BY <1>6, <3>1, MinIsLeast
  <2>3. d \in i .. e - 1 /\ IsDouble(d) /\ \A j \in i .. d - 1 : ~IsDouble(j)
    <3> HIDE DEF d
    <3> QED BY <1>1, <1>2, <2>2
  <2> HIDE DEF d, D
  <2>4. d \in Nat /\ i <= d /\ d <= m /\ d - i <= 4
    BY <1>1, <1>2, <2>3
  <2>5. s1.next = d /\ \E c : Broken(s1, c)
    <3>1. CASE d > i
      <4>1. /\ s.next <= N /\ d - i \in Nat /\ d - i > 0 /\ s.next + (d - i) <= N + 1
            /\ s.next + (d - i) = d
        BY <1>1, <1>3, <2>4, <3>1 DEF m
      <4>2. \A j \in s.next .. s.next + (d - i) - 1 : ~IsDouble(j)
        BY <1>3, <2>3, <4>1
      <4>3. \A r : r = Split(s, d - i, FALSE) =>
                     r.next = s.next + (d - i) /\ \E c : Broken(r, c)
        BY <1>3, <2>4, <4>1, <4>2, SplitGood
      <4> QED BY <3>1, <4>1, <4>3
    <3>2. CASE ~ (d > i)
      <4>1. d = i
        BY <1>1, <2>4, <3>2
      <4> QED BY <1>3, <3>2, <4>1
    <3> QED BY <3>1, <3>2
  <2> HIDE DEF s1
  <2>6. PICK c : Broken(s1, c)
    BY <2>5
  <2>7. /\ s1.next <= N /\ 1 \in Nat /\ 1 > 0 /\ s1.next + 1 <= N + 1
        /\ IsDouble(s1.next)
    BY <1>1, <2>3, <2>4, <2>5 DEF m
  <2>8. \A r : r = Split(s1, 1, TRUE) => r.next = s1.next + 1 /\ \E c1 : Broken(r, c1)
    BY <2>6, <2>7, SplitGood
  <2>9. i < d + 1
    BY <1>1, <2>4
  <2> QED BY <2>1, <2>5, <2>8, <2>9
<1> QED BY <1>5, <1>6

LEMMA BreakGroupKeeps ==
    ASSUME GoodSource(call), Needed(call), BreakInv, BreakGroup
    PROVE  BreakInv' /\ pc' = "break" /\ i < i' /\ i' = next'
<1>1. /\ pc = "break" /\ i <= N /\ call' = call
      /\ pieces' = SplitGroup.split.pieces /\ next' = SplitGroup.split.next
      /\ i' = SplitGroup.i
      /\ pc' = IF SplitGroup.split.ok THEN pc ELSE "failed"
  BY Zenon DEF BreakGroup
<1>2. Printf
  BY PrintfFacts
<1>3. PICK b : Broken([pieces |-> pieces, next |-> next, ok |-> TRUE], b)
  BY <1>1, Zenon DEF BreakInv
<1>4. i = next /\ i \in 1 .. N
  <2>1. i = next
    BY <1>1, Zenon DEF BreakInv
  <2>2. next \in 1 .. N + 1
    BY <1>3 DEF Broken
  <2> QED BY <1>1, <1>2, <2>1, <2>2 DEF Printf
<1>5. /\ SplitGroup.split.next = SplitGroup.i /\ \E c : Broken(SplitGroup.split, c)
      /\ i < SplitGroup.i
  BY <1>1, <1>2, <1>3, <1>4, GroupGood
<1>6. PICK c : Broken(SplitGroup.split, c)
  BY <1>5
<1>7. SplitGroup.split.ok
  BY <1>6, Zenon DEF Broken
<1>8. Broken([pieces |-> pieces', next |-> next', ok |-> TRUE], c)
  <2> DEFINE t == [pieces |-> pieces', next |-> next', ok |-> TRUE]
  <2>1. t.pieces = SplitGroup.split.pieces /\ t.next = SplitGroup.split.next /\ t.ok
    BY <1>1
  <2> HIDE DEF t
  <2>2. Broken(t, c)
    BY <1>6, <1>7, <2>1, Zenon DEF Broken
  <2> QED BY <2>2 DEF t
<1> QED BY <1>1, <1>5, <1>7, <1>8, BreakInvNext

-----------------------------------------------------------------------------
(* The calls that are issued for the pieces.                               *)

\* The arguments go on where those of the pieces before end.
LEMMA ArgItStarts ==
    ASSUME NEW b, PiecesAt(pieces, b),
           \A k \in 1 .. Len(pieces) : pieces[k].isDouble => b[k] = b[k - 1] + 1
    PROVE  \A k \in 0 .. Len(pieces) : ArgIt[k] = b[k]
<1> DEFINE L == Len(pieces)
           more(k) == IF pieces[k].isDouble THEN 1 ELSE pieces[k].args
           S == {k \in 0 .. L : ArgIt[k] = b[k]}
<1>1. /\ pieces \in Seq(PieceSet) /\ b \in [0 .. L -> Nat] /\ b[0] = 0
      /\ \A k \in 1 .. L : b[k - 1] <= b[k] /\ pieces[k].args = b[k] - b[k - 1]
  BY DEF PiecesAt
<1>2. L \in Nat
  BY <1>1, LenProperties
<1>3. ArgIt = CHOOSE f : f = [k \in 0 .. L |-> IF k = 0 THEN 0 ELSE f[k - 1] + more(k)]
  BY Zenon DEF ArgIt
<1>4. ASSUME NEW k \in 0 .. L, k # 0 PROVE b[k] = b[k - 1] + more(k)
  <2>1. k \in 1 .. L /\ k - 1 \in 0 .. L /\ k \in 0 .. L
    BY <1>2, <1>4
  <2>2. b[k] \in Nat /\ b[k - 1] \in Nat
    BY <1>1, <2>1
  <2>3. CASE pieces[k].isDouble
    BY <2>1, <2>3
  <2>4. CASE ~pieces[k].isDouble
    <3>1. pieces[k].args = b[k] - b[k - 1]
      BY <1>1, <2>1
    <3> QED BY <2>2, <2>4, <3>1
  <2> QED BY <2>3, <2>4
<1> HIDE DEF L, more
<1>5. b = [k \in 0 .. L |-> IF k = 0 THEN 0 ELSE b[k - 1] + more(k)]
  <2>1. b = [k \in 0 .. L |-> b[k]]
    BY <1>1
  <2>2. \A k \in 0 .. L : b[k] = IF k = 0 THEN 0 ELSE b[k - 1] + more(k)
    BY <1>1, <1>4
  <2> QED BY <2>1, <2>2
<1>6. ArgIt = [k \in 0 .. L |-> IF k = 0 THEN 0 ELSE ArgIt[k - 1] + more(k)]
  BY <1>3, <1>5, Zenon
<1>7. ASSUME NEW k \in 0 .. L, \A j \in 0 .. k - 1 : j \in S PROVE k \in S
  <2>1. /\ ArgIt[k] = IF k = 0 THEN 0 ELSE ArgIt[k - 1] + more(k)
        /\ b[k] = IF k = 0 THEN 0 ELSE b[k - 1] + more(k)
    BY <1>5, <1>6, Zenon
  <2>2. k # 0 => ArgIt[k - 1] = b[k - 1]
    BY <1>2, <1>7
  <2> QED BY <2>1, <2>2
<1>8. 0 .. L \subseteq S
  <2> HIDE DEF S
  <2>1. \A k \in 0 .. L : (\A j \in 0 .. k - 1 : j \in S) => k \in S
    BY <1>7
  <2> QED BY <1>2, <2>1, CountUp
<1> QED BY <1>8 DEF L

\* A format asks for one value for each conversion.
LEMMA TypesOfEach ==
    ASSUME NEW f \in Seq(Convs)
    PROVE  TypesOf(f) = [k \in 1 .. Len(f) |-> TypeOf(f[k])]
<1> DEFINE n == Len(f)
           g == [k \in 1 .. n |-> TypeOf(f[k])]
<1>1. n \in Nat /\ DOMAIN f = 1 .. n /\ \A k \in 1 .. n : f[k] \in Convs
  BY LenProperties, ElementOfSeq
<1> HIDE DEF n
<1>2. \A k \in 1 .. n : Takes(f[k]) = <<TypeOf(f[k])>>
  BY <1>1 DEF Convs, Takes, TypeOf
<1>3. g \in Seq({"double", "int"}) /\ Len(g) = n
  <2>1. \A k \in 1 .. n : TypeOf(f[k]) \in {"double", "int"}
    BY DEF TypeOf
  <2>2. g \in [1 .. n -> {"double", "int"}]
    BY <2>1
  <2> HIDE DEF g
  <2> QED BY <1>1, <2>2
<1>4. [k \in DOMAIN f |-> Takes(f[k])] = [k \in 1 .. Len(g) |-> <<g[k]>>]
  BY <1>1, <1>2, <1>3
<1> HIDE DEF g
<1>5. FlattenSeq([k \in 1 .. Len(g) |-> <<g[k]>>]) = g
  BY <1>3, FlattenOnes
<1> QED BY <1>4, <1>5 DEF TypesOf, g, n

\* The first argument and some of the others.
LEMMA FirstAndSome ==
    ASSUME NEW S, NEW a \in Seq(S), NEW lo \in Nat, NEW hi \in Nat, lo <= hi,
           hi + 1 <= Len(a)
    PROVE  \A r : r = <<a[1]>> \o SubSeq(a, 2 + lo, 1 + hi) =>
              /\ r \in Seq(S) /\ Len(r) = hi - lo + 1 /\ DOMAIN Tail(r) = 1 .. hi - lo
              /\ \A n \in 1 .. hi - lo : r[n + 1] = a[1 + lo + n]
              /\ r[1] = a[1]
<1> DEFINE d == hi - lo
           t == SubSeq(a, 2 + lo, 1 + hi)
           r == <<a[1]>> \o t
<1>1. Len(a) \in Nat /\ d \in Nat /\ 1 \in 1 .. Len(a)
  BY LenProperties
<1>2. a[1] \in S /\ \A k \in 2 + lo .. 1 + hi : a[k] \in S
  <2>1. \A k \in 2 + lo .. 1 + hi : k \in 1 .. Len(a)
    BY <1>1
  <2> QED BY <1>1, <2>1, ElementOfSeq
<1>3. t \in Seq(S) /\ Len(t) = d /\ \A n \in 1 .. d : t[n] = a[1 + lo + n]
  <2>1. /\ t \in Seq(S)
        /\ Len(t) = IF 2 + lo <= 1 + hi THEN 1 + hi - (2 + lo) + 1 ELSE 0
        /\ \A n \in 1 .. 1 + hi - (2 + lo) + 1 : t[n] = a[2 + lo + n - 1]
    BY <1>2, SubSeqProperties
  <2>2. /\ 1 + hi - (2 + lo) + 1 = d
        /\ (IF 2 + lo <= 1 + hi THEN 1 + hi - (2 + lo) + 1 ELSE 0) = d
        /\ \A n \in Nat : 2 + lo + n - 1 = 1 + lo + n
    OBVIOUS
  <2> HIDE DEF t, d
  <2> QED BY <1>1, <2>1, <2>2
<1> HIDE DEF t, d
<1>4. <<a[1]>> \in Seq(S) /\ Len(<<a[1]>>) = 1
  BY <1>2
<1>5. /\ r \in Seq(S) /\ Len(r) = 1 + d
      /\ \A n \in 1 .. 1 + d : r[n] = IF n <= 1 THEN <<a[1]>>[n] ELSE t[n - 1]
  BY <1>3, <1>4, ConcatProperties
<1> HIDE DEF r
<1>6. \A n \in 1 .. d : r[n + 1] = a[1 + lo + n]
  <2>1. \A n \in 1 .. d : n + 1 \in 1 .. 1 + d /\ ~ (n + 1 <= 1) /\ n + 1 - 1 = n
    BY <1>1
  <2> QED BY <1>3, <1>5, <2>1
<1>7. DOMAIN Tail(r) = 1 .. d
  <2>1. r # << >>
    BY <1>1, <1>5
  <2>2. Tail(r) \in Seq(S) /\ Len(Tail(r)) = d
    BY <1>1, <1>5, <2>1, HeadTailProperties
  <2> QED BY <2>2, LenProperties
<1>8. Len(r) = hi - lo + 1
  BY <1>5 DEF d
<1>9. r[1] = a[1]
  <2>1. 1 \in 1 .. 1 + d /\ 1 <= 1
    BY <1>1
  <2> QED BY <1>5, <2>1
<1> QED BY <1>5, <1>6, <1>7, <1>8, <1>9 DEF r, d, t

\* What PiecesPassable says of a call.
TypesPassable(c, types) ==
    /\ types = TypesOf(c.fmt)
    /\ \/ c.fn = "sbt_printf_d" /\ types = <<"double">>
       \/ c.fn = "printf" /\ Len(types) <= 4 /\ Range(types) \subseteq {"int"}

VariadicTypes(c) == [n \in DOMAIN Tail(c.args) |-> c.args[n + 1].type]

PieceCall(k) == [fn |-> PieceFn(pieces[k]), fmt |-> pieces[k].fmt, args |-> PieceArgs(k),
                 ptr |-> FALSE]

\* The call of a piece that takes the arguments behind the lo-th up to the hi-th.
PieceShape(c, lo, hi) ==
    /\ lo \in Nat /\ hi \in Nat /\ lo <= hi /\ hi <= N /\ ~c.ptr
    /\ c.args \in Seq(Range(call.args)) /\ Len(c.args) = hi - lo + 1
    /\ c.args[1] = call.args[1]
    /\ \A n \in 1 .. hi - lo : c.args[n + 1] = call.args[1 + lo + n]
    /\ Len(c.fmt) = hi - lo
    /\ \/ /\ c.fn = "sbt_printf_d" /\ hi - lo = 1
          /\ TypesOf(c.fmt) = <<"double">> /\ c.args[2].type = "double"
       \/ /\ c.fn = "printf" /\ hi - lo <= 4
          /\ TypesOf(c.fmt) = [n \in 1 .. hi - lo |-> c.args[n + 1].type]
          /\ \A n \in 1 .. hi - lo : c.args[n + 1].type = "int"

LEMMA PieceCallPassable ==
    ASSUME GoodSource(call), Needed(call), NEW b, PiecesAt(pieces, b),
           \A j \in 1 .. Len(pieces) : Passable(pieces, b, j),
           NEW k \in 1 .. Len(pieces)
    PROVE  \A c : c = PieceCall(k) =>
              TypesPassable(c, VariadicTypes(c)) /\ PieceShape(c, b[k - 1], b[k])
<1> DEFINE L == Len(pieces)
           lo == b[k - 1]
           hi == b[k]
           d == hi - lo
           m == N
<1>0. SUFFICES ASSUME NEW c, c = PieceCall(k)
               PROVE  TypesPassable(c, VariadicTypes(c)) /\ PieceShape(c, b[k - 1], b[k])
  BY Zenon
<1>1. /\ call.fmt \in Seq(Convs) /\ m \in Nat /\ m = Len(call.fmt)
      /\ call.args \in Seq(Range(call.args)) /\ Len(call.args) = m + 1
      /\ \A n \in 1 .. m : call.args[n + 1].type = TypeOf(call.fmt[n])
      /\ \A n \in 1 .. m : IsDouble(n) <=> call.fmt[n] = "%f"
  BY PrintfFacts DEF Printf
<1>2. /\ pieces \in Seq(PieceSet) /\ b \in [0 .. L -> Nat] /\ b[0] = 0 /\ b[L] = m
      /\ \A j \in 1 .. L : b[j - 1] <= b[j]
      /\ pieces[k].args = hi - lo /\ pieces[k].fmt = SubSeq(call.fmt, lo + 1, hi)
  BY DEF PiecesAt
<1>3. L \in Nat
  BY <1>2, LenProperties
<1> HIDE DEF m
<1>4. /\ c.fn = IF pieces[k].isDouble THEN "sbt_printf_d" ELSE "printf"
      /\ c.fmt = SubSeq(call.fmt, lo + 1, hi)
      /\ c.args = <<call.args[1]>> \o SubSeq(call.args, 2 + ArgIt[k - 1], 1 + ArgIt[k])
      /\ ~c.ptr
  BY <1>0, <1>2 DEF PieceCall, PieceFn, PieceArgs
<1>5. ArgIt[k - 1] = lo /\ ArgIt[k] = hi
  <2>1. k - 1 \in 0 .. L /\ k \in 0 .. L
    BY <1>3
  <2>2. \A j \in 1 .. Len(pieces) : pieces[j].isDouble => b[j] = b[j - 1] + 1
    BY Zenon DEF Passable
  <2> QED BY <2>1, <2>2, ArgItStarts
<1>6. lo \in Nat /\ hi \in Nat /\ lo <= hi
  <2>1. k - 1 \in 0 .. L /\ k \in 0 .. L /\ k \in 1 .. L
    BY <1>3
  <2> QED BY <1>2, <2>1
<1>7. hi <= m
  <2> DEFINE S == {j \in 0 .. L : j >= k => hi <= b[j]}
  <2>1. \A j \in 0 .. L : b[j] \in Nat
    BY <1>2
  <2>2. ASSUME NEW j \in 0 .. L, \A n \in 0 .. j - 1 : n \in S PROVE j \in S
    <3>1. CASE j > k
      <4>1. hi <= b[j - 1]
        BY <1>3, <2>2, <3>1
      <4>2. b[j - 1] <= b[j] /\ b[j - 1] \in Nat /\ b[j] \in Nat
        BY <1>2, <1>3, <2>1, <3>1
      <4> QED BY <1>6, <4>1, <4>2
    <3>2. CASE j = k
      BY <1>6, <3>2
    <3>3. CASE j < k
      BY <3>3
    <3> QED BY <1>3, <3>1, <3>2, <3>3
  <2>3. 0 .. L \subseteq S
    <3> HIDE DEF S
    <3>1. \A j \in 0 .. L : (\A n \in 0 .. j - 1 : n \in S) => j \in S
      BY <2>2
    <3> QED BY <1>3, <3>1, CountUp
  <2>4. hi <= b[L]
    BY <1>3, <2>3
  <2> QED BY <1>2, <2>4
<1>8. Passable(pieces, b, k)
  OBVIOUS
<1> HIDE DEF lo, hi, d, L
<1>9. d \in Nat
  BY <1>6 DEF d
<1>10. /\ DOMAIN Tail(c.args) = 1 .. d
       /\ \A n \in 1 .. d : c.args[n + 1] = call.args[1 + lo + n]
       /\ c.args \in Seq(Range(call.args)) /\ Len(c.args) = d + 1
       /\ c.args[1] = call.args[1]
  <2>1. c.args = <<call.args[1]>> \o SubSeq(call.args, 2 + lo, 1 + hi)
    BY <1>4, <1>5
  <2>2. hi + 1 <= Len(call.args)
    BY <1>1, <1>6, <1>7
  <2> DEFINE S == Range(call.args)
             a == call.args
  <2>3. a \in Seq(S)
    BY <1>1
  <2> HIDE DEF S
  <2>4. \A r : r = <<a[1]>> \o SubSeq(a, 2 + lo, 1 + hi) =>
              /\ r \in Seq(S) /\ Len(r) = hi - lo + 1 /\ DOMAIN Tail(r) = 1 .. hi - lo
              /\ \A n \in 1 .. hi - lo : r[n + 1] = a[1 + lo + n]
              /\ r[1] = a[1]
    BY <1>6, <2>2, <2>3, FirstAndSome
  <2> QED BY <2>1, <2>4, Zenon DEF d, S
<1>11. \A n \in 1 .. d : /\ c.args[n + 1].type = TypeOf(call.fmt[lo + n])
                          /\ lo + n \in 1 .. m /\ lo + n \in lo + 1 .. hi
  <2>1. \A n \in 1 .. d : /\ 1 + lo + n = lo + n + 1 /\ lo + n \in 1 .. m
                           /\ lo + n \in lo + 1 .. hi
    BY <1>1, <1>6, <1>7 DEF d
  <2> QED BY <1>1, <1>10, <2>1
<1>12. /\ c.fmt \in Seq(Convs) /\ Len(c.fmt) = d
       /\ \A n \in 1 .. d : c.fmt[n] = call.fmt[lo + n]
  <2>1. call.fmt \in Seq(Convs) /\ hi <= Len(call.fmt)
    BY <1>1, <1>7
  <2>2. \A f : f = SubSeq(call.fmt, lo + 1, hi) =>
           /\ f \in Seq(Convs) /\ Len(f) = hi - lo
           /\ \A n \in 1 .. hi - lo : f[n] = call.fmt[lo + n]
    BY <1>6, <2>1, PartOf, SMTT(20)
  <2> QED BY <1>4, <2>2, Zenon DEF d
<1>13. VariadicTypes(c) = [n \in 1 .. d |-> TypeOf(call.fmt[lo + n])]
  <2>1. VariadicTypes(c) = [n \in 1 .. d |-> c.args[n + 1].type]
    BY <1>10 DEF VariadicTypes
  <2> QED BY <1>11, <2>1
<1>14. TypesOf(c.fmt) = [n \in 1 .. d |-> TypeOf(call.fmt[lo + n])]
  <2>1. TypesOf(c.fmt) = [n \in 1 .. d |-> TypeOf(c.fmt[n])]
    BY <1>12, TypesOfEach
  <2> QED BY <1>12, <2>1
<1> DEFINE types == VariadicTypes(c)
<1>15. Len(types) = d /\ \A n \in 1 .. d : types[n] = TypeOf(call.fmt[lo + n])
  BY <1>9, <1>13
<1>16. ASSUME \/ /\ c.fn = "sbt_printf_d" /\ d = 1
                 /\ TypesOf(c.fmt) = <<"double">> /\ c.args[2].type = "double"
              \/ /\ c.fn = "printf" /\ d <= 4
                 /\ TypesOf(c.fmt) = [n \in 1 .. d |-> c.args[n + 1].type]
                 /\ \A n \in 1 .. d : c.args[n + 1].type = "int"
       PROVE  PieceShape(c, b[k - 1], b[k])
  <2>1. /\ lo \in Nat /\ hi \in Nat /\ lo <= hi /\ hi <= N
        /\ c.args \in Seq(Range(call.args)) /\ Len(c.args) = d + 1
        /\ c.args[1] = call.args[1] /\ Len(c.fmt) = d /\ ~c.ptr
        /\ \A n \in 1 .. d : c.args[n + 1] = call.args[1 + lo + n]
    BY <1>4, <1>6, <1>7, <1>10, <1>12 DEF m
  <2> QED BY <1>16, <2>1, Zenon DEF PieceShape, lo, hi, d
<1>17. CASE pieces[k].isDouble
  <2>1. hi = lo + 1 /\ IsDouble(hi)
    BY <1>8, <1>17 DEF Passable, lo, hi
  <2>2. d = 1 /\ hi \in 1 .. m
    BY <1>6, <1>7, <2>1 DEF d
  <2>3. TypeOf(call.fmt[hi]) = "double"
    BY <1>1, <2>1, <2>2 DEF TypeOf
  <2>4. types = <<"double">>
    BY <1>13, <2>1, <2>2, <2>3
  <2>5. c.args[2].type = "double"
    <3>1. 1 \in 1 .. d /\ 1 + 1 = 2
      BY <2>2
    <3>2. c.args[1 + 1].type = TypeOf(call.fmt[lo + 1])
      BY <1>11, <3>1
    <3> QED BY <2>1, <2>3, <3>1, <3>2
  <2>6. TypesOf(c.fmt) = <<"double">>
    BY <1>13, <1>14, <2>4
  <2> QED BY <1>4, <1>13, <1>14, <1>16, <1>17, <2>2, <2>4, <2>5, <2>6 DEF TypesPassable
<1>18. CASE ~pieces[k].isDouble
  <2>1. hi <= lo + 4 /\ \A j \in lo + 1 .. hi : ~IsDouble(j)
    BY <1>8, <1>18 DEF Passable, lo, hi
  <2>2. d <= 4
    BY <1>6, <2>1 DEF d
  <2>3. \A n \in 1 .. d : TypeOf(call.fmt[lo + n]) = "int"
    BY <1>1, <1>11, <2>1 DEF TypeOf
  <2>4. Range(types) \subseteq {"int"}
    BY <1>13, <2>3 DEF Range
  <2>5. TypesOf(c.fmt) = [n \in 1 .. d |-> c.args[n + 1].type]
        /\ \A n \in 1 .. d : c.args[n + 1].type = "int"
    BY <1>11, <1>14, <2>3
  <2>6. PieceShape(c, b[k - 1], b[k])
    BY <1>4, <1>16, <1>18, <2>2, <2>5, Zenon
  <2> QED BY <1>4, <1>13, <1>14, <1>15, <1>18, <2>2, <2>4, <2>6 DEF TypesPassable
<1> QED BY <1>17, <1>18

\* Where the arguments of the pieces begin, when the printf is broken.
LEMMA PiecesIssued ==
    ASSUME ExternalInv, IssueNewCalls
    PROVE  \E b : /\ PiecesAt(pieces, b)
                  /\ \A k \in 1 .. Len(pieces) : Passable(pieces, b, k)
                  /\ issued' = [k \in 1 .. Len(pieces) |-> PieceCall(k)] /\ pc' = "import"
<1>1. /\ pc = "break" /\ ~ (i <= N) /\ call' = call
      /\ IF ArgIt[Len(pieces)] = N
         THEN issued' = [k \in DOMAIN pieces |-> PieceCall(k)] /\ pc' = "import"
         ELSE pc' = "failed"
  <2>1. i > N /\ N \in Nat /\ i \in 1 .. N + 1
    <3>1. pc = "break" /\ i > N
      BY Zenon DEF IssueNewCalls
    <3>2. GoodSource(call) /\ Needed(call) /\ i = next
      BY <3>1, Zenon DEF ExternalInv, BreakInv
    <3>3. \E b : Broken([pieces |-> pieces, next |-> next, ok |-> TRUE], b)
      BY <3>1, Zenon DEF ExternalInv, BreakInv
    <3>4. next \in 1 .. N + 1
      BY <3>3 DEF Broken
    <3>5. Printf
      BY <3>2, PrintfFacts
    <3> QED BY <3>1, <3>2, <3>4, <3>5 DEF Printf
  <2>2. ~ (i <= N)
    BY <2>1
  <2> QED BY <2>2, Zenon DEF IssueNewCalls, PieceCall
<1>2. GoodSource(call) /\ Needed(call) /\ i = next
  BY <1>1, Zenon DEF ExternalInv, BreakInv
<1>3. PICK b : Broken([pieces |-> pieces, next |-> next, ok |-> TRUE], b)
  BY <1>1, Zenon DEF ExternalInv, BreakInv
<1>4. Printf
  BY <1>2, PrintfFacts
<1> DEFINE L == Len(pieces)
<1>5. /\ PiecesAt(pieces, b) /\ \A k \in 1 .. L - 1 : Passable(pieces, b, k)
      /\ Passable(pieces, b, L)
  <2> DEFINE s == [pieces |-> pieces, next |-> next, ok |-> TRUE]
  <2>1. s.pieces = pieces /\ s.next = next
    OBVIOUS
  <2>2. ~ (s.next <= N)
    BY <1>1, <1>2, <2>1, Zenon
  <2> HIDE DEF s
  <2> QED BY <1>3, <2>1, <2>2, Zenon DEF Broken, s
<1>6. pieces \in Seq(PieceSet) /\ L \in Nat /\ L > 0 /\ DOMAIN pieces = 1 .. L /\ b[L] = N
  BY <1>5, LenProperties DEF PiecesAt
<1>7. \A k \in 1 .. L : Passable(pieces, b, k)
  <2>1. \A n \in Nat : \A k \in 1 .. n : k \in 1 .. n - 1 \/ k = n
    OBVIOUS
  <2>2. \A k \in 1 .. L : k \in 1 .. L - 1 \/ k = L
    BY <1>6, <2>1, Zenon
  <2> QED BY <1>5, <2>2, Zenon
<1>8. ArgIt[L] = N
  <2>1. \A k \in 1 .. L : pieces[k].isDouble => b[k] = b[k - 1] + 1
    BY <1>7, Zenon DEF Passable
  <2>2. L \in 0 .. L
    BY <1>6
  <2> QED BY <1>5, <1>6, <2>1, <2>2, ArgItStarts
<1>9. issued' = [k \in 1 .. L |-> PieceCall(k)] /\ pc' = "import"
  BY <1>1, <1>6, <1>8, Zenon
<1> QED BY <1>5, <1>7, <1>9

LEMMA IssueNewCallsKeeps ==
    ASSUME ExternalInv, IssueNewCalls
    PROVE  IssuedInv' /\ pc' = "import"
<1> DEFINE L == Len(pieces)
<1>1. pc = "break" /\ call' = call
  BY Zenon DEF IssueNewCalls
<1>2. GoodSource(call) /\ Needed(call)
  BY <1>1, Zenon DEF ExternalInv
<1>3. PICK b : /\ PiecesAt(pieces, b) /\ \A k \in 1 .. L : Passable(pieces, b, k)
               /\ issued' = [k \in 1 .. L |-> PieceCall(k)] /\ pc' = "import"
  BY PiecesIssued
<1>6. L \in Nat /\ L > 0
  BY <1>3, LenProperties DEF PiecesAt
<1>10. ASSUME NEW k \in 1 .. L
       PROVE  TypesPassable(issued'[k], VariadicTypes(issued'[k]))
  <2>1. issued'[k] = PieceCall(k)
    BY <1>3, Zenon
  <2>2. \A c : c = PieceCall(k) => TypesPassable(c, VariadicTypes(c))
    BY <1>2, <1>3, PieceCallPassable
  <2> QED BY <2>1, <2>2, Zenon
<1> HIDE DEF L
<1>11. DOMAIN issued' = 1 .. L /\ Len(issued') = L
  BY <1>3, <1>6
<1>12. PiecesPassable'
  BY <1>10, <1>11, Zenon DEF PiecesPassable, TypesPassable, VariadicTypes
<1>13. issued' = [k \in 1 .. Len(issued') |-> issued'[k]]
  BY <1>3, <1>11, Zenon
<1> QED BY <1>3, <1>6, <1>11, <1>12, <1>13 DEF IssuedInv

-----------------------------------------------------------------------------
(* Imports.                                                                *)

\* The next address is beyond those of all functions imported before, so that
\* a new function hides none of them.
LEMMA ImportKeeps ==
    ASSUME ImportInv, NEW name, Import(name)
    PROVE  ImportInv' /\ DOMAIN funMap \subseteq DOMAIN funMap'
<1> DEFINE X == ExternalName(name)
           A == NextExtFuncAddr
           D == DOMAIN funMap
<1>1. /\ X \notin D /\ funMap' = Upsert(funMap, X, A)
      /\ funcByAddr' = Upsert(funcByAddr, A, X)
  BY Zenon DEF Import
<1>2. /\ IsFiniteSet(D)
      /\ \A n \in D : /\ funMap[n] \in Nat /\ 64 <= funMap[n] /\ funMap[n] < A
                       /\ funMap[n] \in DOMAIN funcByAddr /\ funcByAddr[funMap[n]] = n
  BY DEF ImportInv, FirstExtFuncAddr
<1>3. /\ DOMAIN funMap' = D \cup {X}
      /\ \A n \in D \cup {X} : funMap'[n] = IF n = X THEN A ELSE funMap[n]
      /\ DOMAIN funcByAddr' = DOMAIN funcByAddr \cup {A}
      /\ \A a \in DOMAIN funcByAddr \cup {A} :
            funcByAddr'[a] = IF a = A THEN X ELSE funcByAddr[a]
  BY <1>1, Zenon DEF Upsert
<1>4. /\ Cardinality(D) \in Nat /\ IsFiniteSet(D \cup {X})
      /\ Cardinality(D \cup {X}) = Cardinality(D) + 1
  BY <1>1, <1>2, FS_AddElement, FS_CardinalityType
<1>5. A \in Nat /\ 64 <= A /\ NextExtFuncAddr' = A + 4
  <2>1. A = 64 + 4 * Cardinality(D) /\ NextExtFuncAddr' = 64 + 4 * Cardinality(D \cup {X})
    BY <1>3 DEF NextExtFuncAddr, FirstExtFuncAddr
  <2> HIDE DEF A, D
  <2> QED BY <1>4, <2>1
<1> HIDE DEF X, A
<1>6. ASSUME NEW n \in D \cup {X}
      PROVE  /\ funMap'[n] \in Nat /\ 64 <= funMap'[n] /\ funMap'[n] < A + 4
             /\ funMap'[n] \in DOMAIN funcByAddr' /\ funcByAddr'[funMap'[n]] = n
  <2>1. CASE n = X
    <3>1. funMap'[n] = A /\ funcByAddr'[A] = n /\ A \in DOMAIN funcByAddr'
      BY <1>3, <2>1
    <3> QED BY <1>5, <3>1
  <2>2. CASE n # X
    <3>1. n \in D /\ funMap'[n] = funMap[n]
      BY <1>3, <2>2
    <3>2. funMap[n] # A
      BY <1>2, <1>5, <3>1
    <3>3. funMap[n] \in DOMAIN funcByAddr' /\ funcByAddr'[funMap[n]] = n
      BY <1>2, <1>3, <3>1, <3>2
    <3> QED BY <1>2, <1>5, <3>1, <3>3
  <2> QED BY <2>1, <2>2
<1>7. ImportInv'
  <2>1. FirstExtFuncAddr = 64
    BY DEF FirstExtFuncAddr
  <2> QED BY <1>3, <1>4, <1>5, <1>6, <2>1, Zenon DEF ImportInv
<1> QED BY <1>3, <1>7

-----------------------------------------------------------------------------
(* Every step keeps the invariant.                                         *)

\* What steps that leave some variables alone keep.
LEMMA ImportKept ==
    ASSUME ImportInv, funMap' = funMap, funcByAddr' = funcByAddr
    PROVE  ImportInv'
BY Zenon DEF ImportInv, NextExtFuncAddr

LEMMA IssuedKept ==
    ASSUME IssuedInv, pc \notin {"break", "failed"}, pc' # "break",
           call' = call, issued' = issued
    PROVE  IssuedInv'
<1>1. Needed(call) => \A k \in DOMAIN issued :
                          TypesPassable(issued[k], VariadicTypes(issued[k]))
  BY Zenon DEF IssuedInv, PiecesPassable, TypesPassable, VariadicTypes
<1>2. Needed(call') => \A k \in DOMAIN issued' :
                           TypesPassable(issued'[k], VariadicTypes(issued'[k]))
  BY <1>1, Zenon
<1>3. PiecesPassable'
  BY <1>2, Zenon DEF PiecesPassable, TypesPassable, VariadicTypes
<1> QED BY <1>3, Zenon DEF IssuedInv

LEMMA RunKept ==
    ASSUME RunInv, pc \notin {"break", "import"}, issued' = issued, funMap' = funMap
    PROVE  RunInv'
BY Zenon DEF RunInv

\* The call that is made has been issued and imported.
LEMMA CurrentImported ==
    ASSUME ExternalInv, pc \in {"call", "direct", "icall", "host", "return"}
    PROVE  /\ made \in Nat /\ made < Len(issued) /\ Len(issued) \in Nat
           /\ ExternalName(Current.fn) \in DOMAIN funMap
<1>1. made \in Nat /\ made < Len(issued)
  BY DEF ExternalInv, MadeInv
<1>2. Len(issued) \in Nat
  BY DEF ExternalInv, IssuedInv
<1>3. \A k \in 1 .. Len(issued) : ExternalName(issued[k].fn) \in DOMAIN funMap
  BY Zenon DEF ExternalInv, RunInv
<1>4. made + 1 \in 1 .. Len(issued)
  BY <1>1, <1>2
<1> QED BY <1>1, <1>2, <1>3, <1>4, Zenon DEF Current

LEMMA ExternalInit ==
    ASSUME Init
    PROVE  ExternalInv
<1>1. /\ call \in Calls /\ pc = (IF Needed(call) THEN "break" ELSE "import")
      /\ i = 1 /\ next = 1 /\ pieces = <<Piece(call.fmt, N, FALSE)>> /\ issued = <<call>>
      /\ funMap = << >> /\ made = 0
  BY Zenon DEF Init
<1>2. GoodSource(call)
  BY <1>1, CallsAssumption, Zenon
<1>3. pc \in {"break", "import"} /\ (pc = "break" <=> Needed(call))
  BY <1>1
<1>4. ASSUME Needed(call)
      PROVE  \E b : Broken([pieces |-> pieces, next |-> next, ok |-> TRUE], b)
  <2> DEFINE s == [pieces |-> pieces, next |-> next, ok |-> TRUE]
             m == N
             b == [k \in 0 .. 1 |-> IF k = 0 THEN 0 ELSE m]
             p == Piece(call.fmt, m, FALSE)
  <2>1. call.fmt \in Seq(Convs) /\ m \in Nat /\ m > 0 /\ m = Len(call.fmt)
    BY <1>2, <1>4, PrintfFacts DEF Printf
  <2>2. pieces = <<p>> /\ s.pieces = pieces /\ s.next = 1 /\ s.ok
    BY <1>1
  <2>3. p \in PieceSet /\ p.fmt = call.fmt /\ p.args = m /\ p.isDouble = FALSE
    <3> HIDE DEF m
    <3> QED BY <2>1 DEF Piece, PieceSet
  <2>4. N = m
    OBVIOUS
  <2> HIDE DEF p, m
  <2>5. /\ pieces \in Seq(PieceSet) /\ Len(pieces) = 1 /\ pieces[1] = p
    BY <2>2, <2>3
  <2>6. /\ b \in [0 .. 1 -> Nat] /\ b[0] = 0 /\ b[1] = m
    BY <2>1
  <2> HIDE DEF b, s
  <2>7. SubSeq(call.fmt, 0 + 1, m) = call.fmt
    <3>1. SubSeq(call.fmt, 1, m) = call.fmt
      BY <2>1, SubSeqFull
    <3> QED BY <3>1
  <2>8. PiecesAt(pieces, b)
    <3>1. ASSUME NEW k \in 1 .. 1
          PROVE  /\ b[k - 1] <= b[k] /\ pieces[k].args = b[k] - b[k - 1]
                 /\ pieces[k].fmt = SubSeq(call.fmt, b[k - 1] + 1, b[k])
      <4>1. k = 1 /\ k - 1 = 0
        OBVIOUS
      <4>2. 0 <= m /\ m = m - 0
        BY <2>1
      <4> QED BY <2>3, <2>5, <2>6, <2>7, <4>1, <4>2
    <3>2. 1 > 0
      OBVIOUS
    <3> QED BY <2>4, <2>5, <2>6, <3>1, <3>2 DEF PiecesAt
  <2>9. /\ s.next \in 1 .. N + 1 /\ s.next <= N /\ 1 .. Len(s.pieces) - 1 = {}
        /\ Len(s.pieces) - 1 = 0 /\ s.next - 1 = 0
    BY <2>1, <2>2, <2>4, <2>5
  <2>10. Last(s.pieces) = p
    BY <2>2, <2>5 DEF Last
  <2>11. Broken(s, b)
    BY <2>2, <2>3, <2>6, <2>8, <2>9, <2>10 DEF Broken
  <2> QED BY <2>11 DEF s
<1>5. BreakInv
  BY <1>1, <1>3, <1>4, Zenon DEF BreakInv
<1>6. IssuedInv
  <2>1. issued = [k \in 1 .. Len(issued) |-> issued[k]] /\ Len(issued) = 1
    BY <1>1
  <2>2. pc # "break" => PiecesPassable
    BY <1>3, Zenon DEF PiecesPassable
  <2>3. 1 \in Nat \ {0}
    OBVIOUS
  <2> QED BY <2>1, <2>2, <2>3, Zenon DEF IssuedInv
<1>7. ImportInv
  <2>1. DOMAIN funMap = {}
    BY <1>1
  <2> QED BY <2>1, FS_EmptySet DEF ImportInv
<1>8. RunInv /\ MadeInv /\ CalleeMeant
  <2>1. Len(issued) = 1
    BY <1>1
  <2> QED BY <1>1, <1>3, <2>1 DEF RunInv, MadeInv, CalleeMeant
<1> QED BY <1>1, <1>2, <1>3, <1>5, <1>6, <1>7, <1>8 DEF ExternalInv

LEMMA ExternalStep ==
    ASSUME ExternalInv, [Next]_vars
    PROVE  ExternalInv'
<1>0. /\ call \in Calls /\ GoodSource(call)
      /\ pc = "break" => Needed(call)
      /\ pc \in {"break", "import", "call", "direct", "icall", "host", "return", "done"}
      /\ BreakInv /\ IssuedInv /\ ImportInv /\ RunInv /\ MadeInv /\ CalleeMeant
  BY Zenon DEF ExternalInv
<1>a. pc # "break" => Len(issued) \in Nat \ {0} /\ DOMAIN issued = 1 .. Len(issued)
  BY <1>0, Zenon DEF IssuedInv
<1>b. pc' # "break" => BreakInv'
  BY Zenon DEF BreakInv
<1>c. ASSUME call' = call, issued' = issued, funMap' = funMap, funcByAddr' = funcByAddr,
             pc \in {"call", "direct", "icall", "host", "return"},
             pc' \in {"call", "direct", "icall", "host", "return", "done"},
             made' \in Nat, pc' # "done" => made' < Len(issued), CalleeMeant'
      PROVE  ExternalInv'
  <2>1. ImportInv' /\ BreakInv'
    BY <1>0, <1>b, <1>c, ImportKept
  <2>2. IssuedInv'
    BY <1>0, <1>c, IssuedKept
  <2>3. RunInv'
    BY <1>0, <1>c, RunKept
  <2>4. MadeInv'
    BY <1>c, Zenon DEF MadeInv
  <2>5. call' \in Calls /\ GoodSource(call')
    BY <1>0, <1>c, Zenon
  <2> QED BY <1>c, <2>1, <2>2, <2>3, <2>4, <2>5 DEF ExternalInv
<1>1. CASE BreakGroup
  <2>1. /\ pc = "break" /\ call' = call /\ funMap' = funMap /\ funcByAddr' = funcByAddr
        /\ made' = made
    BY <1>1, Zenon DEF BreakGroup, importVars, runVars
  <2>2. BreakInv' /\ pc' = "break"
    BY <1>0, <1>1, <2>1, BreakGroupKeeps
  <2>3. ImportInv'
    BY <1>0, <2>1, ImportKept
  <2>4. IssuedInv' /\ RunInv' /\ CalleeMeant'
    BY <2>2 DEF IssuedInv, RunInv, CalleeMeant
  <2>5. MadeInv'
    BY <1>0, <2>1, <2>2 DEF MadeInv
  <2>6. call' \in Calls /\ GoodSource(call') /\ Needed(call')
    BY <1>0, <2>1, Zenon
  <2> QED BY <2>2, <2>3, <2>4, <2>5, <2>6 DEF ExternalInv
<1>2. CASE IssueNewCalls
  <2>1. /\ pc = "break" /\ call' = call /\ funMap' = funMap /\ funcByAddr' = funcByAddr
        /\ made' = made
    BY <1>2, Zenon DEF IssueNewCalls, importVars, runVars
  <2>2. IssuedInv' /\ pc' = "import"
    BY <1>2, IssueNewCallsKeeps
  <2>3. ImportInv' /\ BreakInv'
    BY <1>0, <1>b, <2>1, <2>2, ImportKept
  <2>4. RunInv' /\ CalleeMeant'
    BY <2>2 DEF RunInv, CalleeMeant
  <2>5. MadeInv'
    <3>1. made = 0 /\ Len(issued') \in Nat \ {0}
      BY <1>0, <2>1, <2>2 DEF MadeInv, IssuedInv
    <3>2. \A n \in Nat \ {0} : 0 < n
      OBVIOUS
    <3>3. 0 \in Nat
      OBVIOUS
    <3> QED BY <2>1, <3>1, <3>2, <3>3, Zenon DEF MadeInv
  <2>6. call' \in Calls /\ GoodSource(call')
    BY <1>0, <2>1, Zenon
  <2> QED BY <2>2, <2>3, <2>4, <2>5, <2>6 DEF ExternalInv
<1>3. ASSUME NEW name \in Refers, Import(name) PROVE ExternalInv'
  <2>1. pc = "import" /\ pc' = pc /\ call' = call /\ issued' = issued /\ made' = made
    BY <1>3, Zenon DEF Import, runVars
  <2>2. ImportInv'
    BY <1>0, <1>3, ImportKeeps
  <2>3. IssuedInv' /\ BreakInv'
    BY <1>0, <1>b, <2>1, IssuedKept
  <2>4. RunInv' /\ CalleeMeant' /\ MadeInv'
    BY <1>0, <2>1 DEF RunInv, CalleeMeant, MadeInv
  <2>5. call' \in Calls /\ GoodSource(call')
    BY <1>0, <2>1, Zenon
  <2> QED BY <2>1, <2>2, <2>3, <2>4, <2>5 DEF ExternalInv
<1>4. CASE Run
  <2>1. /\ pc = "import" /\ pc' = "call" /\ call' = call /\ issued' = issued /\ made' = made
        /\ funMap' = funMap /\ funcByAddr' = funcByAddr
        /\ \A k \in DOMAIN issued : ExternalName(issued[k].fn) \in DOMAIN funMap
    BY <1>4, Zenon DEF Run, importVars, runVars
  <2>2. IssuedInv' /\ BreakInv' /\ ImportInv'
    BY <1>0, <1>b, <2>1, IssuedKept, ImportKept
  <2>3. RunInv'
    BY <1>a, <2>1, Zenon DEF RunInv
  <2>4. CalleeMeant' /\ MadeInv'
    BY <1>0, <2>1 DEF CalleeMeant, MadeInv
  <2>5. call' \in Calls /\ GoodSource(call')
    BY <1>0, <2>1, Zenon
  <2> QED BY <2>1, <2>2, <2>3, <2>4, <2>5 DEF ExternalInv
<1>5. CASE GuestCalls
  <2>1. /\ pc = "call" /\ pc' \in {"icall", "direct"} /\ call' = call /\ issued' = issued
        /\ made' = made /\ funMap' = funMap /\ funcByAddr' = funcByAddr
    BY <1>5, Zenon DEF GuestCalls, importVars
  <2>2. CalleeMeant'
    BY <2>1 DEF CalleeMeant
  <2>3. made \in Nat /\ made < Len(issued)
    BY <2>1, CurrentImported
  <2> QED BY <1>c, <2>1, <2>2, <2>3
<1>6. CASE CallExternal
  <2>1. /\ pc = "direct" /\ pc' = "host" /\ call' = call /\ issued' = issued
        /\ made' = made /\ funMap' = funMap /\ funcByAddr' = funcByAddr
        /\ callee' = ExternalName(Current.fn)
    BY <1>6, Zenon DEF CallExternal, importVars
  <2>2. CalleeMeant'
    BY <2>1, Zenon DEF CalleeMeant, Current
  <2>3. made \in Nat /\ made < Len(issued)
    BY <2>1, CurrentImported
  <2> QED BY <1>c, <2>1, <2>2, <2>3
<1>7. CASE CallICaller
  <2>1. /\ pc = "icall" /\ pc' = "host" /\ call' = call /\ issued' = issued
        /\ made' = made /\ funMap' = funMap /\ funcByAddr' = funcByAddr
        /\ callee' = funcByAddr[AddrOf(Current.fn)]
    BY <1>7, Zenon DEF CallICaller, importVars
  <2>2. /\ made \in Nat /\ made < Len(issued)
        /\ ExternalName(Current.fn) \in DOMAIN funMap
    BY <2>1, CurrentImported
  <2>3. callee' = ExternalName(Current.fn)
    <3>1. funcByAddr[funMap[ExternalName(Current.fn)]] = ExternalName(Current.fn)
      BY <1>0, <2>2, Zenon DEF ImportInv
    <3> QED BY <2>1, <3>1, Zenon DEF AddrOf
  <2>4. CalleeMeant'
    BY <2>1, <2>3, Zenon DEF CalleeMeant, Current
  <2> QED BY <1>c, <2>1, <2>2, <2>4
<1>8. CASE HostReturns
  <2>1. /\ pc = "host" /\ pc' = "return" /\ call' = call /\ issued' = issued
        /\ made' = made /\ funMap' = funMap /\ funcByAddr' = funcByAddr
    BY <1>8, Zenon DEF HostReturns, importVars
  <2>2. CalleeMeant'
    BY <2>1 DEF CalleeMeant
  <2>3. made \in Nat /\ made < Len(issued)
    BY <2>1, CurrentImported
  <2> QED BY <1>c, <2>1, <2>2, <2>3
<1>9. CASE GuestGetsResult
  <2>1. /\ pc = "return" /\ call' = call /\ issued' = issued /\ made' = made + 1
        /\ funMap' = funMap /\ funcByAddr' = funcByAddr
        /\ pc' = IF made' = Len(issued) THEN "done" ELSE "call"
    BY <1>9, Zenon DEF GuestGetsResult, importVars
  <2>2. pc' \in {"call", "done"} /\ CalleeMeant'
    BY <2>1 DEF CalleeMeant
  <2>3. made \in Nat /\ made < Len(issued) /\ Len(issued) \in Nat
    BY <2>1, CurrentImported
  <2>4. made' \in Nat /\ (made' # Len(issued) => made' < Len(issued))
    BY <2>1, <2>3
  <2>5. pc' # "done" => made' < Len(issued)
    BY <2>1, <2>4, Zenon
  <2> QED BY <1>c, <2>1, <2>2, <2>4, <2>5
<1>10. CASE UNCHANGED vars
  <2>1. /\ pc' = pc /\ call' = call /\ issued' = issued /\ made' = made
        /\ funMap' = funMap /\ funcByAddr' = funcByAddr /\ callee' = callee
        /\ i' = i /\ next' = next /\ pieces' = pieces
    BY <1>10, Zenon DEF vars, breakVars, importVars, runVars
  <2>2. BreakInv'
    <3>1. CASE pc = "break"
      <4>1. i = next /\ \E b : Broken([pieces |-> pieces, next |-> next, ok |-> TRUE], b)
        BY <1>0, <3>1, Zenon DEF BreakInv
      <4>2. PICK b : Broken([pieces |-> pieces', next |-> next', ok |-> TRUE], b)
        BY <2>1, <4>1, Zenon
      <4> QED BY <2>1, <4>1, <4>2, BreakInvNext
    <3>2. CASE pc # "break"
      BY <1>b, <2>1, <3>2
    <3> QED BY <3>1, <3>2
  <2>3. IssuedInv' /\ ImportInv'
    <3>1. pc # "break" => IssuedInv'
      BY <1>0, <2>1, IssuedKept
    <3>2. pc = "break" => IssuedInv'
      BY <2>1 DEF IssuedInv
    <3> QED BY <1>0, <2>1, <3>1, <3>2, ImportKept
  <2>4. RunInv' /\ MadeInv' /\ CalleeMeant'
    BY <1>0, <2>1, Zenon DEF RunInv, MadeInv, CalleeMeant, Current
  <2> QED BY <1>0, <2>1, <2>2, <2>3, <2>4, Zenon DEF ExternalInv
<1> QED BY <1>1, <1>2, <1>3, <1>4, <1>5, <1>6, <1>7, <1>8, <1>9, <1>10, Zenon DEF Next

-----------------------------------------------------------------------------
\* For every set of calls whose printfs have an argument for each conversion, of any
\* length and with doubles anywhere, and every order of imports.

LEMMA ExternalInvariant == Spec => []ExternalInv
<1>1. Init => ExternalInv
  BY ExternalInit
<1>2. ExternalInv /\ [Next]_vars => ExternalInv'
  BY ExternalStep
<1> QED BY <1>1, <1>2, PTL DEF Spec

\* Neither assertion of the printf-break pass fails: the format has a conversion
\* for every argument that is split off, and every argument goes to a call.
THEOREM BreakNeverFailsCorrect == Spec => []BreakNeverFails
<1>1. ExternalInv => BreakNeverFails
  BY DEF ExternalInv, BreakNeverFails
<1> QED BY <1>1, ExternalInvariant, PTL

\* Every round of the loop of breakPrintfCall gets further, and its index keeps in
\* step with _i.
THEOREM RoundsAdvanceCorrect == Spec => RoundsAdvance
<1>1. ExternalInv /\ [Next]_vars => [pc = "break" /\ pc' = "break" => i < i' /\ i' = next']_vars
  <2> SUFFICES ASSUME ExternalInv, Next, pc = "break", pc' = "break"
               PROVE  i < i' /\ i' = next'
    BY Zenon
  <2>1. GoodSource(call) /\ Needed(call) /\ BreakInv
    BY Zenon DEF ExternalInv
  <2>2. BreakGroup
    BY Zenon DEF Next, IssueNewCalls, Import, Run, GuestCalls, CallExternal, CallICaller,
                 HostReturns, GuestGetsResult
  <2> QED BY <2>1, <2>2, BreakGroupKeeps, Zenon
<1> QED BY <1>1, ExternalInvariant, PTL DEF Spec, RoundsAdvance

\* The calls that a printf is broken into can be passed by the translator, and each
\* has the arguments that its format asks for.
THEOREM PiecesPassableCorrect == Spec => []PiecesPassable
<1>1. ExternalInv => PiecesPassable
  BY Zenon DEF ExternalInv, IssuedInv, PiecesPassable
<1> QED BY <1>1, ExternalInvariant, PTL

\* The host calls the function that the guest refers to, by name or by address.
THEOREM CalleeMeantCorrect == Spec => []CalleeMeant
<1>1. ExternalInv => CalleeMeant
  BY DEF ExternalInv
<1> QED BY <1>1, ExternalInvariant, PTL

-----------------------------------------------------------------------------
(* The calls of the pieces can be passed.                                  *)

\* What a function that prints hears of a call: all arguments but the first.
LEMMA MeantPrintf ==
    ASSUME NEW c, c.fn \in {"printf", "sbt_printf_d"}, NEW S, c.args \in Seq(S),
           NEW n \in Nat, Len(c.args) = n + 1
    PROVE  MeantBy(c) \in Seq(S) /\ IsPart(MeantBy(c), c.args, 1, n + 1)
<1>1. ExternalName(c.fn) = c.fn
  BY DEF ExternalName, GoodLibrary
<1>2. Library[c.fn].fmt = 1
  <2>1. GoodSig(Library["printf"])
    BY LibraryAssumption DEF GoodLibrary
  <2>2. Library["printf"].params = <<"int">> /\ Library["printf"].vararg
        /\ Library["sbt_printf_d"].fmt = 1
    BY DEF GoodLibrary
  <2>3. Library["printf"].fmt = Len(Library["printf"].params)
    BY <2>1, <2>2, Zenon DEF GoodSig
  <2> QED BY <2>2, <2>3
<1>3. SubSeq(c.args, 1, 0) = << >>
  OBVIOUS
<1> DEFINE r == SubSeq(c.args, 2, n + 1)
<1>4. r \in Seq(S) /\ IsPart(r, c.args, 1, n + 1)
  <2>1. SubSeq(c.args, 1 + 1, n + 1) \in Seq(S)
        /\ IsPart(SubSeq(c.args, 1 + 1, n + 1), c.args, 1, n + 1)
    <3>1. 1 \in Nat /\ n + 1 \in Nat /\ 1 <= n + 1 /\ n + 1 <= Len(c.args)
      OBVIOUS
    <3> QED BY <3>1, PartIs
  <2>2. 1 + 1 = 2
    OBVIOUS
  <2> QED BY <2>1, <2>2
<1>5. MeantBy(c) = SubSeq(c.args, 1, 1 - 1) \o SubSeq(c.args, 1 + 1, Len(c.args))
  BY <1>1, <1>2, Zenon DEF MeantBy
<1>6. MeantBy(c) = << >> \o r
  BY <1>3, <1>5
<1> HIDE DEF r
<1>7. << >> \o r = r
  BY <1>4
<1> QED BY <1>4, <1>6, <1>7

\* No doubles: an argument has one word.
LEMMA WordsOfInts ==
    ASSUME NEW types, NEW k \in Nat, k > 0, \A j \in 1 .. k - 1 : types[j] # "double"
    PROVE  WordsBefore(types, k) = k - 1
<1>1. {j \in 1 .. k - 1 : types[j] = "double"} = {}
  OBVIOUS
<1>2. Cardinality({j \in 1 .. k - 1 : types[j] = "double"}) = 0
  BY <1>1, FS_EmptySet
<1> QED BY <1>2 DEF WordsBefore

\* A printf that the pass looks at.
PrintfCall == GoodSource(call) /\ ByName(call)

\* What an argument is made of.
GoodArg(arg) ==
    /\ arg.type \in Types
    /\ arg = [type |-> arg.type, value |-> [j \in 1 .. Size(arg.type) |-> arg.value[j]]]

\* The call of a piece has good arguments.
LEMMA PieceArgsGood ==
    ASSUME PrintfCall, NEW c, NEW lo, NEW hi, PieceShape(c, lo, hi)
    PROVE  GoodArgs(c)
<1>1. Len(call.args) = N + 1 /\ N \in Nat
  BY ByNameFacts DEF PrintfCall, Printf
<1>2. \A k \in 1 .. N + 1 : GoodArg(call.args[k])
  BY <1>1 DEF PrintfCall, GoodSource, GoodPrintf, GoodArgs, GoodArg
<1>3. /\ lo \in Nat /\ hi \in Nat /\ lo <= hi /\ hi <= N
      /\ Len(c.args) = hi - lo + 1 /\ c.args[1] = call.args[1]
      /\ \A n \in 1 .. hi - lo : c.args[n + 1] = call.args[1 + lo + n]
      /\ c.args \in Seq(Range(call.args))
  BY Zenon DEF PieceShape
<1>4. ASSUME NEW k \in 1 .. hi - lo + 1 PROVE GoodArg(c.args[k])
  <2>1. CASE k = 1
    <3>1. 1 \in 1 .. N + 1
      BY <1>1
    <3> QED BY <1>2, <1>3, <2>1, <3>1, Zenon
  <2>2. CASE k # 1
    <3>1. k - 1 \in 1 .. hi - lo /\ k - 1 + 1 = k /\ 1 + lo + (k - 1) \in 1 .. N + 1
      BY <1>1, <1>3, <2>2
    <3>2. c.args[k - 1 + 1] = call.args[1 + lo + (k - 1)]
      BY <1>3, <3>1, Zenon
    <3> QED BY <1>2, <3>1, <3>2, Zenon
  <2> QED BY <2>1, <2>2
<1>5. Len(c.args) \in Nat /\ c.args = [k \in 1 .. Len(c.args) |-> c.args[k]]
  BY <1>3, LenProperties
<1> QED BY <1>3, <1>4, <1>5, Zenon DEF GoodArgs, GoodArg

\* The translator can pass the call of a piece.
LEMMA PieceGood ==
    ASSUME PrintfCall, NEW c, NEW lo, NEW hi, PieceShape(c, lo, hi)
    PROVE  GoodCall(c)
<1>1. GoodArgs(c)
  BY PieceArgsGood
<1> DEFINE d == hi - lo
           types == ArgTypes(c)
           n == Len(c.args)
           fn == c.fn
<1>2. /\ d \in Nat /\ n = d + 1
      /\ \/ /\ fn = "sbt_printf_d" /\ d = 1
            /\ TypesOf(c.fmt) = <<"double">> /\ c.args[2].type = "double"
         \/ /\ fn = "printf" /\ d <= 4
            /\ TypesOf(c.fmt) = [k \in 1 .. d |-> c.args[k + 1].type]
            /\ \A k \in 1 .. d : c.args[k + 1].type = "int"
  BY DEF PieceShape
<1>3. ExternalName(fn) = fn /\ fn \in DOMAIN Library
  BY <1>2, LibraryAssumption DEF ExternalName, GoodLibrary
<1>4. c.args[1].type = "int"
  BY DEF PieceShape, PrintfCall, GoodSource, GoodPrintf
<1>5. types = [k \in 1 .. n |-> c.args[k].type]
  BY DEF ArgTypes
<1>6. \A k \in 1 .. d + 1 : types[k] = c.args[k].type
  BY <1>2, <1>5
<1>7. SubSeq(types, 2, n) = [k \in 1 .. d |-> c.args[k + 1].type]
  <2> DEFINE T == {c.args[k].type : k \in 1 .. d + 1}
             r == SubSeq(types, 1 + 1, d + 1)
  <2>0. \A k \in 1 .. d + 1 : c.args[k].type \in T
    OBVIOUS
  <2>1. types \in Seq(T) /\ Len(types) = d + 1
    <3> HIDE DEF T, d, types, n
    <3>1. [k \in 1 .. d + 1 |-> c.args[k].type] \in Seq(T)
          /\ Len([k \in 1 .. d + 1 |-> c.args[k].type]) = d + 1
      BY <1>2, <2>0
    <3> QED BY <1>2, <1>5, <3>1, Zenon
  <2> HIDE DEF T, types, d
  <2>2. r \in Seq(T) /\ IsPart(r, types, 1, d + 1)
    <3>1. 1 \in Nat /\ d + 1 \in Nat /\ 1 <= d + 1 /\ d + 1 <= Len(types)
      BY <1>2, <2>1
    <3> QED BY <2>1, <3>1, PartIs
  <2> HIDE DEF r
  <2>3. Len(r) = d /\ \A k \in 1 .. d : r[k] = types[1 + k]
    <3> DEFINE e == d + 1
    <3>1. IsPart(r, types, 1, e) /\ e - 1 = d
      BY <1>2, <2>2
    <3> HIDE DEF e
    <3>2. Len(r) = e - 1 /\ \A k \in 1 .. e - 1 : r[k] = types[1 + k]
      BY <3>1, Zenon DEF IsPart
    <3> QED BY <3>1, <3>2
  <2>4. Len(r) = d /\ \A k \in 1 .. d : r[k] = c.args[k + 1].type
    <3>1. \A k \in 1 .. d : 1 + k = k + 1 /\ k + 1 \in 1 .. d + 1
      BY <1>2
    <3> QED BY <1>6, <2>3, <3>1
  <2>5. r = [k \in 1 .. d |-> r[k]]
    BY <2>2, <2>4, LenProperties
  <2>6. r = [k \in 1 .. d |-> c.args[k + 1].type]
    BY <2>4, <2>5
  <2>7. n = d + 1 /\ 1 + 1 = 2
    BY <1>2
  <2> QED BY <2>6, <2>7 DEF r
<1>8. CASE fn = "printf"
  <2>1. Library[fn].params = <<"int">> /\ Library[fn].vararg /\ Library[fn].fmt = 1
    <3>1. GoodSig(Library[fn]) /\ Library[fn].params = <<"int">> /\ Library[fn].vararg
      BY <1>3, <1>8 DEF GoodLibrary
    <3>2. Library[fn].fmt = Len(Library[fn].params)
      BY <3>1, Zenon DEF GoodSig
    <3> QED BY <3>1, <3>2
  <2>2. SigOf(c) = Library[fn] /\ Fixed(c) = 1
    BY <1>3, <2>1 DEF SigOf, Fixed
  <2>3. d <= 4 /\ TypesOf(c.fmt) = SubSeq(types, 2, n)
    BY <1>2, <1>7, <1>8
  <2> HIDE DEF types, d, n
  <2>4. \A k \in 1 .. n : types[k] = "int"
    <3>1. \A k \in 1 .. d : c.args[k + 1].type = "int"
      BY <1>2, <1>8
    <3>2. \A k \in 1 .. n : k \in 1 .. d + 1 /\ (k = 1 \/ (k - 1 \in 1 .. d /\ k - 1 + 1 = k))
      BY <1>2
    <3>3. \A k \in 1 .. n : c.args[k].type = "int"
      <4> TAKE k \in 1 .. n
      <4>1. CASE k = 1
        BY <1>4, <4>1
      <4>2. CASE k - 1 \in 1 .. d /\ k - 1 + 1 = k
        <5>1. c.args[k - 1 + 1].type = "int"
          BY <3>1, <4>2
        <5> QED BY <4>2, <5>1
      <4> QED BY <3>2, <4>1, <4>2
    <3> QED BY <1>6, <3>2, <3>3, Zenon
  <2>5. WordsBefore(types, n + 1) = n
    <3>1. n + 1 \in Nat /\ n + 1 > 0 /\ n + 1 - 1 = n
      BY <1>2
    <3> DEFINE e == n + 1
    <3>2. e \in Nat /\ e > 0 /\ e - 1 = n
      BY <1>2
    <3> HIDE DEF e
    <3>3. \A j \in 1 .. e - 1 : types[j] # "double"
      BY <2>4, <3>2
    <3>4. WordsBefore(types, e) = e - 1
      BY <3>2, <3>3, WordsOfInts
    <3> QED BY <3>2, <3>4 DEF e
  <2>6. n <= TotalArgs(ExternalName(fn))
    <3>1. TotalArgs(fn) = Min({1 + 4, 8})
      BY <2>1 DEF TotalArgs, MaxArgs
    <3>2. Min({5, 8}) = IF 5 <= 8 THEN 5 ELSE 8
      BY MinOf
    <3>3. TotalArgs(fn) = 5
      BY <3>1, <3>2
    <3> QED BY <1>2, <1>3, <2>3, <3>3
  <2>7. \A k \in Fixed(c) + 1 .. n : types[k] # "double"
    <3>1. \A k \in 1 + 1 .. n : k \in 1 .. n
      OBVIOUS
    <3> QED BY <2>2, <2>4, <3>1
  <2>8. Fixed(c) <= n /\ \A k \in 1 .. Fixed(c) : types[k] = SigOf(c).params[k]
    <3>1. \A k \in 1 .. 1 : k = 1 /\ k \in 1 .. n
      BY <1>2
    <3> QED BY <1>2, <2>1, <2>2, <2>4, <3>1
  <2>9. SigOf(c).fmt + 1 = 2 /\ SigOf(c).vararg
    BY <2>1, <2>2
  <2> QED BY <1>1, <1>3, <2>3, <2>5, <2>6, <2>7, <2>8, <2>9, Zenon DEF GoodCall, types, n
<1>9. CASE fn = "sbt_printf_d"
  <2>1. Library[fn].params = <<"int", "double">> /\ ~Library[fn].vararg /\ Library[fn].fmt = 1
    BY <1>9 DEF GoodLibrary
  <2>2. SigOf(c) = Library[fn] /\ Fixed(c) = 2
    BY <1>3, <2>1 DEF SigOf, Fixed
  <2>3. d = 1 /\ c.args[2].type = "double" /\ TypesOf(c.fmt) = <<"double">>
    BY <1>2, <1>9
  <2>4. SubSeq(types, 2, n) = TypesOf(c.fmt)
    <3>1. SubSeq(types, 2, n) = [k \in 1 .. 1 |-> c.args[k + 1].type]
      BY <1>7, <2>3
    <3>2. \A k \in 1 .. 1 : c.args[k + 1].type = "double"
      BY <2>3
    <3>3. [k \in 1 .. 1 |-> c.args[k + 1].type] = [k \in 1 .. 1 |-> "double"]
      BY <3>2
    <3>4. [k \in 1 .. 1 |-> "double"] = <<"double">>
      OBVIOUS
    <3> QED BY <2>3, <3>1, <3>3, <3>4
  <2> HIDE DEF types, d, n
  <2>5. n = 2 /\ types[1] = "int" /\ types[2] = "double"
    BY <1>2, <1>4, <1>6, <2>3
  <2>6. \A k \in 1 .. Fixed(c) : types[k] = SigOf(c).params[k]
    <3>1. \A k \in 1 .. 2 : k = 1 \/ k = 2
      OBVIOUS
    <3> QED BY <2>1, <2>2, <2>5, <3>1
  <2>7. SigOf(c).fmt + 1 = 2 /\ ~SigOf(c).vararg /\ Fixed(c) <= n /\ n = Fixed(c)
    BY <2>1, <2>2, <2>5
  <2> QED BY <1>1, <1>3, <2>4, <2>6, <2>7, Zenon DEF GoodCall, types, n
<1> QED BY <1>2, <1>8, <1>9

\* The pass leaves only calls alone that can be passed as they are.
LEMMA SourceGood ==
    ASSUME GoodSource(call), ~Needed(call)
    PROVE  GoodCall(call)
<1>1. CASE ~ByName(call)
  BY <1>1 DEF GoodSource
<1>2. CASE ByName(call)
  <2>1. /\ call.fmt \in Seq(Convs) /\ N \in Nat /\ N = Len(call.fmt)
        /\ \A k \in 1 .. N : IsDouble(k) <=> call.fmt[k] = "%f"
        /\ call.args \in Seq(Range(call.args)) /\ Len(call.args) = N + 1
        /\ \A k \in 1 .. N : call.args[k + 1].type = TypeOf(call.fmt[k])
    BY <1>2, ByNameFacts DEF Printf
  <2>2. N <= 4 /\ \A k \in 2 .. N + 1 : call.args[k].type # "double"
    <3>1. ~ (Len(call.args) - 1 >= 5)
          /\ \A k \in 2 .. Len(call.args) : call.args[k].type # "double"
      BY <1>2 DEF Needed
    <3> QED BY <2>1, <3>1
  <2>3. \A k \in 1 .. N : call.args[k + 1].type = "int"
    <3>1. \A k \in 1 .. N : k + 1 \in 2 .. N + 1
      BY <2>1
    <3> QED BY <2>1, <2>2, <3>1 DEF TypeOf
  <2>4. TypesOf(call.fmt) = [k \in 1 .. N |-> call.args[k + 1].type]
    <3>1. TypesOf(call.fmt) = [k \in 1 .. N |-> TypeOf(call.fmt[k])]
      BY <2>1, TypesOfEach
    <3> QED BY <2>1, <3>1
  <2>5. PieceShape(call, 0, N)
    <3>1. \A k \in 1 .. N : call.args[k + 1] = call.args[1 + 0 + k]
      <4>1. \A k \in 1 .. N : k + 1 = 1 + 0 + k
        BY <2>1
      <4> QED BY <4>1
    <3>2. 0 \in Nat /\ 0 <= N /\ N <= N /\ N - 0 = N
      BY <2>1
    <3>3. call.fn = "printf" /\ ~call.ptr
      BY <1>2 DEF ByName
    <3> QED BY <2>1, <2>2, <2>3, <2>4, <3>1, <3>2, <3>3 DEF PieceShape
  <2> QED BY <1>2, <2>5, PieceGood DEF PrintfCall
<1> QED BY <1>1, <1>2

\* Its arguments are those of the printf from the lo-th on, and its result counts them.
LEMMA PieceMeant ==
    ASSUME PrintfCall, NEW c, NEW lo, NEW hi, PieceShape(c, lo, hi)
    PROVE  /\ MeantBy(c) = SubSeq(MeantBy(call), lo + 1, hi)
           /\ \E S : MeantBy(call) \in Seq(S)
           /\ Len(MeantBy(call)) = N
           /\ ResultOf(c) = <<Word(hi - lo, "printed")>>
<1> DEFINE d == hi - lo
           S == Range(call.args)
           m == MeantBy(call)
           r == MeantBy(c)
           t == SubSeq(m, lo + 1, hi)
<1>1. /\ N \in Nat /\ call.args \in Seq(S) /\ Len(call.args) = N + 1 /\ call.fn = "printf"
  BY ByNameFacts DEF PrintfCall, Printf, ByName
<1>2. /\ lo \in Nat /\ hi \in Nat /\ lo <= hi /\ hi <= N /\ d \in Nat /\ Len(c.fmt) = d
      /\ c.args \in Seq(S) /\ Len(c.args) = d + 1
      /\ \A n \in 1 .. d : c.args[n + 1] = call.args[1 + lo + n]
      /\ c.fn \in {"printf", "sbt_printf_d"}
  BY DEF PieceShape
<1> HIDE DEF d, S, m, r, t
<1>3. m \in Seq(S) /\ IsPart(m, call.args, 1, N + 1)
  BY <1>1, MeantPrintf DEF m
<1>4. r \in Seq(S) /\ IsPart(r, c.args, 1, d + 1)
  BY <1>2, MeantPrintf DEF r
<1>5. Len(m) = N /\ \A k \in 1 .. N : m[k] = call.args[1 + k]
  <2> DEFINE e == N + 1
  <2>2. e - 1 = N
    BY <1>1
  <2> HIDE DEF e
  <2>1. Len(m) = e - 1 /\ \A k \in 1 .. e - 1 : m[k] = call.args[1 + k]
    <3>1. IsPart(m, call.args, 1, e)
      BY <1>3 DEF e
    <3> QED BY <3>1, Zenon DEF IsPart
  <2> QED BY <2>1, <2>2
<1>6. Len(r) = d /\ \A k \in 1 .. d : r[k] = c.args[1 + k]
  <2> DEFINE e == d + 1
  <2>2. e - 1 = d
    BY <1>2
  <2> HIDE DEF e
  <2>1. Len(r) = e - 1 /\ \A k \in 1 .. e - 1 : r[k] = c.args[1 + k]
    <3>1. IsPart(r, c.args, 1, e)
      BY <1>4 DEF e
    <3> QED BY <3>1, Zenon DEF IsPart
  <2> QED BY <2>1, <2>2
<1>7. t \in Seq(S) /\ Len(t) = d /\ \A k \in 1 .. d : t[k] = m[lo + k]
  <2>1. SubSeq(m, lo + 1, hi) \in Seq(S) /\ IsPart(SubSeq(m, lo + 1, hi), m, lo, hi)
    <3>1. hi <= Len(m)
      BY <1>2, <1>5
    <3> QED BY <1>2, <1>3, <3>1, PartIs
  <2> QED BY <2>1, Zenon DEF IsPart, t, d
<1>8. ASSUME NEW k \in 1 .. d PROVE r[k] = t[k]
  <2>1. lo + k \in 1 .. N /\ 1 + (lo + k) = 1 + lo + k /\ 1 + k = k + 1
    BY <1>1, <1>2 DEF d
  <2>2. r[k] = c.args[k + 1] /\ t[k] = call.args[1 + lo + k]
    BY <1>5, <1>6, <1>7, <2>1
  <2> QED BY <1>2, <2>2
<1>9. r = t
  <2>1. r = [k \in 1 .. d |-> r[k]] /\ t = [k \in 1 .. d |-> t[k]]
    BY <1>4, <1>6, <1>7, LenProperties
  <2> QED BY <1>8, <2>1
<1>10. ResultOf(c) = <<Word(d, "printed")>>
  <2>1. ExternalName(c.fn) = c.fn /\ GoodSig(Library["printf"])
    BY <1>2, LibraryAssumption DEF ExternalName, GoodLibrary
  <2>2. Library["printf"].vararg /\ Library["sbt_printf_d"].fmt = 1
    BY DEF GoodLibrary
  <2>3. Library["printf"].fmt > 0
    BY <2>1, <2>2, Zenon DEF GoodSig
  <2>4. Library[c.fn].fmt > 0
    BY <1>2, <2>2, <2>3
  <2> QED BY <1>2, <2>1, <2>4 DEF ResultOf, Result
<1> QED BY <1>3, <1>5, <1>9, <1>10 DEF m, r, t, d

-----------------------------------------------------------------------------
(* What holds while a call is made.                                        *)

\* The placement depends on the ABI only.
LEMMA PlacedKept ==
    ASSUME NEW c, hf' = hf
    PROVE  Placed(c)' = Placed(c)
<1>1. \A t : InFReg(t)' <=> InFReg(t)
  BY Zenon DEF InFReg
<1>2. \A r, a, n : Place(r, a, n)' = Place(r, a, n)
  BY <1>1, Zenon DEF Place
<1> DEFINE fixed == Fixed(c)
           m == Len(c.args)
           b == [x |-> << >>, f |-> << >>]
           F(p) == [k \in 0 .. m |-> IF k = 0 THEN b ELSE Place(p[k - 1], c.args[k], k <= fixed)]
           G(p) == [k \in 0 .. m |-> IF k = 0 THEN b
                                     ELSE Place(p[k - 1], c.args[k], k <= fixed)']
<1>3. Placing(c) = CHOOSE p : p = F(p)
  BY Zenon DEF Placing, Fixed, SigOf
<1>4. Placing(c)' = CHOOSE p : p = G(p)
  BY Zenon DEF Placing, Fixed, SigOf
<1>5. \A p : F(p) = G(p)
  BY <1>2, Zenon
<1>6. Placing(c)' = Placing(c)
  <2> HIDE DEF F, G
  <2> QED BY <1>3, <1>4, <1>5, Zenon
<1> QED BY <1>6, Zenon DEF Placed

\* Call k of those issued passes the arguments behind the b[k-1]-th up to the b[k]-th.
CallAt(b, k) ==
    /\ b[k - 1] <= b[k] /\ b[k] <= Len(MeantBy(call))
    /\ GoodCall(issued[k]) /\ (issued[k].ptr => ~hf)
    /\ MeantBy(issued[k]) = SubSeq(MeantBy(call), b[k - 1] + 1, b[k])

\* One call has the result of the source's; more have results that add up to it.
ResultsAt(b) ==
    \/ Len(issued) = 1 /\ ResultOf(issued[1]) = ResultOf(call)
    \/ /\ ResultOf(call) = <<Word(b[Len(issued)], "printed")>>
       /\ \A k \in 1 .. Len(issued) : ResultOf(issued[k]) = <<Word(b[k] - b[k - 1], "printed")>>

CallsAt(b) ==
    /\ Len(issued) \in Nat \ {0} /\ b \in [0 .. Len(issued) -> Nat]
    /\ b[0] = 0 /\ b[Len(issued)] = Len(MeantBy(call))
    /\ \A k \in 1 .. Len(issued) : CallAt(b, k)
    /\ ResultsAt(b)

\* The library has heard the arguments of the calls that were made, and the program
\* got their results.
HeardAt == IF pc = "return" THEN made + 1 ELSE made

Progress(b) ==
    /\ heard = SubSeq(MeantBy(call), 1, b[HeardAt])
    /\ made > 0 => returned = IF made = Len(issued) THEN ResultOf(call)
                                                   ELSE <<Word(b[made], "printed")>>
    /\ pc = "done" => made = Len(issued)

\* The call that is being made.
OneCall ==
    /\ pc \in {"direct", "icall", "host"} => regs = Placed(Current)
    /\ pc = "icall" => Current.ptr
    /\ pc = "host" => Hears(callee, Current.fmt, passed) = MeantBy(Current)
    /\ pc = "return" => GuestResult(SigOf(Current).ret) = ResultOf(Current)

PassingInv ==
    /\ hf \in BOOLEAN /\ (call.ptr => ~hf) /\ GoodSource(call)
    /\ \E S : MeantBy(call) \in Seq(S)
    /\ pc = "break" => heard = << >>
    /\ pc # "break" => \E b : CallsAt(b) /\ Progress(b)
    /\ OneCall

\* The arguments that a call means are a sequence.
LEMMA MeantSeq ==
    ASSUME NEW c, GoodCall(c)
    PROVE  \E S : MeantBy(c) \in Seq(S)
<1>1. PICK S : c.args \in Seq(S)
  BY ArgsSeq DEF GoodCall
<1> DEFINE at == Library[ExternalName(c.fn)].fmt
           n == Len(c.args)
<1>3. n \in Nat /\ \A k \in 1 .. n : c.args[k] \in S
  BY <1>1, LenProperties, ElementOfSeq
<1>2. at \in Nat /\ at <= n
  <2>1. GoodSig(SigOf(c)) /\ Fixed(c) <= n
    BY Zenon DEF GoodLibrary, GoodCall, SigOf
  <2>2. Fixed(c) \in Nat /\ SigOf(c).fmt \in 0 .. Fixed(c)
    BY <2>1, LenProperties DEF GoodSig, Fixed
  <2>3. at = SigOf(c).fmt
    BY DEF SigOf
  <2> HIDE DEF at, n
  <2> QED BY <1>3, <2>1, <2>2, <2>3
<1> HIDE DEF at
<1>4. SubSeq(c.args, at + 1, n) \in Seq(S)
  <2>1. \A k \in at + 1 .. n : c.args[k] \in S
    BY <1>2, <1>3
  <2> QED BY <1>1, <1>2, <1>3, <2>1, SubSeqProperties
<1>5. SubSeq(c.args, 1, at - 1) \in Seq(S)
  <2>1. \A k \in 1 .. at - 1 : c.args[k] \in S
    BY <1>2, <1>3
  <2>2. 1 \in Int /\ at - 1 \in Int
    BY <1>2
  <2> QED BY <2>1, <2>2, SubSeqProperties
<1> DEFINE x == SubSeq(c.args, 1, at - 1)
           y == SubSeq(c.args, at + 1, n)
<1>6. x \in Seq(S) /\ y \in Seq(S) /\ MeantBy(c) = x \o y
  BY <1>4, <1>5, Zenon DEF MeantBy, at, n
<1> HIDE DEF x, y, n
<1>7. x \o y \in Seq(S)
  BY <1>6, ConcatProperties
<1> QED BY <1>6, <1>7

LEMMA MeantSource ==
    ASSUME GoodSource(call)
    PROVE  \E S : MeantBy(call) \in Seq(S)
<1>1. CASE Needed(call)
  <2> DEFINE S == Range(call.args)
  <2>1. N \in Nat /\ call.args \in Seq(S) /\ Len(call.args) = N + 1 /\ call.fn = "printf"
    BY <1>1, PrintfFacts DEF Printf, Needed, ByName
  <2> HIDE DEF S
  <2>2. MeantBy(call) \in Seq(S)
    BY <2>1, MeantPrintf
  <2> QED BY <2>2
<1>2. CASE ~Needed(call)
  BY <1>2, SourceGood, MeantSeq
<1> QED BY <1>1, <1>2

LEMMA PassingInit ==
    ASSUME Init
    PROVE  PassingInv
<1>1. /\ call \in Calls /\ hf \in BOOLEAN /\ (call.ptr => ~hf) /\ issued = <<call>>
      /\ pc = (IF Needed(call) THEN "break" ELSE "import") /\ heard = << >> /\ made = 0
  BY Zenon DEF Init
<1>2. GoodSource(call)
  BY <1>1, CallsAssumption, Zenon
<1>3. PICK S : MeantBy(call) \in Seq(S)
  BY <1>2, MeantSource
<1>4. pc \in {"break", "import"} /\ (pc # "break" => ~Needed(call))
  BY <1>1
<1>5. OneCall
  BY <1>4 DEF OneCall
<1>6. ASSUME ~Needed(call) PROVE \E b : CallsAt(b) /\ Progress(b)
  <2> DEFINE m == MeantBy(call)
             n == Len(m)
             b == [k \in 0 .. 1 |-> IF k = 0 THEN 0 ELSE n]
  <2>1. Len(issued) = 1 /\ issued[1] = call
    BY <1>1
  <2>2. n \in Nat
    BY <1>3, LenProperties
  <2> HIDE DEF m
  <2>3. b \in [0 .. 1 -> Nat] /\ b[0] = 0 /\ b[1] = n
    BY <2>2
  <2>4. SubSeq(m, 1, n) = m
    BY <1>3, SubSeqFull DEF m
  <2>5. SubSeq(m, 1, 0) = << >>
    OBVIOUS
  <2> HIDE DEF b, n
  <2>6. CallAt(b, 1)
    <3>1. b[1 - 1] = 0 /\ b[1 - 1] + 1 = 1 /\ 0 <= n /\ n <= n
      BY <2>2, <2>3
    <3>2. GoodCall(call) /\ (call.ptr => ~hf)
      BY <1>1, <1>2, <1>6, SourceGood
    <3>3. b[1 - 1] <= b[1] /\ b[1] <= n
      BY <2>3, <3>1
    <3>4. MeantBy(call) = SubSeq(m, b[1 - 1] + 1, b[1])
      BY <2>3, <2>4, <3>1 DEF m
    <3> QED BY <2>1, <3>2, <3>3, <3>4 DEF CallAt, m, n
  <2>7. ResultsAt(b)
    BY <2>1 DEF ResultsAt
  <2>8. CallsAt(b)
    <3>1. \A k \in 1 .. 1 : k = 1
      OBVIOUS
    <3>2. 1 \in Nat \ {0}
      OBVIOUS
    <3> QED BY <2>1, <2>3, <2>6, <2>7, <3>1, <3>2 DEF CallsAt, n, m
  <2>9. Progress(b)
    <3>1. HeardAt = 0 /\ pc # "done" /\ ~ (made > 0)
      BY <1>1, <1>4 DEF HeardAt
    <3> QED BY <1>1, <2>3, <2>5, <3>1 DEF Progress, m
  <2> QED BY <2>8, <2>9
<1> QED BY <1>1, <1>2, <1>3, <1>4, <1>5, <1>6 DEF PassingInv

\* Steps of other parts leave the progress of the calls alone.
LEMMA PassingKept ==
    ASSUME PassingInv, pc # "break", OneCall', pc' # "break",
           hf' = hf, call' = call, issued' = issued, made' = made, heard' = heard,
           returned' = returned,
           pc' = pc \/ (pc # "return" /\ pc' # "return" /\ pc' # "done")
    PROVE  PassingInv'
<1>1. PICK b : CallsAt(b) /\ Progress(b)
  BY Zenon DEF PassingInv
<1>2. HeardAt' = HeardAt
  BY Zenon DEF HeardAt
<1>3. CallsAt(b)'
  <2>1. \A k : CallAt(b, k) => CallAt(b, k)'
    BY Zenon DEF CallAt
  <2>2. ResultsAt(b)'
    BY <1>1, Zenon DEF CallsAt, ResultsAt
  <2> QED BY <1>1, <2>1, <2>2, Zenon DEF CallsAt
<1>4. Progress(b)'
  BY <1>1, <1>2, Zenon DEF Progress
<1>5. \E S : MeantBy(call') \in Seq(S)
  BY Zenon DEF PassingInv
<1> QED BY <1>3, <1>4, <1>5, Zenon DEF PassingInv

-----------------------------------------------------------------------------
(* The calls are issued and made.                                          *)

\* The pass issues the calls of the pieces.
LEMMA IssuePassing ==
    ASSUME ExternalInv, PassingInv, IssueNewCalls
    PROVE  PassingInv'
<1> DEFINE L == Len(pieces)
           m == MeantBy(call)
<1>1. /\ pc = "break" /\ call' = call /\ hf' = hf /\ heard' = heard /\ made' = made
  BY Zenon DEF IssueNewCalls, runVars
<1>2. /\ GoodSource(call) /\ Needed(call) /\ heard = << >> /\ made = 0
      /\ hf \in BOOLEAN /\ (call.ptr => ~hf) /\ \E S : m \in Seq(S)
  BY <1>1, Zenon DEF ExternalInv, PassingInv, MadeInv
<1>3. PICK b : /\ PiecesAt(pieces, b) /\ \A k \in 1 .. L : Passable(pieces, b, k)
               /\ issued' = [k \in 1 .. L |-> PieceCall(k)] /\ pc' = "import"
  BY PiecesIssued
<1>4. PrintfCall
  BY <1>2, Zenon DEF PrintfCall, Needed
<1>5. L \in Nat /\ L > 0 /\ b \in [0 .. L -> Nat] /\ b[0] = 0 /\ b[L] = N
  BY <1>3, LenProperties DEF PiecesAt
<1>6. Len(issued') = L /\ \A k \in 1 .. L : issued'[k] = PieceCall(k)
  <2> HIDE DEF L
  <2> QED BY <1>3, <1>5
<1>7. \A k \in 1 .. L : PieceShape(issued'[k], b[k - 1], b[k])
  <2>1. \A k \in 1 .. L : \A c : c = PieceCall(k) => PieceShape(c, b[k - 1], b[k])
    BY <1>2, <1>3, PieceCallPassable
  <2> QED BY <1>6, <2>1, Zenon
<1> HIDE DEF L, m
<1>8. ASSUME NEW k \in 1 .. L
      PROVE  /\ b[k - 1] <= b[k] /\ b[k] <= Len(m) /\ Len(m) = N
             /\ GoodCall(issued'[k]) /\ ~issued'[k].ptr
             /\ MeantBy(issued'[k]) = SubSeq(m, b[k - 1] + 1, b[k])
             /\ ResultOf(issued'[k]) = <<Word(b[k] - b[k - 1], "printed")>>
  <2>1. PICK c, lo, hi : c = issued'[k] /\ lo = b[k - 1] /\ hi = b[k]
    OBVIOUS
  <2>2. PieceShape(c, lo, hi)
    BY <1>7, <2>1
  <2>3. GoodCall(c)
    BY <1>4, <2>2, PieceGood
  <2>4. /\ MeantBy(c) = SubSeq(MeantBy(call), lo + 1, hi) /\ Len(MeantBy(call)) = N
        /\ ResultOf(c) = <<Word(hi - lo, "printed")>>
    BY <1>4, <2>2, PieceMeant
  <2>5. lo <= hi /\ hi <= N /\ ~c.ptr
    BY <2>2, Zenon DEF PieceShape
  <2> QED BY <2>1, <2>3, <2>4, <2>5 DEF m
<1>9. Len(m) = N /\ ResultOf(call) = <<Word(N, "printed")>>
  <2>1. 1 \in 1 .. L
    BY <1>5
  <2>2. Len(m) = N
    BY <1>8, <2>1
  <2>3. call.fn = "printf" /\ N = Len(call.fmt)
    BY <1>2, PrintfFacts DEF Printf, Needed, ByName
  <2>4. ExternalName(call.fn) = "printf" /\ GoodSig(Library["printf"])
    BY <2>3, LibraryAssumption DEF ExternalName, GoodLibrary
  <2>5. Library["printf"].fmt > 0
    <3>1. Library["printf"].vararg
      BY DEF GoodLibrary
    <3> QED BY <2>4, <3>1, Zenon DEF GoodSig
  <2> QED BY <2>2, <2>3, <2>4, <2>5 DEF ResultOf, Result
<1>10. CallsAt(b)'
  <2>1. ASSUME NEW k \in 1 .. L PROVE CallAt(b, k)'
    <3>1. /\ b[k - 1] <= b[k] /\ b[k] <= Len(MeantBy(call'))
          /\ GoodCall(issued'[k]) /\ ~issued'[k].ptr
          /\ MeantBy(issued'[k]) = SubSeq(MeantBy(call'), b[k - 1] + 1, b[k])
      BY <1>1, <1>8, Zenon DEF m
    <3> QED BY <3>1, Zenon DEF CallAt
  <2>2. ResultsAt(b)'
    <3>1. ResultOf(call') = <<Word(b[Len(issued')], "printed")>>
      BY <1>1, <1>5, <1>6, <1>9
    <3>2. \A k \in 1 .. Len(issued') :
             ResultOf(issued'[k]) = <<Word(b[k] - b[k - 1], "printed")>>
      BY <1>6, <1>8
    <3> QED BY <3>1, <3>2, Zenon DEF ResultsAt
  <2>3. L \in Nat \ {0}
    BY <1>5
  <2>4. b[Len(issued')] = Len(MeantBy(call'))
    BY <1>1, <1>5, <1>6, <1>9 DEF m
  <2> QED BY <1>5, <1>6, <2>1, <2>2, <2>3, <2>4, Zenon DEF CallsAt
<1>11. Progress(b)'
  <2>1. HeardAt' = 0 /\ ~ (made' > 0) /\ pc' # "done"
    BY <1>1, <1>2, <1>3 DEF HeardAt
  <2>2. heard' = << >>
    BY <1>1, <1>2
  <2>3. SubSeq(MeantBy(call'), 1, 0) = << >>
    OBVIOUS
  <2>4. heard' = SubSeq(MeantBy(call'), 1, b[HeardAt'])
    BY <1>5, <2>1, <2>2, <2>3
  <2> QED BY <2>1, <2>4, Zenon DEF Progress
<1>12. OneCall'
  BY <1>3 DEF OneCall
<1> QED BY <1>1, <1>2, <1>3, <1>10, <1>11, <1>12, Zenon DEF PassingInv, m

\* The call that is made is one of those issued.
LEMMA CurrentCall ==
    ASSUME ExternalInv, PassingInv, NEW b, CallsAt(b),
           pc \in {"call", "direct", "icall", "host", "return"}
    PROVE  /\ made \in Nat /\ made + 1 \in 1 .. Len(issued) /\ Len(issued) \in Nat
           /\ made \in 0 .. Len(issued) /\ made + 1 - 1 = made
           /\ GoodCall(Current) /\ (Current.ptr => ~hf)
           /\ MeantBy(Current) = SubSeq(MeantBy(call), b[made] + 1, b[made + 1])
           /\ b[made] \in Nat /\ b[made + 1] \in Nat /\ b[made] <= b[made + 1]
           /\ b[made + 1] <= Len(MeantBy(call))
<1>1. made \in Nat /\ made < Len(issued) /\ Len(issued) \in Nat
  BY CurrentImported
<1>2. made + 1 \in 1 .. Len(issued) /\ made \in 0 .. Len(issued) /\ made + 1 \in 0 .. Len(issued)
      /\ made + 1 - 1 = made
  BY <1>1
<1>3. CallAt(b, made + 1) /\ b \in [0 .. Len(issued) -> Nat]
  BY <1>2, Zenon DEF CallsAt
<1>4. b[made] \in Nat /\ b[made + 1] \in Nat
  BY <1>2, <1>3
<1>5. /\ b[made] <= b[made + 1] /\ b[made + 1] <= Len(MeantBy(call))
      /\ GoodCall(issued[made + 1]) /\ (issued[made + 1].ptr => ~hf)
      /\ MeantBy(issued[made + 1]) = SubSeq(MeantBy(call), b[made] + 1, b[made + 1])
  BY <1>2, <1>3 DEF CallAt
<1> QED BY <1>1, <1>2, <1>4, <1>5 DEF Current

\* The Caller passes what is meant, on either path.
LEMMA CallerPassing ==
    ASSUME ExternalInv, PassingInv, ExternalInv', CallExternal \/ CallICaller
    PROVE  PassingInv'
<1>1. /\ pc \in {"direct", "icall"} /\ pc' = "host"
      /\ hf' = hf /\ call' = call /\ issued' = issued /\ made' = made /\ heard' = heard
      /\ returned' = returned /\ regs' = regs
  BY Zenon DEF CallExternal, CallICaller
<1>2. PICK b : CallsAt(b)
  BY <1>1, Zenon DEF PassingInv
<1>3. PICK c : c = Current
  OBVIOUS
<1>4. GoodCall(c) /\ (c.ptr => ~hf)
  BY <1>1, <1>2, <1>3, CurrentCall
<1>5. regs = Placed(c)
  BY <1>1, <1>3, Zenon DEF PassingInv, OneCall
<1>6. Current' = c /\ callee' = ExternalName(c.fn)
  <2>1. Current' = c
    BY <1>1, <1>3, Zenon DEF Current
  <2> QED BY <1>1, <2>1, Zenon DEF ExternalInv, CalleeMeant
<1>7. PICK fn, words : fn = ExternalName(c.fn) /\ passed' = CallerArgs(fn, words)
                       /\ WordsEnough(fn, words)
  <2>1. CASE CallExternal
    <3>1. passed' = CallerArgs(callee', 2 * MaxArgs)
      BY <2>1, Zenon DEF CallExternal
    <3>2. WordsEnough(callee', 2 * MaxArgs)
      BY DEF WordsEnough
    <3> QED BY <1>6, <3>1, <3>2
  <2>2. CASE CallICaller
    <3>1. passed' = CallerArgs(callee', WordArgs(callee')) /\ pc = "icall"
      BY <2>2, Zenon DEF CallICaller
    <3>2. ~hf
      BY <1>3, <1>4, <3>1, Zenon DEF PassingInv, OneCall
    <3>3. passed' = CallerArgs(ExternalName(c.fn), WordArgs(ExternalName(c.fn)))
      BY <1>6, <3>1
    <3>4. WordsEnough(ExternalName(c.fn), WordArgs(ExternalName(c.fn)))
      BY <3>2 DEF WordsEnough
    <3> QED BY <3>3, <3>4
  <2> QED BY <2>1, <2>2
<1>8. Hears(fn, c.fmt, CallerArgs(fn, words)) = MeantBy(c)
  BY <1>4, <1>5, <1>7, CallHeard
<1>9. OneCall'
  <2>1. regs' = Placed(Current)'
    <3>1. Placed(c)' = Placed(c)
      BY <1>1, PlacedKept
    <3>2. Placed(Current)' = Placed(c)'
      BY <1>6
    <3> QED BY <1>1, <1>5, <3>1, <3>2
  <2>2. Hears(callee', Current'.fmt, passed') = MeantBy(Current')
    BY <1>6, <1>7, <1>8
  <2> QED BY <1>1, <2>1, <2>2, Zenon DEF OneCall
<1> QED BY <1>1, <1>9, PassingKept

LEMMA GuestCallsPassing ==
    ASSUME PassingInv, GuestCalls
    PROVE  PassingInv'
<1>1. /\ pc = "call" /\ pc' = (IF Current.ptr THEN "icall" ELSE "direct") /\ regs' = Placed(Current)
      /\ hf' = hf /\ call' = call /\ issued' = issued /\ made' = made /\ heard' = heard
      /\ returned' = returned
  BY Zenon DEF GuestCalls
<1>2. PICK c : c = Current
  OBVIOUS
<1>3. Current' = c
  BY <1>1, <1>2, Zenon DEF Current
<1>4. regs' = Placed(Current)'
  <2>1. Placed(c)' = Placed(c)
    BY <1>1, PlacedKept
  <2>2. Placed(Current)' = Placed(c)'
    BY <1>3
  <2> QED BY <1>1, <1>2, <2>1, <2>2
<1>5. OneCall'
  BY <1>1, <1>2, <1>3, <1>4 DEF OneCall
<1> QED BY <1>1, <1>5, PassingKept

-----------------------------------------------------------------------------
(* The library has heard more, and the program gets a result.              *)

\* The arguments of the call follow those that were heard.
LEMMA HostHears ==
    ASSUME ExternalInv, PassingInv, HostReturns, NEW b, CallsAt(b), Progress(b)
    PROVE  heard' = SubSeq(MeantBy(call), 1, b[made + 1])
<1> DEFINE m == MeantBy(call)
<1>1. pc = "host" /\ heard' = heard \o Hears(callee, Current.fmt, passed)
  BY Zenon DEF HostReturns
<1>2. Hears(callee, Current.fmt, passed) = MeantBy(Current)
  BY <1>1, Zenon DEF PassingInv, OneCall
<1>3. /\ MeantBy(Current) = SubSeq(m, b[made] + 1, b[made + 1])
      /\ b[made] \in Nat /\ b[made + 1] \in Nat /\ b[made] <= b[made + 1]
      /\ b[made + 1] <= Len(m)
  BY <1>1, CurrentCall
<1>4. HeardAt = made
  BY <1>1 DEF HeardAt
<1>5. heard = SubSeq(m, 1, b[made])
  BY <1>4, Zenon DEF Progress
<1>6. PICK S : m \in Seq(S)
  BY Zenon DEF PassingInv
<1> HIDE DEF m
<1>7. SubSeq(m, 1, b[made]) \o SubSeq(m, b[made] + 1, b[made + 1]) = SubSeq(m, 1, b[made + 1])
  BY <1>3, <1>6, PartsMeet
<1> QED BY <1>1, <1>2, <1>3, <1>5, <1>7 DEF m

\* The calls stay the same.
LEMMA CallsKept ==
    ASSUME NEW b, CallsAt(b), hf' = hf, call' = call, issued' = issued
    PROVE  CallsAt(b)'
<1>1. \A k : CallAt(b, k) => CallAt(b, k)'
  BY Zenon DEF CallAt
<1>2. ResultsAt(b)'
  BY Zenon DEF CallsAt, ResultsAt
<1> QED BY <1>1, <1>2, Zenon DEF CallsAt

LEMMA HostPassing ==
    ASSUME ExternalInv, PassingInv, HostReturns
    PROVE  PassingInv'
<1>1. /\ pc = "host" /\ pc' = "return"
      /\ hf' = hf /\ call' = call /\ issued' = issued /\ made' = made /\ returned' = returned
  BY Zenon DEF HostReturns
<1>2. PICK b : CallsAt(b) /\ Progress(b)
  BY <1>1, Zenon DEF PassingInv
<1>3. heard' = SubSeq(MeantBy(call), 1, b[made + 1])
  BY <1>2, HostHears
<1>4. HeardAt' = made + 1 /\ pc' # "done"
  BY <1>1 DEF HeardAt
<1>5. Progress(b)'
  <2>1. heard' = SubSeq(MeantBy(call'), 1, b[HeardAt'])
    BY <1>1, <1>3, <1>4, Zenon
  <2>2. made > 0 => returned = IF made = Len(issued) THEN ResultOf(call)
                                                     ELSE <<Word(b[made], "printed")>>
    BY <1>2, Zenon DEF Progress
  <2> QED BY <1>1, <1>4, <2>1, <2>2, Zenon DEF Progress
<1>6. CallsAt(b)'
  BY <1>1, <1>2, CallsKept
<1>7. OneCall'
  <2>1. GoodCall(Current)
    BY <1>1, <1>2, CurrentCall
  <2>2. regs = Placed(Current) /\ hf \in BOOLEAN /\ callee = ExternalName(Current.fn)
    BY <1>1, Zenon DEF PassingInv, OneCall, ExternalInv, CalleeMeant
  <2>3. GuestResult(SigOf(Current).ret)' = ResultOf(Current)
    BY <2>1, <2>2, HostResult
  <2>4. Current' = Current
    BY <1>1, Zenon DEF Current
  <2> QED BY <1>1, <2>3, <2>4 DEF OneCall
<1>8. \E S : MeantBy(call') \in Seq(S)
  BY <1>1, Zenon DEF PassingInv
<1> QED BY <1>1, <1>5, <1>6, <1>7, <1>8, Zenon DEF PassingInv

\* What the program has got after one more call.
LEMMA ResultAdded ==
    ASSUME ExternalInv, PassingInv, GuestGetsResult, NEW b, CallsAt(b), Progress(b)
    PROVE  returned' = IF made + 1 = Len(issued) THEN ResultOf(call)
                                                 ELSE <<Word(b[made + 1], "printed")>>
<1>1. /\ pc = "return"
      /\ returned' = AddResult(returned, GuestResult(SigOf(Current).ret))
  BY Zenon DEF GuestGetsResult, SigOf
<1>2. GuestResult(SigOf(Current).ret) = ResultOf(Current)
  BY <1>1, Zenon DEF PassingInv, OneCall
<1>3. /\ made \in Nat /\ made + 1 \in 1 .. Len(issued) /\ Len(issued) \in Nat
      /\ b[made] \in Nat /\ b[made + 1] \in Nat /\ b[made] <= b[made + 1] /\ made + 1 - 1 = made
  BY <1>1, CurrentCall
<1>4. ResultsAt(b) /\ b[0] = 0
  BY Zenon DEF CallsAt
<1> DEFINE n == Len(issued)
           r == ResultOf(Current)
<1>5. returned' = IF made = 0 THEN r ELSE <<Word(returned[1].of + r[1].of, "printed")>>
  BY <1>1, <1>2, Zenon DEF AddResult
<1>6. CASE n = 1 /\ ResultOf(issued[1]) = ResultOf(call)
  <2>1. made = 0 /\ made + 1 = 1
    BY <1>3, <1>6
  <2>2. r = ResultOf(call)
    BY <1>6, <2>1, Zenon DEF Current
  <2> QED BY <1>5, <1>6, <2>1, <2>2
<1>7. CASE /\ ResultOf(call) = <<Word(b[n], "printed")>>
           /\ \A k \in 1 .. n : ResultOf(issued[k]) = <<Word(b[k] - b[k - 1], "printed")>>
  <2>1. r = <<Word(b[made + 1] - b[made], "printed")>>
    BY <1>3, <1>7 DEF Current
  <2>2. returned' = <<Word(b[made + 1], "printed")>>
    <3>1. CASE made = 0
      <4>1. b[made + 1] - b[made] = b[made + 1]
        BY <1>3, <1>4, <3>1
      <4> QED BY <1>5, <2>1, <3>1, <4>1
    <3>2. CASE made # 0
      <4>1. made > 0 /\ made # n
        BY <1>3, <3>2
      <4>2. returned = <<Word(b[made], "printed")>>
        BY <4>1, Zenon DEF Progress
      <4> DEFINE x == b[made]
                 y == b[made + 1]
      <4>3. x \in Nat /\ y \in Nat
        BY <1>3
      <4> HIDE DEF x, y, r
      <4>4. returned = <<Word(x, "printed")>> /\ r = <<Word(y - x, "printed")>>
        BY <2>1, <4>2 DEF x, y
      <4>5. returned[1].of = x /\ r[1].of = y - x /\ x + (y - x) = y
        BY <4>3, <4>4 DEF Word
      <4> QED BY <1>5, <3>2, <4>5 DEF y
    <3> QED BY <3>1, <3>2
  <2> QED BY <1>7, <2>2
<1> QED BY <1>4, <1>6, <1>7 DEF ResultsAt

LEMMA ResultPassing ==
    ASSUME ExternalInv, PassingInv, GuestGetsResult
    PROVE  PassingInv'
<1>1. /\ pc = "return" /\ pc' = (IF made' = Len(issued) THEN "done" ELSE "call")
      /\ hf' = hf /\ call' = call /\ issued' = issued /\ made' = made + 1 /\ heard' = heard
  BY Zenon DEF GuestGetsResult
<1>2. PICK b : CallsAt(b) /\ Progress(b)
  BY <1>1, Zenon DEF PassingInv
<1>3. HeardAt' = made + 1 /\ HeardAt = made + 1 /\ pc' \in {"done", "call"}
      /\ (pc' = "done" => made' = Len(issued))
  BY <1>1 DEF HeardAt
<1>4. returned' = IF made + 1 = Len(issued) THEN ResultOf(call)
                                            ELSE <<Word(b[made + 1], "printed")>>
  BY <1>2, ResultAdded
<1>5. Progress(b)'
  <2>1. heard = SubSeq(MeantBy(call), 1, b[made + 1])
    BY <1>2, <1>3, Zenon DEF Progress
  <2> QED BY <1>1, <1>3, <1>4, <2>1, Zenon DEF Progress
<1>6. CallsAt(b)'
  BY <1>1, <1>2, CallsKept
<1>7. OneCall'
  BY <1>3 DEF OneCall
<1>8. \E S : MeantBy(call') \in Seq(S)
  BY <1>1, Zenon DEF PassingInv
<1>9. pc' # "break"
  BY <1>3
<1> QED BY <1>1, <1>5, <1>6, <1>7, <1>8, <1>9, Zenon DEF PassingInv

LEMMA PassingStep ==
    ASSUME ExternalInv, PassingInv, ExternalInv', [Next]_vars
    PROVE  PassingInv'
<1>1. CASE BreakGroup
  <2>1. pc = "break" /\ hf' = hf /\ call' = call /\ heard' = heard
    BY <1>1, Zenon DEF BreakGroup, runVars
  <2>2. pc' = "break"
    BY <1>1, <2>1, BreakGroupKeeps, Zenon DEF ExternalInv
  <2>3. OneCall'
    BY <2>2 DEF OneCall
  <2> QED BY <2>1, <2>2, <2>3, Zenon DEF PassingInv
<1>2. CASE IssueNewCalls
  BY <1>2, IssuePassing
<1>3. ASSUME NEW name \in Refers, Import(name) PROVE PassingInv'
  <2>1. /\ pc = "import" /\ pc' = "import" /\ hf' = hf /\ call' = call /\ issued' = issued
        /\ made' = made /\ heard' = heard /\ returned' = returned
    BY <1>3, Zenon DEF Import, runVars
  <2>2. OneCall'
    BY <2>1 DEF OneCall
  <2> QED BY <2>1, <2>2, PassingKept
<1>4. CASE Run
  <2>1. /\ pc = "import" /\ pc' = "call" /\ hf' = hf /\ call' = call /\ issued' = issued
        /\ made' = made /\ heard' = heard /\ returned' = returned
    BY <1>4, Zenon DEF Run, runVars
  <2>2. OneCall'
    BY <2>1 DEF OneCall
  <2> QED BY <2>1, <2>2, PassingKept
<1>5. CASE GuestCalls
  BY <1>5, GuestCallsPassing
<1>6. CASE CallExternal \/ CallICaller
  BY <1>6, CallerPassing
<1>7. CASE HostReturns
  BY <1>7, HostPassing
<1>8. CASE GuestGetsResult
  BY <1>8, ResultPassing
<1>9. CASE UNCHANGED vars
  <2>1. /\ pc' = pc /\ hf' = hf /\ call' = call /\ issued' = issued /\ made' = made
        /\ heard' = heard /\ returned' = returned /\ regs' = regs /\ callee' = callee
        /\ passed' = passed
    BY <1>9, Zenon DEF vars, runVars
  <2>2. OneCall'
    <3>1. PICK c, t : c = Current /\ t = SigOf(c).ret
      OBVIOUS
    <3>2. Current' = c
      BY <2>1, <3>1, Zenon DEF Current
    <3>3. Placed(Current)' = Placed(c)
      <4>1. Placed(c)' = Placed(c)
        BY <2>1, PlacedKept
      <4> QED BY <3>2, <4>1
    <3>4. GuestResult(t)' = GuestResult(t)
      BY <2>1, Zenon DEF GuestResult, FReg, Reg, InFReg
    <3>5. GuestResult(SigOf(Current).ret)' = GuestResult(t)'
      BY <3>1, <3>2
    <3>6. OneCall
      BY Zenon DEF PassingInv
    <3> QED BY <2>1, <3>1, <3>2, <3>3, <3>4, <3>5, <3>6 DEF OneCall
  <2>3. CASE pc = "break"
    BY <2>1, <2>2, <2>3, Zenon DEF PassingInv
  <2>4. CASE pc # "break"
    BY <2>1, <2>2, <2>4, PassingKept
  <2> QED BY <2>3, <2>4
<1> QED BY <1>1, <1>2, <1>3, <1>4, <1>5, <1>6, <1>7, <1>8, <1>9, Zenon DEF Next

-----------------------------------------------------------------------------
(* Refinement.                                                             *)

\* Each step maps to one of the source's call, or to none.
LEMMA SourceStep ==
    ASSUME ExternalInv, PassingInv, [Next]_vars
    PROVE  [Source!Hear \/ Source!Return]_(Source!vars)
<1> DEFINE m == MeantBy(call)
           value == Result(ExternalName(call.fn), call.fmt)
           got == IF pc = "done" THEN returned ELSE None
<1>1. ASSUME call' = call, heard' = heard, (pc = "done" <=> pc' = "done"), returned' = returned
      PROVE  UNCHANGED Source!vars
  BY <1>1 DEF Source!vars
<1>2. CASE HostReturns
  <2>1. pc = "host" /\ pc' = "return" /\ call' = call /\ returned' = returned
    BY <1>2, Zenon DEF HostReturns
  <2>2. PICK b : CallsAt(b) /\ Progress(b)
    BY <2>1, Zenon DEF PassingInv
  <2>3. heard' = SubSeq(m, 1, b[made + 1])
    BY <1>2, <2>2, HostHears
  <2>4. /\ b[made] \in Nat /\ b[made + 1] \in Nat /\ b[made] <= b[made + 1]
        /\ b[made + 1] <= Len(m)
    BY <2>1, <2>2, CurrentCall
  <2>5. heard = SubSeq(m, 1, b[made])
    <3>1. HeardAt = made
      BY <2>1 DEF HeardAt
    <3> QED BY <2>2, <3>1, Zenon DEF Progress
  <2>6. CASE b[made + 1] = b[made]
    BY <1>1, <2>1, <2>3, <2>5, <2>6
  <2>7. CASE b[made + 1] # b[made]
    <3>1. Len(heard) = b[made]
      <4>1. PICK S : m \in Seq(S)
        BY Zenon DEF PassingInv
      <4> HIDE DEF m
      <4>2. Len(SubSeq(m, 0 + 1, b[made])) = b[made] - 0
        <5>1. 0 \in Nat /\ 0 <= b[made] /\ b[made] <= Len(m)
          BY <2>4, <4>1, LenProperties
        <5> QED BY <2>4, <4>1, <5>1, PartOf
      <4> QED BY <2>4, <2>5, <4>2
    <3>2. Len(m) \in Nat
      BY <2>4, LenProperties DEF PassingInv
    <3>3. b[made + 1] \in Len(heard) + 1 .. Len(m)
      <4> HIDE DEF m
      <4> QED BY <2>4, <2>7, <3>1, <3>2
    <3>4. m' = m /\ value' = value /\ got' = got
      BY <2>1
    <3>5. Source!Hear
      BY <2>3, <3>3, <3>4, Zenon DEF Source!Hear
    <3> QED BY <3>5
  <2> QED BY <2>6, <2>7
<1>3. CASE GuestGetsResult
  <2>1. /\ pc = "return" /\ pc' = (IF made' = Len(issued) THEN "done" ELSE "call")
        /\ call' = call /\ heard' = heard /\ made' = made + 1
    BY <1>3, Zenon DEF GuestGetsResult
  <2>2. PICK b : CallsAt(b) /\ Progress(b)
    BY <2>1, Zenon DEF PassingInv
  <2>3. CASE made + 1 = Len(issued)
    <3>1. returned' = ResultOf(call)
      BY <1>3, <2>2, <2>3, ResultAdded
    <3>2. heard = m
      <4>1. HeardAt = Len(issued)
        BY <2>1, <2>3 DEF HeardAt
      <4>2. heard = SubSeq(m, 1, Len(m))
        BY <2>2, <4>1, Zenon DEF Progress, CallsAt
      <4>3. PICK S : m \in Seq(S)
        BY Zenon DEF PassingInv
      <4> HIDE DEF m
      <4> QED BY <4>2, <4>3, SubSeqFull
    <3>3. m' = m /\ value' = value /\ got = None /\ got' = value
      BY <2>1, <2>3, <3>1 DEF ResultOf
    <3>4. Source!Return
      BY <2>1, <3>2, <3>3, Zenon DEF Source!Return
    <3> QED BY <3>4
  <2>4. CASE made + 1 # Len(issued)
    <3>1. pc' = "call" /\ got' = got /\ call' = call /\ heard' = heard
      BY <2>1, <2>4
    <3> QED BY <3>1 DEF Source!vars
  <2> QED BY <2>3, <2>4
<1>4. CASE BreakGroup \/ IssueNewCalls \/ (\E name \in Refers : Import(name)) \/ Run
           \/ GuestCalls \/ CallExternal \/ CallICaller
  <2>1. call' = call /\ heard' = heard /\ returned' = returned /\ pc # "done" /\ pc' # "done"
    BY <1>4 DEF BreakGroup, IssueNewCalls, Import, Run, GuestCalls, CallExternal, CallICaller, runVars
  <2> QED BY <1>1, <2>1
<1>5. CASE UNCHANGED vars
  BY <1>1, <1>5 DEF vars, runVars
<1> QED BY <1>2, <1>3, <1>4, <1>5, Zenon DEF Next

-----------------------------------------------------------------------------
(* The theorem.                                                            *)

\* In each state of a run the calls issued make up the source's, and what was heard
\* and returned so far is what those made mean.
LEMMA PassingInvariant == Spec => [](ExternalInv /\ PassingInv)
<1>2. Init => ExternalInv /\ PassingInv
  BY ExternalInit, PassingInit
<1>3. ExternalInv /\ PassingInv /\ [Next]_vars => (ExternalInv /\ PassingInv)'
  <2> SUFFICES ASSUME ExternalInv, PassingInv, [Next]_vars PROVE ExternalInv' /\ PassingInv'
    OBVIOUS
  <2>1. ExternalInv'
    BY ExternalStep
  <2> QED BY <2>1, PassingStep
<1> QED BY <1>2, <1>3, PTL DEF Spec

\* For every library, and calls of any length: the library hears the arguments of
\* the source's call, all of them, in order and unchanged, however the call is broken
\* and whatever registers its words travel in, and only then does the program get
\* the result, that of the source's call.
THEOREM SourceImplemented == Spec => ImplementsSource
<1>1. Init => Source!Init
  <2> SUFFICES ASSUME Init PROVE Source!Init
    OBVIOUS
  <2>1. heard = << >> /\ pc # "done"
    BY DEF Init
  <2> QED BY <2>1 DEF Source!Init
<1>2. ExternalInv /\ PassingInv /\ [Next]_vars =>
          [Source!Hear \/ Source!Return]_(Source!vars)
  BY SourceStep
<1> QED BY <1>1, <1>2, PassingInvariant, PTL DEF Spec, ImplementsSource, Source!Spec
=============================================================================
