------------------------- MODULE RelocStreamProofs -------------------------
(***************************************************************************)
(* Each instruction gets its own relocation, for every section, whatever   *)
(* its instructions and relocations, and for every width of the two parts  *)
(* of an address: the stream implements the lookup.                        *)
(***************************************************************************)
EXTENDS RelocStream, DataFacts

-----------------------------------------------------------------------------
(* The two halves of an address.                                           *)

\* Division with a remainder, in the form that the provers use.
LEMMA DivMod ==
    ASSUME NEW w \in Nat \ {0}, NEW x \in Int
    PROVE  /\ x \div w \in Int /\ x % w \in 0 .. w - 1
           /\ x = (x \div w) * w + (x % w)
OBVIOUS

\* The remainder is the only one.
LEMMA ModIs ==
    ASSUME NEW w \in Nat \ {0}, NEW x \in 0 .. w - 1, NEW k \in Int, NEW y \in Int,
           y = k * w + x
    PROVE  y % w = x
OBVIOUS

\* A multiple of the modulus does not matter.
LEMMA ModAdd ==
    ASSUME NEW w \in Nat \ {0}, NEW x \in Int, NEW k \in Int
    PROVE  (x + k * w) % w = x % w
<1>1. x + k * w = (x \div w + k) * w + (x % w)
  BY DivMod
<1>2. x \div w + k \in Int /\ x + k * w \in Int /\ x % w \in 0 .. w - 1
  BY DivMod
<1> HIDE DEF DivMod
<1> QED BY <1>1, <1>2, ModIs

\* The high part of a number below h * l.
LEMMA HighPart ==
    ASSUME NEW h \in Nat \ {0}, NEW l \in Nat \ {0}, NEW q \in Int, NEW r \in 0 .. l - 1,
           q * l + r \in 0 .. h * l - 1
    PROVE  q \in 0 .. h - 1
OBVIOUS

\* High and LowOf split any number, with the low part a signed one: rounding
\* by Half makes up for its sign.
THEOREM HalvesRecombine ==
    ASSUME NEW x \in Int
    PROVE  Lookup!IsHigh(High(x), x) /\ Lookup!IsLow(LowOf(x), x)
<1> DEFINE y  == x + Half
           x1 == y % W
           q  == x1 \div Low
           r  == x1 % Low
           l  == r - Half
           k  == y \div W
<1>1. Half \in Nat \ {0} /\ Highs \in Nat \ {0} /\ Low \in Nat \ {0} /\ Low = 2 * Half
  BY RelocAssumption DEF Low
<1>2. W \in Nat \ {0} /\ W = Highs * Low
  BY <1>1 DEF W
<1>3. y \in Int
  BY <1>1
<1> HIDE DEF y
<1>4. x1 \in 0 .. W - 1 /\ k \in Int /\ y = k * W + x1
  BY <1>2, <1>3, DivMod
<1>5. x1 \in Int
  BY <1>2, <1>4
<1> HIDE DEF x1, k
<1>6. q \in Int /\ r \in 0 .. Low - 1 /\ x1 = q * Low + r
  BY <1>1, <1>5, DivMod
<1> HIDE DEF q, r
<1>7. q \in 0 .. Highs - 1
  BY <1>1, <1>2, <1>4, <1>6, HighPart
<1>8. l \in -Half .. Half - 1 /\ q * Low + l = x + (- k) * W
  BY <1>1, <1>2, <1>4, <1>6 DEF y
<1> HIDE DEF l
<1>9. (q * Low + l - x) % W = 0
  <2>1. q * Low + l - x = (- k) * W + 0
    BY <1>1, <1>2, <1>4, <1>7, <1>8
  <2>2. q * Low + l - x \in Int /\ - k \in Int /\ 0 \in 0 .. W - 1
    BY <1>1, <1>2, <1>4, <1>7, <1>8
  <2> QED BY <1>2, <2>1, <2>2, ModIs
<1>10. High(x) = q
  BY DEF High, q, x1, y
<1>11. LowOf(x) = l % W
  <2>1. LowOf(x) = (x - (x1 - r)) % W
    BY DEF LowOf, r, x1, y
  <2>2. x - (x1 - r) = l + k * W
    BY <1>1, <1>2, <1>4, <1>6 DEF l, y
  <2> QED BY <1>2, <1>4, <1>8, <2>1, <2>2, ModAdd
<1>12. Lookup!Low = Low /\ Lookup!W = W
  BY DEF Lookup!Low, Lookup!W, Low, W
<1> QED BY <1>7, <1>8, <1>9, <1>10, <1>11, <1>12 DEF Lookup!IsHigh, Lookup!IsLow

\* Both halves are words.
LEMMA HalvesAreWords ==
    ASSUME NEW x \in Int
    PROVE  High(x) \in Lookup!Word /\ LowOf(x) \in Lookup!Word
<1>1. Half \in Nat \ {0} /\ Highs \in Nat \ {0} /\ Low \in Nat \ {0}
  BY RelocAssumption DEF Low
<1>2. W \in Nat \ {0} /\ W = Highs * Low /\ Highs <= W
  BY <1>1 DEF W
<1>3. Lookup!Word = 0 .. W - 1
  BY DEF Lookup!Word, Lookup!W, Lookup!Low, W, Low
<1>4. High(x) \in 0 .. Highs - 1
  BY HalvesRecombine DEF Lookup!IsHigh
<1>5. LowOf(x) \in 0 .. W - 1
  <2> DEFINE x1 == (x + Half) % W
             z  == x - (x1 - (x1 % Low))
  <2> HIDE DEF W, Low
  <2>1. x + Half \in Int
    BY <1>1
  <2>2. x1 \in Int
    BY <1>2, <2>1, DivMod
  <2> HIDE DEF x1
  <2>3. x1 % Low \in Int
    BY <1>1, <2>2, DivMod
  <2>4. z \in Int
    BY <2>2, <2>3
  <2>5. LowOf(x) = z % W
    BY DEF LowOf, z, x1
  <2> HIDE DEF z
  <2> QED BY <1>2, <2>4, <2>5, DivMod
<1> QED BY <1>1, <1>2, <1>3, <1>4, <1>5

-----------------------------------------------------------------------------
(* The invariant.                                                          *)

\* No code for fixed addresses has pairs of relocations on one address, of
\* which the second finds the first through it.
GoodRelocs == \A F \in Programs : \A p \in F :
                  \A i \in 1 .. Len(p.relocs) : p.relocs[i].type # "PCREL_LO12"

\* The two relocations that a call becomes.
CallFirst(r)  == [r EXCEPT !.type = "CALL_HI", !.hiPC = r.offset]
CallSecond(r) == [r EXCEPT !.type = "CALL_LO", !.hiPC = r.offset, !.offset = @ + 1]

\* The relocations before the i-th are of addresses below a.
PassedBefore(i, a) ==
    \A j \in 1 .. i - 1 : relocs[j].type = "RELAX" \/ relocs[j].offset < a

\* Nothing that an instruction from pos on could ask for has left the stream.
StreamReady ==
    /\ ri \in 1 .. Len(relocs) + 1
    /\ PassedBefore(ri, pos)
    /\ proxies = IF EndsCall(pos) THEN << CallSecond(RelocAt(prog, pos - 1)) >>
                                  ELSE << >>

\* The functions that the walk has passed have been created.
FunctionsKnown == prog.starts \cap 0 .. pos - 1 \subseteq funcs

\* What is left over from an earlier instruction.
LastIsOld == last.offset \in Int /\ last.offset < pos

StreamInv ==
    /\ \E F \in Programs : prog \in F
    /\ pos \in Nat /\ Min(prog.starts) <= pos
    /\ ~failed => StreamReady
    /\ FunctionsKnown /\ LastIsOld /\ CallsFound

-----------------------------------------------------------------------------
(* The relocations of a section.                                           *)

LEMMA ProgramFacts ==
    ASSUME NEW F \in Programs, prog \in F
    PROVE  /\ Program(prog)
           /\ Len(relocs) \in Nat
           /\ \A i \in 1 .. Len(relocs) : relocs[i] \in Relocation
           /\ Min(prog.starts) \in Nat /\ Min(prog.starts) \in prog.starts
           /\ \A a \in prog.starts : a \in Addr /\ Min(prog.starts) <= a
<1>1. Program(prog)
  BY RelocAssumption
<1>2. relocs \in Seq(Relocation)
  BY <1>1 DEF Program, IsRelocSeq, relocs
<1>3. prog.starts \subseteq Addr /\ prog.starts # {} /\ Addr \subseteq Nat
  BY <1>1, RelocAssumption DEF Program, Addr
<1>4. /\ Min(prog.starts) \in prog.starts
      /\ \A a \in prog.starts : Min(prog.starts) <= a
  BY <1>3, MinIsLeast
<1>5. Len(relocs) \in Nat /\ \A i \in 1 .. Len(relocs) : relocs[i] \in Relocation
  <2> HIDE DEF relocs
  <2> QED BY <1>2
<1> QED BY <1>1, <1>3, <1>4, <1>5

\* Relocations are sorted, and of one address only one says something.
LEMMA Sorted ==
    ASSUME NEW F \in Programs, prog \in F,
           NEW i \in 1 .. Len(relocs), NEW j \in 1 .. Len(relocs), i < j
    PROVE  \/ relocs[i].offset < relocs[j].offset
           \/ relocs[i].offset = relocs[j].offset /\ relocs[j].type = "RELAX"
BY ProgramFacts DEF Program, IsRelocSeq, relocs

LEMMA RelocAtIs ==
    ASSUME NEW F \in Programs, prog \in F, NEW i \in 1 .. Len(relocs),
           relocs[i].type # "RELAX"
    PROVE  RelocAt(prog, relocs[i].offset) = relocs[i]
<1> DEFINE a == relocs[i].offset
           S == RelocsAt(prog, a)
<1>1. i \in S
  BY DEF RelocsAt, relocs
<1>2. ASSUME NEW j \in S PROVE j = i
  <2>1. /\ j \in 1 .. Len(relocs) /\ relocs[j].offset = a /\ relocs[j].type # "RELAX"
        /\ a \in Int
    BY ProgramFacts DEF RelocsAt, relocs, Relocation, Addr
  <2>2. ~ (j < i)
    BY <2>1, Sorted
  <2>3. ~ (i < j)
    BY <2>1, Sorted
  <2> QED BY <2>1, <2>2, <2>3, ProgramFacts
<1> HIDE DEF S
<1>3. (CHOOSE j \in S : TRUE) = i
  BY <1>1, <1>2
<1> QED BY <1>1, <1>3 DEF RelocAt, S, relocs

LEMMA RelocAtFacts ==
    ASSUME NEW F \in Programs, prog \in F, NEW a \in Int
    PROVE  \/ RelocAt(prog, a) = NoReloc /\ RelocsAt(prog, a) = {}
           \/ /\ RelocAt(prog, a) \in Relocation
              /\ RelocAt(prog, a).offset = a
              /\ RelocAt(prog, a).type # "RELAX"
              /\ \E i \in 1 .. Len(relocs) : RelocAt(prog, a) = relocs[i]
<1>1. CASE RelocsAt(prog, a) = {}
  BY <1>1 DEF RelocAt
<1>2. CASE RelocsAt(prog, a) # {}
  <2>1. PICK i \in RelocsAt(prog, a) : RelocAt(prog, a) = prog.relocs[i]
    BY <1>2 DEF RelocAt
  <2> QED BY <2>1, ProgramFacts DEF RelocsAt, relocs
<1> QED BY <1>1, <1>2

\* A call is on an instruction with an immediate, and on the one after it,
\* which has an immediate too and no relocation.
LEMMA CallCovers ==
    ASSUME NEW F \in Programs, prog \in F, NEW a \in Int,
           RelocAt(prog, a).type = "CALL"
    PROVE  /\ a \in Addr /\ a + 1 \in Addr
           /\ prog.code[a] = "imm" /\ prog.code[a + 1] = "imm"
           /\ RelocsAt(prog, a + 1) = {}
<1>1. PICK i \in 1 .. Len(relocs) :
          RelocAt(prog, a) = relocs[i] /\ relocs[i].offset = a
  BY RelocAtFacts DEF NoReloc
<1>2. relocs[i].type = "CALL" /\ relocs[i] \in Relocation /\ Program(prog)
  BY <1>1, ProgramFacts
<1>3. /\ a + 1 \in Addr /\ prog.code[a] = "imm" /\ prog.code[a + 1] = "imm"
      /\ \A j \in 1 .. Len(relocs) : relocs[j].offset # a + 1
  BY <1>1, <1>2 DEF Program, IsRelocSeq, relocs
<1> QED BY <1>1, <1>2, <1>3 DEF RelocsAt, Relocation, relocs

-----------------------------------------------------------------------------
(* The stream.                                                             *)

LEMMA FirstOfIs ==
    ASSUME NEW S, S \subseteq Nat, NEW n
    PROVE  \/ S = {} /\ FirstOf(S, n) = n + 1
           \/ FirstOf(S, n) \in S /\ \A k \in S : FirstOf(S, n) <= k
BY MinIsLeast DEF FirstOf

LEMMA CatchUpRange ==
    ASSUME NEW F \in Programs, prog \in F, NEW i \in 1 .. Len(relocs) + 1,
           NEW a \in Int
    PROVE  LET c == CatchUp(i, a) IN
           /\ c \in i .. Len(relocs) + 1
           /\ \A j \in i .. c - 1 : relocs[j].type = "RELAX" \/ relocs[j].offset < a
           /\ c <= Len(relocs) => relocs[c].type # "RELAX" /\ relocs[c].offset >= a
<1> DEFINE n == Len(relocs)
           S == {j \in i .. n : relocs[j].type # "RELAX" /\ relocs[j].offset >= a}
           c == CatchUp(i, a)
<1>1. n \in Nat /\ \A j \in 1 .. n : relocs[j].offset \in Int
  BY ProgramFacts DEF Relocation, Addr
<1>2. S \subseteq Nat /\ c = FirstOf(S, n)
  BY <1>1 DEF CatchUp
<1> HIDE DEF S, c
<1>3. \/ S = {} /\ c = n + 1
      \/ c \in S /\ \A k \in S : c <= k
  BY <1>2, FirstOfIs
<1>4. c \in i .. n + 1 /\ (c <= n => c \in S)
  BY <1>1, <1>3 DEF S
<1>5. \A j \in i .. c - 1 : j \notin S
  BY <1>1, <1>3, <1>4
<1> HIDE DEF n
<1>6. \A j \in i .. c - 1 : j \in i .. n /\ j \in 1 .. n
  BY <1>1, <1>4 DEF n
<1>7. \A j \in i .. c - 1 : relocs[j].type = "RELAX" \/ relocs[j].offset < a
  BY <1>1, <1>5, <1>6 DEF S
<1> QED BY <1>4, <1>7 DEF S, c, n

LEMMA SkipRelaxRange ==
    ASSUME NEW F \in Programs, prog \in F, NEW i \in 1 .. Len(relocs) + 1
    PROVE  LET c == SkipRelax(i) IN
           /\ c \in i .. Len(relocs) + 1
           /\ \A j \in i .. c - 1 : relocs[j].type = "RELAX"
<1> DEFINE n == Len(relocs)
           S == {j \in i .. n : relocs[j].type # "RELAX"}
           c == SkipRelax(i)
<1>1. n \in Nat
  BY ProgramFacts
<1>2. S \subseteq Nat /\ c = FirstOf(S, n)
  BY <1>1 DEF SkipRelax
<1> HIDE DEF S, c
<1>3. \/ S = {} /\ c = n + 1
      \/ c \in S /\ \A k \in S : c <= k
  BY <1>2, FirstOfIs
<1>4. c \in i .. n + 1
  BY <1>1, <1>3 DEF S
<1>5. \A j \in i .. c - 1 : j \notin S /\ j \in i .. n
  BY <1>1, <1>3, <1>4
<1> QED BY <1>4, <1>5 DEF S, c

\* The relocation at the head of the stream, after it has caught up with an
\* address, is the one of that address, if there is one.
LEMMA HeadOfStream ==
    ASSUME NEW F \in Programs, prog \in F, NEW i \in 1 .. Len(relocs) + 1,
           NEW a \in Int, PassedBefore(i, a)
    PROVE  LET c == CatchUp(i, a) IN
           IF c <= Len(relocs) /\ relocs[c].offset = a
           THEN /\ RelocAt(prog, a) = relocs[c]
                /\ SkipRelax(c + 1) \in 1 .. Len(relocs) + 1
                /\ PassedBefore(SkipRelax(c + 1), a + 1)
           ELSE /\ RelocAt(prog, a) = NoReloc
                /\ PassedBefore(c, a + 1)
<1> DEFINE n == Len(relocs)
           c == CatchUp(i, a)
<1>1. n \in Nat /\ \A j \in 1 .. n : relocs[j].offset \in Int
  BY ProgramFacts DEF Relocation, Addr
<1>2. /\ c \in i .. n + 1
      /\ \A j \in i .. c - 1 : relocs[j].type = "RELAX" \/ relocs[j].offset < a
      /\ c <= n => relocs[c].type # "RELAX" /\ relocs[c].offset >= a
  BY CatchUpRange
<1> HIDE DEF c
<1>3. PassedBefore(c, a)
  BY <1>1, <1>2 DEF PassedBefore
<1>4. CASE c <= n /\ relocs[c].offset = a
  <2>1. c \in 1 .. n /\ c + 1 \in 1 .. n + 1
    BY <1>1, <1>2, <1>4
  <2>2. RelocAt(prog, a) = relocs[c]
    BY <1>2, <1>4, <2>1, RelocAtIs
  <2> DEFINE d == SkipRelax(c + 1)
  <2>3. d \in c + 1 .. n + 1 /\ \A j \in c + 1 .. d - 1 : relocs[j].type = "RELAX"
    BY <2>1, SkipRelaxRange
  <2> HIDE DEF d
  <2>4. PassedBefore(d, a + 1)
    <3> SUFFICES ASSUME NEW j \in 1 .. d - 1
                 PROVE  relocs[j].type = "RELAX" \/ relocs[j].offset < a + 1
      BY DEF PassedBefore
    <3>1. j \in 1 .. n
      BY <1>1, <2>1, <2>3
    <3>2. CASE j < c
      <4>1. j \in 1 .. c - 1
        BY <2>1, <3>1, <3>2
      <4> QED BY <1>1, <1>3, <3>1, <4>1 DEF PassedBefore
    <3>3. CASE j = c
      BY <1>4, <3>3
    <3>4. CASE j > c
      BY <2>1, <2>3, <3>4
    <3> QED BY <2>1, <3>1, <3>2, <3>3, <3>4
  <2> QED BY <1>1, <1>4, <2>1, <2>2, <2>3, <2>4 DEF c, d
<1>5. CASE ~ (c <= n /\ relocs[c].offset = a)
  <2>1. ASSUME NEW j \in 1 .. n, relocs[j].type # "RELAX", relocs[j].offset = a
        PROVE  FALSE
    <3>1. ~ (j <= c - 1)
      BY <1>1, <1>2, <1>3, <2>1 DEF PassedBefore
    <3>2. j # c
      BY <1>5, <2>1
    <3>3. c < j /\ c \in 1 .. n
      BY <1>1, <1>2, <3>1, <3>2
    <3> HIDE DEF n
    <3>4. \/ relocs[c].offset < relocs[j].offset
          \/ relocs[c].offset = relocs[j].offset /\ relocs[j].type = "RELAX"
      BY <3>3, Sorted DEF n
    <3> QED BY <1>1, <1>2, <1>5, <2>1, <3>3, <3>4
  <2>2. RelocAt(prog, a) = NoReloc
    BY <2>1 DEF RelocAt, RelocsAt, relocs
  <2>3. PassedBefore(c, a + 1)
    BY <1>1, <1>2, <1>3 DEF PassedBefore
  <2> QED BY <1>5, <2>2, <2>3 DEF c
<1> QED BY <1>4, <1>5

\* No relocation of an address is behind the one that has been found for it.
LEMMA NoSecond ==
    ASSUME NEW F \in Programs, prog \in F, NEW i \in 1 .. Len(relocs),
           relocs[i].type # "RELAX"
    PROVE  LET a == relocs[i].offset
               c == CatchUp(SkipRelax(i + 1), a)
           IN  ~ (c <= Len(relocs) /\ relocs[c].offset = a)
<1> DEFINE n == Len(relocs)
           a == relocs[i].offset
           d == SkipRelax(i + 1)
           c == CatchUp(d, a)
<1>1. n \in Nat /\ i + 1 \in 1 .. n + 1 /\ a \in Int
  BY ProgramFacts DEF Relocation, Addr
<1> HIDE DEF a
<1>2. d \in i + 1 .. n + 1
  BY <1>1, SkipRelaxRange
<1> HIDE DEF d
<1>3. d \in 1 .. n + 1
  BY <1>1, <1>2
<1>4. c \in d .. n + 1 /\ (c <= n => relocs[c].type # "RELAX")
  BY <1>1, <1>3, CatchUpRange
<1> HIDE DEF c
<1>5. ASSUME c <= n, relocs[c].offset = a PROVE FALSE
  <2>1. i < c /\ c \in 1 .. n
    BY <1>1, <1>2, <1>4, <1>5
  <2>2. \/ relocs[i].offset < relocs[c].offset
        \/ relocs[i].offset = relocs[c].offset /\ relocs[c].type = "RELAX"
    BY <2>1, Sorted
  <2> QED BY <1>1, <1>4, <1>5, <2>2 DEF a
<1> QED BY <1>5 DEF a, c, d

-----------------------------------------------------------------------------
(* What handleRelocation finds.                                            *)

LEMMA NoProxies ==
    ASSUME NEW a PROVE CatchUpProxies(<< >>, a) = << >>
<1>1. {j \in 1 .. Len(<< >>) : << >>[j].offset >= a} = {}
  OBVIOUS
<1>2. FirstOf({}, 0) = 1
  BY DEF FirstOf
<1>3. SubSeq(<< >>, 1, 0) = << >>
  OBVIOUS
<1> QED BY <1>1, <1>2, <1>3 DEF CatchUpProxies

\* Nothing is given up of proxies of which the first is still ahead.
LEMMA ProxiesAhead ==
    ASSUME NEW q, q = << q[1] >> \/ q = << q[1], q[2] >>,
           NEW a \in Int, q[1].offset \in Int, q[1].offset >= a
    PROVE  CatchUpProxies(q, a) = q
<1> DEFINE S == {j \in 1 .. Len(q) : q[j].offset >= a}
<1>1. Len(q) \in {1, 2}
  OBVIOUS
<1>2. S \subseteq Nat /\ 1 \in S
  BY <1>1
<1>3. FirstOf(S, Len(q)) \in S /\ FirstOf(S, Len(q)) <= 1
  BY <1>2, FirstOfIs
<1>4. FirstOf(S, Len(q)) = 1
  BY <1>1, <1>3
<1>5. SubSeq(q, 1, Len(q)) = q
  OBVIOUS
<1> QED BY <1>4, <1>5 DEF CatchUpProxies

LEMMA GetRelocIs ==
    ASSUME NEW F \in Programs, prog \in F, pos \in Nat, StreamReady
    PROVE  LET g == GetReloc(ri, proxies, pos)
               r == RelocAt(prog, pos)
               c == RelocAt(prog, pos - 1)
           IN  /\ g.reloc = IF EndsCall(pos) THEN CallSecond(c) ELSE r
               /\ g.ri \in 1 .. Len(relocs) + 1 /\ PassedBefore(g.ri, pos + 1)
               /\ g.proxies = << >>
               /\ r # NoReloc => ~ EndsCall(pos)
               /\ r # NoReloc => LET d == CatchUp(g.ri, pos)
                                 IN  ~ (d <= Len(relocs) /\ relocs[d].offset = pos)
<1> DEFINE n == Len(relocs)
           g == GetReloc(ri, proxies, pos)
           r == RelocAt(prog, pos)
           c == RelocAt(prog, pos - 1)
           i == CatchUp(ri, pos)
           q == CatchUpProxies(proxies, pos)
<1>1. pos \in Int /\ pos - 1 \in Int /\ n \in Nat /\ ri \in 1 .. n + 1
  BY ProgramFacts DEF StreamReady
<1>2. i \in 1 .. n + 1 /\ (i <= n => relocs[i].type # "RELAX")
  <2>1. /\ i \in ri .. Len(relocs) + 1
        /\ i <= Len(relocs) => relocs[i].type # "RELAX" /\ relocs[i].offset >= pos
    <3> HIDE DEF i, n
    <3>1. ri \in 1 .. Len(relocs) + 1 /\ pos \in Int
      BY <1>1 DEF n
    <3> QED BY <3>1, CatchUpRange DEF i
  <2> HIDE DEF i
  <2> QED BY <1>1, <2>1
<1>3. IF i <= n /\ relocs[i].offset = pos
      THEN /\ r = relocs[i]
           /\ SkipRelax(i + 1) \in 1 .. n + 1
           /\ PassedBefore(SkipRelax(i + 1), pos + 1)
      ELSE r = NoReloc /\ PassedBefore(i, pos + 1)
  BY <1>1, HeadOfStream DEF StreamReady
<1>4. g = IF i <= n /\ relocs[i].offset = pos
          THEN [reloc |-> relocs[i], ri |-> SkipRelax(i + 1), proxies |-> q]
          ELSE IF q # << >> /\ q[1].offset = pos
          THEN [reloc |-> q[1], ri |-> i, proxies |-> Tail(q)]
          ELSE [reloc |-> NoReloc, ri |-> i, proxies |-> q]
  BY DEF GetReloc
<1> HIDE DEF g, i, q
<1>5. CASE i <= n /\ relocs[i].offset = pos
  <2>1. i \in 1 .. n /\ relocs[i].type # "RELAX"
    BY <1>1, <1>2, <1>5
  <2>2. i \in RelocsAt(prog, pos)
    BY <1>5, <2>1 DEF RelocsAt, relocs
  <2>3. ~ EndsCall(pos)
    <3>1. ASSUME c.type = "CALL" PROVE FALSE
      <4>1. RelocsAt(prog, pos - 1 + 1) = {}
        BY <1>1, <3>1, CallCovers
      <4>2. pos - 1 + 1 = pos
        BY <1>1
      <4> QED BY <2>2, <4>1, <4>2
    <3> QED BY <3>1 DEF EndsCall
  <2>4. q = << >>
    BY <2>3, NoProxies DEF StreamReady, q
  <2>5. /\ g.reloc = r /\ g.ri = SkipRelax(i + 1) /\ g.proxies = << >>
    BY <1>3, <1>4, <1>5, <2>4
  <2>6. LET d == CatchUp(g.ri, pos) IN ~ (d <= n /\ relocs[d].offset = pos)
    BY <1>5, <2>1, <2>5, NoSecond
  <2> QED BY <1>3, <1>5, <2>3, <2>5, <2>6 DEF g
<1>6. CASE ~ (i <= n /\ relocs[i].offset = pos)
  <2>1. r = NoReloc /\ PassedBefore(i, pos + 1)
    BY <1>3, <1>6
  <2>2. CASE EndsCall(pos)
    <3>1. c.type = "CALL"
      BY <2>2 DEF EndsCall
    <3>2. c \in Relocation /\ c.offset = pos - 1
      BY <1>1, <3>1, RelocAtFacts DEF NoReloc
    <3> DEFINE p == CallSecond(c)
    <3>3. p.offset = pos
      BY <1>1, <3>2 DEF CallSecond, Relocation
    <3> HIDE DEF p
    <3>4. proxies = << p >>
      BY <2>2 DEF StreamReady, p
    <3>5. proxies[1] = p /\ proxies = << proxies[1] >>
      BY <3>4
    <3>6. q = << p >>
      BY <1>1, <3>3, <3>4, <3>5, ProxiesAhead DEF q
    <3>7. q # << >> /\ q[1] = p /\ Tail(q) = << >>
      BY <3>6
    <3>8. g.reloc = p /\ g.ri = i /\ g.proxies = << >>
      BY <1>4, <1>6, <3>3, <3>7
    <3> QED BY <1>2, <2>1, <2>2, <3>8 DEF p, g
  <2>3. CASE ~ EndsCall(pos)
    <3>1. q = << >>
      BY <2>3, NoProxies DEF StreamReady, q
    <3>2. g.reloc = NoReloc /\ g.ri = i /\ g.proxies = << >>
      BY <1>4, <1>6, <3>1
    <3> QED BY <1>2, <2>1, <2>3, <3>2 DEF g
  <2> QED BY <2>2, <2>3
<1> QED BY <1>5, <1>6

LEMMA FoundIs ==
    ASSUME NEW F \in Programs, prog \in F, pos \in Nat, StreamReady
    PROVE  LET g == Found(pos)
               r == RelocAt(prog, pos)
               c == RelocAt(prog, pos - 1)
           IN  /\ g.reloc = IF EndsCall(pos) THEN CallSecond(c)
                            ELSE IF r.type = "CALL" THEN CallFirst(r) ELSE r
               /\ g.ri \in 1 .. Len(relocs) + 1 /\ PassedBefore(g.ri, pos + 1)
               /\ g.proxies = IF r.type = "CALL" THEN << CallSecond(r) >> ELSE << >>
               /\ r.type = "CALL" => ~ EndsCall(pos)
<1> DEFINE n == Len(relocs)
           g == GetReloc(ri, proxies, pos)
           f == Found(pos)
           r == RelocAt(prog, pos)
           c == RelocAt(prog, pos - 1)
<1>1. /\ g.reloc = IF EndsCall(pos) THEN CallSecond(c) ELSE r
      /\ g.ri \in 1 .. n + 1 /\ PassedBefore(g.ri, pos + 1)
      /\ g.proxies = << >>
      /\ r # NoReloc => ~ EndsCall(pos)
      /\ r # NoReloc => LET d == CatchUp(g.ri, pos)
                        IN  ~ (d <= n /\ relocs[d].offset = pos)
  BY GetRelocIs
<1>2. f = IF g.reloc.type = "CALL"
          THEN GetReloc(g.ri, g.proxies \o AddProxyReloc(g.reloc), pos) ELSE g
  BY DEF Found
<1> HIDE DEF f, g
<1>3. CASE r.type = "CALL"
  <2>1. r # NoReloc /\ ~ EndsCall(pos) /\ g.reloc = r
    BY <1>1, <1>3 DEF NoReloc
  <2>2. r \in Relocation /\ r.offset = pos
    BY <1>3, RelocAtFacts DEF NoReloc
  <2> DEFINE a == CallFirst(r)
             b == CallSecond(r)
             q == << a, b >>
             d == CatchUp(g.ri, pos)
  <2>3. a.offset = pos /\ AddProxyReloc(r) = << a, b >>
    BY <2>2 DEF CallFirst, CallSecond, AddProxyReloc, Relocation
  <2> HIDE DEF a, b
  <2>4. << >> \o << a, b >> = q
    OBVIOUS
  <2>5. q[1] = a /\ q[2] = b /\ q = << q[1], q[2] >> /\ q # << >> /\ Tail(q) = << b >>
    OBVIOUS
  <2> HIDE DEF q
  <2>6. CatchUpProxies(q, pos) = q
    BY <2>3, <2>5, ProxiesAhead
  <2>7. f = GetReloc(g.ri, q, pos)
    BY <1>1, <1>2, <1>3, <2>1, <2>3, <2>4
  <2>8. ~ (d <= n /\ relocs[d].offset = pos)
    BY <1>1, <2>1
  <2>9. f = [reloc |-> a, ri |-> d, proxies |-> << b >>]
    BY <2>3, <2>5, <2>6, <2>7, <2>8 DEF GetReloc
  <2>10. d \in g.ri .. n + 1 /\ d \in 1 .. n + 1
         /\ \A j \in g.ri .. d - 1 : relocs[j].type = "RELAX" \/ relocs[j].offset < pos
    <3>1. pos \in Int /\ n \in Nat
      BY ProgramFacts
    <3>2. g.ri \in 1 .. n + 1
      BY <1>1
    <3>3. d \in g.ri .. n + 1
          /\ \A j \in g.ri .. d - 1 : relocs[j].type = "RELAX" \/ relocs[j].offset < pos
      BY <3>1, <3>2, CatchUpRange
    <3> HIDE DEF d, n
    <3> QED BY <3>1, <3>2, <3>3
  <2> HIDE DEF d
  <2>11. PassedBefore(d, pos + 1)
    <3> SUFFICES ASSUME NEW j \in 1 .. d - 1
                 PROVE  relocs[j].type = "RELAX" \/ relocs[j].offset < pos + 1
      BY DEF PassedBefore
    <3>1. n \in Nat /\ j \in 1 .. n
      BY <2>10, ProgramFacts
    <3>2. relocs[j].offset \in Int
      BY <3>1, ProgramFacts DEF Relocation, Addr
    <3>3. CASE j < g.ri
      BY <1>1, <3>1, <3>3 DEF PassedBefore
    <3>4. CASE j >= g.ri
      BY <1>1, <2>10, <3>1, <3>2, <3>4
    <3> QED BY <1>1, <3>1, <3>3, <3>4
  <2>12. f.reloc = a /\ f.ri = d /\ f.proxies = << b >>
    BY <2>9
  <2> QED BY <1>3, <2>1, <2>10, <2>11, <2>12 DEF a, b, f
<1>4. CASE r.type # "CALL"
  <2>1. g.reloc.type # "CALL"
    <3>1. CASE EndsCall(pos)
      <4>1. c.type = "CALL"
        BY <3>1 DEF EndsCall
      <4>2. c \in Relocation
        BY <4>1, RelocAtFacts DEF NoReloc
      <4>3. CallSecond(c).type = "CALL_LO"
        BY <4>2 DEF CallSecond, Relocation
      <4> QED BY <1>1, <3>1, <4>3
    <3>2. CASE ~ EndsCall(pos)
      BY <1>1, <1>4, <3>2
    <3> QED BY <3>1, <3>2
  <2>2. f = g
    BY <1>2, <2>1
  <2> QED BY <1>1, <1>4, <2>2 DEF f
<1> QED BY <1>3, <1>4

-----------------------------------------------------------------------------
(* The value.                                                              *)

LEMMA Widths ==
    /\ W \in Nat \ {0} /\ Word = 0 .. W - 1 /\ Word \subseteq Int
    /\ Lookup!Word = Word /\ Lookup!NoValue = NoValue
<1>1. Half \in Nat \ {0} /\ Highs \in Nat \ {0} /\ Low \in Nat \ {0}
  BY RelocAssumption DEF Low
<1>2. W \in Nat \ {0}
  BY <1>1 DEF W
<1> QED BY <1>2 DEF Word, Lookup!Word, Lookup!W, Lookup!Low, W, Low, NoValue,
           Lookup!NoValue

LEMMA SymValIsWord ==
    ASSUME NEW F \in Programs, prog \in F,
           NEW r, r.place \in {"text", "data", "external"}, r.hasSym \in BOOLEAN,
           r.symAddr \in Word, r.addend \in Word
    PROVE  SymVal(r) \in Word
<1>1. Program(prog) /\ HostAddr \in [Addr -> Word] /\ ImportAddr \in Word
  BY ProgramFacts, RelocAssumption
<1>2. TextAddr(r) \in Word
  BY DEF TextAddr
<1>3. IsFunction(r) => TextAddr(r) \in Addr
  BY <1>1 DEF IsFunction, Program
<1>4. CASE r.place = "external"
  BY <1>1, <1>4 DEF SymVal, IsFunction
<1>5. CASE r.place = "text"
  <2>1. CASE IsFunction(r) /\ ~prog.useICaller /\ r.type # "JAL"
    BY <1>1, <1>3, <1>5, <2>1 DEF SymVal
  <2>2. CASE IsFunction(r) => prog.useICaller \/ r.type = "JAL"
    BY <1>2, <1>5, <2>2 DEF SymVal
  <2> QED BY <2>1, <2>2
<1>6. CASE r.place = "data"
  <2> DEFINE y == prog.base + (IF r.hasSym THEN r.symAddr ELSE 0) + r.addend
  <2>1. y \in Int
    BY <1>1, Widths DEF Program
  <2>2. SymVal(r) = y % W
    BY <1>6 DEF SymVal, IsFunction
  <2> HIDE DEF y
  <2> QED BY <2>1, <2>2, Widths, DivMod
<1> QED BY <1>4, <1>5, <1>6

\* The two relocations of a call have its symbol.
LEMMA ProxyFacts ==
    ASSUME NEW c \in Relocation, c.type = "CALL", NEW p \in {CallFirst(c), CallSecond(c)}
    PROVE  /\ p.place = c.place /\ p.hasSym = c.hasSym /\ p.symAddr = c.symAddr
           /\ p.addend = c.addend /\ p.hiPC = c.offset
           /\ TextAddr(p) = TextAddr(c)
           /\ IsFunction(p) = IsFunction(c)
           /\ SymVal(p) = SymVal(c)
<1>1. /\ p.place = c.place /\ p.hasSym = c.hasSym /\ p.symAddr = c.symAddr
      /\ p.addend = c.addend /\ p.hiPC = c.offset
      /\ p.type # "JAL" /\ c.type # "JAL"
  BY DEF CallFirst, CallSecond, Relocation
<1>2. TextAddr(p) = TextAddr(c)
  BY <1>1 DEF TextAddr
<1>3. IsFunction(p) = IsFunction(c)
  BY <1>1, <1>2 DEF IsFunction
<1>4. SymVal(p) = SymVal(c)
  BY <1>1, <1>2, <1>3 DEF SymVal
<1> QED BY <1>1, <1>2, <1>3, <1>4

LEMMA CallFirstIs ==
    ASSUME NEW c \in Relocation
    PROVE  CallFirst(c).type = "CALL_HI" /\ CallFirst(c).offset = c.offset
BY DEF CallFirst, Relocation

LEMMA CallSecondIs ==
    ASSUME NEW c \in Relocation
    PROVE  CallSecond(c).type = "CALL_LO" /\ CallSecond(c).offset = c.offset + 1
BY DEF CallSecond, Relocation

\* What handleRelocation computes is what the instruction wants.
LEMMA ValueFits ==
    ASSUME GoodRelocs, NEW F \in Programs, prog \in F, pos \in Addr, StreamReady,
           prog.code[pos] = "imm", Found(pos).reloc # NoReloc, ~ Rejected(Found(pos).reloc)
    PROVE  LET r == Found(pos).reloc
               v == RelFn(r, pos, SymVal(r))
           IN  v \in Word /\ Lookup!Fits(v, Wanted(pos))
<1> DEFINE f == Found(pos).reloc
           r == RelocAt(prog, pos)
           c == RelocAt(prog, pos - 1)
<1>1. pos \in Nat /\ pos \in Int /\ pos - 1 \in Int
  BY RelocAssumption DEF Addr
<1>2. /\ f = IF EndsCall(pos) THEN CallSecond(c)
             ELSE IF r.type = "CALL" THEN CallFirst(r) ELSE r
      /\ r.type = "CALL" => ~ EndsCall(pos)
  BY <1>1, FoundIs
<1> HIDE DEF f
<1>3. f # NoReloc /\ ~ Rejected(f)
  BY DEF f
<1>4. CASE EndsCall(pos)
  <2>1. c.type = "CALL" /\ c.place # "missing"
    BY <1>4 DEF EndsCall
  <2>2. c \in Relocation /\ c.offset = pos - 1
    BY <1>1, <2>1, RelocAtFacts DEF NoReloc
  <2>3. r = NoReloc
    <3>1. RelocsAt(prog, pos - 1 + 1) = {} /\ pos - 1 + 1 = pos
      BY <1>1, <2>1, CallCovers
    <3> QED BY <3>1 DEF RelocAt
  <2>4. Wanted(pos) = [part |-> "low", of |-> SymVal(c) - (pos - 1)]
    BY <1>4, <2>3 DEF Wanted, NoReloc
  <2>5. SymVal(c) \in Int
    BY <2>1, <2>2, SymValIsWord, Widths DEF Relocation
  <2> DEFINE x == SymVal(c) - (pos - 1)
  <2>6. RelFn(f, pos, SymVal(f)) = LowOf(x)
    BY <1>2, <1>4, <2>1, <2>2, ProxyFacts, CallSecondIs DEF RelFn
  <2>7. x \in Int
    BY <1>1, <2>5
  <2> HIDE DEF x
  <2>8. LowOf(x) \in Word /\ Lookup!IsLow(LowOf(x), x)
    BY <2>7, HalvesAreWords, HalvesRecombine, Widths
  <2>9. Lookup!Fits(LowOf(x), [part |-> "low", of |-> x])
    BY <2>8 DEF Lookup!Fits
  <2> QED BY <2>4, <2>6, <2>8, <2>9 DEF x, f
<1>5. CASE ~ EndsCall(pos)
  <2>1. r # NoReloc
    BY <1>2, <1>3, <1>5 DEF NoReloc
  <2>2. /\ r \in Relocation /\ r.offset = pos /\ r.type # "RELAX"
        /\ \E i \in 1 .. Len(relocs) : r = relocs[i]
    BY <1>1, <2>1, RelocAtFacts
  <2>3. r.type # "PCREL_LO12"
    BY <2>2 DEF GoodRelocs, relocs
  <2>4. f.place = r.place /\ SymVal(f) = SymVal(r) /\ (f = r \/ r.type = "CALL")
    BY <1>2, <1>5, <2>2, ProxyFacts
  <2>5. r.place # "missing" /\ r.type # "ALIGN"
    BY <1>3, <2>4 DEF Rejected
  <2>6. SymVal(r) \in Int
    BY <2>2, <2>5, SymValIsWord, Widths DEF Relocation
  <2> DEFINE x == SymVal(r)
             y == SymVal(r) - pos
  <2>7. x \in Int /\ y \in Int
    BY <1>1, <2>6
  <2>8. r.type \in {"HI20", "LO12", "PCREL_HI20", "CALL", "BRANCH", "JAL"}
    BY <2>2, <2>3, <2>5 DEF Relocation
  <2>9. CASE r.type = "HI20"
    <3>1. Wanted(pos) = [part |-> "high", of |-> x]
      BY <1>5, <2>5, <2>9 DEF Wanted
    <3>2. RelFn(f, pos, SymVal(f)) = High(x)
      BY <2>4, <2>9 DEF RelFn
    <3> HIDE DEF x
    <3>3. High(x) \in Word /\ Lookup!IsHigh(High(x), x)
      BY <2>7, HalvesAreWords, HalvesRecombine, Widths
    <3>4. Lookup!Fits(High(x), [part |-> "high", of |-> x])
      BY <3>3 DEF Lookup!Fits
    <3> QED BY <3>1, <3>2, <3>3, <3>4 DEF f
  <2>10. CASE r.type = "LO12"
    <3>1. Wanted(pos) = [part |-> "low", of |-> x]
      BY <1>5, <2>5, <2>10 DEF Wanted
    <3>2. RelFn(f, pos, SymVal(f)) = LowOf(x)
      BY <2>4, <2>10 DEF RelFn
    <3> HIDE DEF x
    <3>3. LowOf(x) \in Word /\ Lookup!IsLow(LowOf(x), x)
      BY <2>7, HalvesAreWords, HalvesRecombine, Widths
    <3>4. Lookup!Fits(LowOf(x), [part |-> "low", of |-> x])
      BY <3>3 DEF Lookup!Fits
    <3> QED BY <3>1, <3>2, <3>3, <3>4 DEF f
  <2>11. CASE r.type \in {"PCREL_HI20", "CALL"}
    <3>1. Wanted(pos) = [part |-> "high", of |-> y]
      BY <1>5, <2>5, <2>11 DEF Wanted
    <3>2. f.type \in {"PCREL_HI20", "CALL_HI"}
      BY <1>2, <1>5, <2>2, <2>11, CallFirstIs
    <3>3. RelFn(f, pos, SymVal(f)) = High(y)
      BY <2>4, <3>2 DEF RelFn
    <3> HIDE DEF y
    <3>4. High(y) \in Word /\ Lookup!IsHigh(High(y), y)
      BY <2>7, HalvesAreWords, HalvesRecombine, Widths
    <3>5. Lookup!Fits(High(y), [part |-> "high", of |-> y])
      BY <3>4 DEF Lookup!Fits
    <3> QED BY <3>1, <3>3, <3>4, <3>5 DEF f
  <2>12. CASE r.type \in {"BRANCH", "JAL"}
    <3>1. Wanted(pos) = [part |-> "whole", of |-> y % W]
      BY <1>5, <2>5, <2>12 DEF Wanted
    <3>2. RelFn(f, pos, SymVal(f)) = y % W
      BY <2>4, <2>12 DEF RelFn
    <3> HIDE DEF y
    <3>3. y % W \in Word
      BY <2>7, Widths, DivMod
    <3>4. Lookup!Fits(y % W, [part |-> "whole", of |-> y % W])
      BY DEF Lookup!Fits
    <3> QED BY <3>1, <3>2, <3>3, <3>4 DEF f
  <2> QED BY <2>8, <2>9, <2>10, <2>11, <2>12
<1> QED BY <1>4, <1>5

\* An instruction for which nothing is found wants nothing.
LEMMA NothingFits ==
    ASSUME NEW F \in Programs, prog \in F, pos \in Addr, StreamReady,
           prog.code[pos] = "imm", Found(pos).reloc = NoReloc
    PROVE  ~ EndsCall(pos) /\ RelocAt(prog, pos) = NoReloc
           /\ Lookup!Fits(NoValue, Wanted(pos))
<1> DEFINE f == Found(pos).reloc
           r == RelocAt(prog, pos)
           c == RelocAt(prog, pos - 1)
<1>1. pos \in Nat /\ pos \in Int /\ pos - 1 \in Int
  BY RelocAssumption DEF Addr
<1>2. f = IF EndsCall(pos) THEN CallSecond(c)
          ELSE IF r.type = "CALL" THEN CallFirst(r) ELSE r
  BY <1>1, FoundIs
<1>3. f.type = "none"
  BY DEF NoReloc
<1>4. ~ EndsCall(pos)
  <2> SUFFICES ASSUME EndsCall(pos) PROVE FALSE
    OBVIOUS
  <2>1. c.type = "CALL"
    BY DEF EndsCall
  <2>2. c \in Relocation
    BY <1>1, <2>1, RelocAtFacts DEF NoReloc
  <2> QED BY <1>2, <1>3, <2>2, CallSecondIs
<1>5. r.type # "CALL"
  <2> SUFFICES ASSUME r.type = "CALL" PROVE FALSE
    OBVIOUS
  <2>1. r \in Relocation
    BY <1>1, RelocAtFacts DEF NoReloc
  <2> QED BY <1>2, <1>3, <1>4, <2>1, CallFirstIs
<1>6. r = NoReloc
  BY <1>2, <1>4, <1>5
<1>7. Wanted(pos) = [part |-> "none", of |-> 0]
  BY <1>4, <1>6 DEF Wanted, NoReloc
<1>8. Lookup!Fits(NoValue, [part |-> "none", of |-> 0])
  BY Widths DEF Lookup!Fits
<1> QED BY <1>4, <1>6, <1>7, <1>8

-----------------------------------------------------------------------------
(* The steps.                                                              *)

LEMMA InitStream ==
    ASSUME Init
    PROVE  StreamInv
<1>1. PICK F \in Programs : prog \in F
  BY DEF Init
<1>2. /\ pos = Min(prog.starts) /\ pos \in Nat
      /\ \A a \in prog.starts : a \in Int /\ pos <= a
  BY <1>1, ProgramFacts, RelocAssumption DEF Init, Addr
<1>3. Len(relocs) \in Nat /\ 1 \in 1 .. Len(relocs) + 1
  BY <1>1, ProgramFacts
<1>4. ri \in 1 .. Len(relocs) + 1 /\ \A j \in 1 .. ri - 1 : relocs[j].type = "RELAX"
  BY <1>1, <1>3, SkipRelaxRange DEF Init
<1>5. PassedBefore(ri, pos)
  BY <1>4 DEF PassedBefore
<1>6. ~ EndsCall(pos) /\ ~ EndsCall(pos - 1)
  BY <1>2 DEF EndsCall
<1>7. FunctionsKnown
  BY <1>2 DEF FunctionsKnown
<1>8. StreamReady
  BY <1>4, <1>5, <1>6 DEF StreamReady, Init
<1>9. last = NoReloc /\ last.offset = -1 /\ last.type = "none"
  BY DEF Init, NoReloc
<1>10. LastIsOld
  BY <1>2, <1>9 DEF LastIsOld
<1>11. ~ IsCall(pos - 1)
  BY <1>9 DEF IsCall
<1>12. CallsFound
  BY <1>6, <1>11 DEF CallsFound
<1> QED BY <1>1, <1>2, <1>7, <1>8, <1>10, <1>12 DEF StreamInv

\* Where the next instruction ends a call.
LEMMA NextEndsCall ==
    ASSUME pos \in Nat, Min(prog.starts) \in Nat, Min(prog.starts) <= pos
    PROVE  EndsCall(pos + 1) <=> /\ RelocAt(prog, pos).type = "CALL"
                                 /\ RelocAt(prog, pos).place # "missing"
<1>1. pos + 1 - 1 = pos /\ pos + 1 > Min(prog.starts)
  OBVIOUS
<1> QED BY <1>1 DEF EndsCall

\* Without an immediate, an instruction neither begins nor ends a call.
LEMMA OutsideCalls ==
    ASSUME NEW F \in Programs, prog \in F, pos \in Addr, prog.code[pos] # "imm"
    PROVE  ~ EndsCall(pos) /\ RelocAt(prog, pos).type # "CALL"
<1>1. pos \in Int /\ pos - 1 \in Int /\ pos - 1 + 1 = pos
  BY RelocAssumption DEF Addr
<1>2. RelocAt(prog, pos).type # "CALL"
  BY <1>1, CallCovers
<1>3. RelocAt(prog, pos - 1).type # "CALL"
  BY <1>1, CallCovers
<1> QED BY <1>2, <1>3 DEF EndsCall

\* A step to the next instruction keeps the invariant when it leaves the stream
\* ready for that, and knows whether it has been at the end of a call.
LEMMA Advance ==
    ASSUME StreamInv, ~failed, pos \in Addr, UNCHANGED <<prog, failed>>, pos' = pos + 1,
           ri' \in 1 .. Len(relocs) + 1, PassedBefore(ri', pos + 1),
           proxies' = (IF EndsCall(pos + 1) THEN << CallSecond(RelocAt(prog, pos)) >>
                                            ELSE << >>),
           Entered \subseteq funcs',
           last'.offset \in Int, last'.offset <= pos,
           last'.offset = pos /\ last'.type = "CALL_LO" <=> EndsCall(pos),
           LET c == RelocAt(prog, pos - 1) IN
           EndsCall(pos) =>
               lastSymVal' = IF IsFunction(c) THEN TextAddr(c) ELSE SymVal(c)
    PROVE  StreamInv'
<1>1. pos \in Nat /\ pos' = pos + 1 /\ pos + 1 - 1 = pos
  BY DEF StreamInv
<1>2. \E F \in Programs : prog' \in F
  BY DEF StreamInv
<1>3. Min(prog'.starts) <= pos'
  <2>1. Min(prog.starts) \in Nat /\ Min(prog.starts) <= pos
    BY ProgramFacts DEF StreamInv
  <2> QED BY <1>1, <2>1
<1>4. PassedBefore(ri, pos)'
  BY <1>1 DEF PassedBefore, relocs
<1>5. FunctionsKnown'
  BY <1>1 DEF StreamInv, FunctionsKnown, Entered
<1>6. EndsCall(pos)' = EndsCall(pos + 1)
  BY <1>1 DEF EndsCall
<1>7. RelocAt(prog, pos - 1)' = RelocAt(prog, pos)
  BY <1>1
<1>8. proxies' = IF EndsCall(pos)' THEN << CallSecond(RelocAt(prog, pos - 1)') >>
                                   ELSE << >>
  BY <1>6, <1>7
<1>9. StreamReady'
  BY <1>4, <1>8 DEF StreamReady, relocs
<1>10. LastIsOld'
  BY <1>1 DEF LastIsOld
<1>11. CallsFound'
  <2>1. pos' - 1 = pos /\ pos' - 1 - 1 = pos - 1
    BY <1>1
  <2> QED BY <2>1 DEF CallsFound, IsCall, EndsCall, IsFunction, SymVal
<1> QED BY <1>1, <1>2, <1>3, <1>5, <1>9, <1>10, <1>11 DEF StreamInv

\* What the stream wants does not change.
LEMMA WantedStays ==
    ASSUME UNCHANGED prog
    PROVE  [a \in Addr |-> Wanted(a)]' = [a \in Addr |-> Wanted(a)]
BY DEF Wanted, EndsCall, SymVal, IsFunction

LEMMA IgnoreStep ==
    ASSUME pos \in Addr, prog.code[pos] # "imm", UNCHANGED <<prog, given>>, pos' = pos + 1
    PROVE  Lookup!LookupNext
<1>1. [a \in Addr |-> Wanted(a)]' = [a \in Addr |-> Wanted(a)]
  BY WantedStays
<1>2. pos \in DOMAIN [a \in Addr |-> Wanted(a)]
  OBVIOUS
<1>3. Wanted(pos).part = "none"
  BY DEF Wanted
<1>4. [a \in Addr |-> Wanted(a)][pos] = Wanted(pos)
  OBVIOUS
<1>5. Lookup!Ignore
  BY <1>1, <1>3, <1>4 DEF Lookup!Ignore
<1> QED BY <1>2, <1>5 DEF Lookup!LookupNext

LEMMA GiveStep ==
    ASSUME pos \in Addr, UNCHANGED prog, pos' = pos + 1,
           NEW v \in Word \cup {NoValue}, Lookup!Fits(v, Wanted(pos)),
           given' = [given EXCEPT ![pos] = v]
    PROVE  Lookup!LookupNext
<1>1. [a \in Addr |-> Wanted(a)]' = [a \in Addr |-> Wanted(a)]
  BY WantedStays
<1> DEFINE w == [a \in Addr |-> Wanted(a)]
<1>2. pos \in DOMAIN w /\ w[pos] = Wanted(pos)
  OBVIOUS
<1>3. v \in Lookup!Word \cup {Lookup!NoValue}
  BY Widths
<1>4. Lookup!Give
  BY <1>1, <1>2, <1>3 DEF Lookup!Give
<1> QED BY <1>2, <1>4 DEF Lookup!LookupNext

\* What the actions share: the program, and a stream that is ready.
LEMMA InvFacts ==
    ASSUME StreamInv
    PROVE  /\ \E F \in Programs : prog \in F
           /\ pos \in Nat /\ Min(prog.starts) \in Nat /\ Min(prog.starts) <= pos
           /\ last.offset \in Int /\ last.offset < pos
           /\ Len(relocs) \in Nat
           /\ \A j \in 1 .. Len(relocs) : relocs[j].offset \in Int
<1>1. PICK F \in Programs : prog \in F
  BY DEF StreamInv
<1>2. \A j \in 1 .. Len(relocs) : relocs[j].offset \in Int
  BY <1>1, ProgramFacts DEF Relocation, Addr
<1> QED BY <1>1, <1>2, ProgramFacts DEF StreamInv, LastIsOld

LEMMA PlainStep ==
    ASSUME StreamInv, Plain
    PROVE  StreamInv' /\ Lookup!LookupNext
<1>1. PICK F \in Programs : prog \in F
  BY InvFacts
<1>2. /\ ~failed /\ pos \in Addr /\ prog.code[pos] # "imm"
      /\ pos' = pos + 1 /\ funcs' = Entered
      /\ UNCHANGED <<prog, failed, ri, proxies, last, lastSymVal, given>>
  BY DEF Plain, At
<1>3. ~ EndsCall(pos) /\ RelocAt(prog, pos).type # "CALL"
  BY <1>1, <1>2, OutsideCalls
<1>4. ~ EndsCall(pos + 1)
  BY <1>3, InvFacts, NextEndsCall
<1>5. StreamReady
  BY <1>2 DEF StreamInv
<1>6. PassedBefore(ri', pos + 1)
  BY <1>2, <1>5, InvFacts DEF StreamReady, PassedBefore
<1>7. ri' \in 1 .. Len(relocs) + 1 /\ proxies' = << >>
  BY <1>2, <1>3, <1>5 DEF StreamReady
<1>8. last'.offset \in Int /\ last'.offset < pos
  BY <1>2, InvFacts
<1>9. StreamInv'
  BY <1>2, <1>3, <1>4, <1>6, <1>7, <1>8, InvFacts, Advance
<1>10. Lookup!LookupNext
  BY <1>2, IgnoreStep
<1> QED BY <1>9, <1>10

LEMMA SkipRelocationStep ==
    ASSUME StreamInv, SkipRelocation
    PROVE  StreamInv' /\ Lookup!LookupNext
<1> DEFINE g == GetReloc(ri, proxies, pos)
<1>1. PICK F \in Programs : prog \in F
  BY InvFacts
<1>2. /\ ~failed /\ pos \in Addr /\ prog.code[pos] # "imm"
      /\ pos' = pos + 1 /\ funcs' = Entered /\ ri' = g.ri /\ proxies' = g.proxies
      /\ UNCHANGED <<prog, failed, last, lastSymVal, given>>
  BY DEF SkipRelocation, At, Take
<1>3. ~ EndsCall(pos) /\ RelocAt(prog, pos).type # "CALL"
  BY <1>1, <1>2, OutsideCalls
<1>4. ~ EndsCall(pos + 1)
  BY <1>3, InvFacts, NextEndsCall
<1>5. StreamReady
  BY <1>2 DEF StreamInv
<1>6. g.ri \in 1 .. Len(relocs) + 1 /\ PassedBefore(g.ri, pos + 1) /\ g.proxies = << >>
  BY <1>1, <1>5, InvFacts, GetRelocIs
<1> HIDE DEF g
<1>7. last'.offset \in Int /\ last'.offset < pos
  BY <1>2, InvFacts
<1>8. StreamInv'
  BY <1>2, <1>3, <1>4, <1>6, <1>7, InvFacts, Advance
<1>9. Lookup!LookupNext
  BY <1>2, IgnoreStep
<1> QED BY <1>8, <1>9

LEMMA NoRelocationStep ==
    ASSUME StreamInv, NoRelocation
    PROVE  StreamInv' /\ Lookup!LookupNext
<1> DEFINE g == Found(pos)
<1>1. PICK F \in Programs : prog \in F
  BY InvFacts
<1>2. /\ ~failed /\ pos \in Addr /\ prog.code[pos] = "imm"
      /\ pos' = pos + 1 /\ funcs' = Entered /\ ri' = g.ri /\ proxies' = g.proxies
      /\ given' = [given EXCEPT ![pos] = NoValue] /\ g.reloc = NoReloc
      /\ UNCHANGED <<prog, failed, last, lastSymVal>>
  BY DEF NoRelocation, At, Take
<1>3. StreamReady
  BY <1>2 DEF StreamInv
<1>4. /\ ~ EndsCall(pos) /\ RelocAt(prog, pos) = NoReloc
      /\ Lookup!Fits(NoValue, Wanted(pos))
  BY <1>1, <1>2, <1>3, NothingFits
<1>5. RelocAt(prog, pos).type # "CALL"
  BY <1>4 DEF NoReloc
<1>6. ~ EndsCall(pos + 1)
  BY <1>5, InvFacts, NextEndsCall
<1>7. g.ri \in 1 .. Len(relocs) + 1 /\ PassedBefore(g.ri, pos + 1) /\ g.proxies = << >>
  BY <1>1, <1>3, <1>5, InvFacts, FoundIs
<1> HIDE DEF g
<1>8. last'.offset \in Int /\ last'.offset < pos
  BY <1>2, InvFacts
<1>9. StreamInv'
  BY <1>2, <1>4, <1>6, <1>7, <1>8, InvFacts, Advance
<1>10. Lookup!LookupNext
  BY <1>2, <1>4, GiveStep
<1> QED BY <1>9, <1>10

LEMMA HandleRelocationStep ==
    ASSUME GoodRelocs, StreamInv, HandleRelocation
    PROVE  StreamInv' /\ Lookup!LookupNext
<1> DEFINE g == Found(pos)
           f == g.reloc
           r == RelocAt(prog, pos)
           c == RelocAt(prog, pos - 1)
           v == RelFn(f, pos, SymVal(f))
<1>1. PICK F \in Programs : prog \in F
  BY InvFacts
<1>2. /\ ~failed /\ pos \in Addr /\ prog.code[pos] = "imm"
      /\ f # NoReloc /\ ~ Rejected(f)
      /\ pos' = pos + 1 /\ ri' = g.ri /\ proxies' = g.proxies
      /\ given' = [given EXCEPT ![pos] = v]
      /\ lastSymVal' = (IF IsFunction(f) THEN TextAddr(f) ELSE SymVal(f))
      /\ last' = f
      /\ Entered \subseteq funcs'
      /\ UNCHANGED <<prog, failed>>
  BY DEF HandleRelocation, At, Take
<1>3. StreamReady
  BY <1>2 DEF StreamInv
<1>4. v \in Word /\ Lookup!Fits(v, Wanted(pos))
  BY <1>1, <1>2, <1>3, ValueFits
<1>5. Lookup!LookupNext
  <2> HIDE DEF v
  <2> QED BY <1>2, <1>4, GiveStep
<1>6. /\ f = IF EndsCall(pos) THEN CallSecond(c)
             ELSE IF r.type = "CALL" THEN CallFirst(r) ELSE r
      /\ g.ri \in 1 .. Len(relocs) + 1 /\ PassedBefore(g.ri, pos + 1)
      /\ g.proxies = IF r.type = "CALL" THEN << CallSecond(r) >> ELSE << >>
      /\ r.type = "CALL" => ~ EndsCall(pos)
  BY <1>1, <1>3, InvFacts, FoundIs
<1> HIDE DEF g, v
<1>7. pos \in Int /\ pos - 1 \in Int
  BY InvFacts
<1>8. EndsCall(pos) => c.type = "CALL" /\ c \in Relocation /\ c.offset = pos - 1
  BY <1>1, <1>7, RelocAtFacts DEF EndsCall, NoReloc
<1>9. r = NoReloc \/ (r \in Relocation /\ r.offset = pos)
  BY <1>1, <1>7, RelocAtFacts
<1>10. EndsCall(pos + 1) <=> r.type = "CALL"
  <2>1. EndsCall(pos + 1) <=> r.type = "CALL" /\ r.place # "missing"
    BY InvFacts, NextEndsCall
  <2>2. ASSUME r.type = "CALL" PROVE r.place # "missing"
    <3>1. f = CallFirst(r) /\ r \in Relocation
      BY <1>6, <1>9, <2>2 DEF NoReloc
    <3>2. f.place = r.place
      BY <2>2, <3>1, ProxyFacts
    <3> QED BY <1>2, <3>2 DEF Rejected
  <2> QED BY <2>1, <2>2
<1>11. proxies' = IF EndsCall(pos + 1) THEN << CallSecond(r) >> ELSE << >>
  BY <1>2, <1>6, <1>10
<1>12. f.offset = pos /\ (f.type = "CALL_LO" <=> EndsCall(pos))
  <2>1. CASE EndsCall(pos)
    BY <1>6, <1>7, <1>8, <2>1, CallSecondIs
  <2>2. CASE ~ EndsCall(pos) /\ r.type = "CALL"
    BY <1>6, <1>9, <2>2, CallFirstIs DEF NoReloc
  <2>3. CASE ~ EndsCall(pos) /\ r.type # "CALL"
    <3>1. f = r /\ r \in Relocation /\ r.offset = pos
      BY <1>2, <1>6, <1>9, <2>3
    <3> QED BY <2>3, <3>1 DEF Relocation
  <2> QED BY <2>1, <2>2, <2>3
<1>13. EndsCall(pos) => lastSymVal' = IF IsFunction(c) THEN TextAddr(c) ELSE SymVal(c)
  BY <1>2, <1>6, <1>8, ProxyFacts
<1> HIDE DEF f
<1>14. /\ last'.offset \in Int /\ last'.offset <= pos
       /\ last'.offset = pos /\ last'.type = "CALL_LO" <=> EndsCall(pos)
  BY <1>2, <1>7, <1>12
<1>15. StreamInv'
  BY <1>2, <1>6, <1>11, <1>13, <1>14, Advance
<1> QED BY <1>5, <1>15

LEMMA FailStep ==
    ASSUME StreamInv, Fail
    PROVE  StreamInv' /\ UNCHANGED <<pos, [a \in Addr |-> Wanted(a)], given>>
<1>1. failed' = TRUE /\ UNCHANGED <<prog, pos, last, lastSymVal, given>>
      /\ funcs' = Entered
  BY DEF Fail
<1>2. StreamInv'
  BY <1>1 DEF StreamInv, FunctionsKnown, Entered, LastIsOld, CallsFound, IsCall, EndsCall,
     IsFunction, SymVal
<1> QED BY <1>1, <1>2, WantedStays

LEMMA StutterStep ==
    ASSUME StreamInv, UNCHANGED vars
    PROVE  StreamInv' /\ UNCHANGED <<pos, [a \in Addr |-> Wanted(a)], given>>
<1>1. UNCHANGED <<prog, pos, ri, proxies, last, lastSymVal, funcs, given, failed>>
  BY DEF vars
<1>2. StreamInv'
  BY <1>1 DEF StreamInv, StreamReady, PassedBefore, relocs, FunctionsKnown, LastIsOld,
     CallsFound, IsCall, EndsCall, IsFunction, SymVal
<1> QED BY <1>1, <1>2, WantedStays

LEMMA StepStream ==
    ASSUME GoodRelocs, StreamInv, [Next]_vars
    PROVE  StreamInv' /\ [Lookup!LookupNext]_<<pos, [a \in Addr |-> Wanted(a)], given>>
<1>1. CASE Plain
  BY <1>1, PlainStep
<1>2. CASE SkipRelocation
  BY <1>2, SkipRelocationStep
<1>3. CASE NoRelocation
  BY <1>3, NoRelocationStep
<1>4. CASE HandleRelocation
  BY <1>4, HandleRelocationStep
<1>5. CASE Fail
  BY <1>5, FailStep
<1>6. CASE UNCHANGED vars
  BY <1>6, StutterStep
<1> QED BY <1>1, <1>2, <1>3, <1>4, <1>5, <1>6 DEF Next

-----------------------------------------------------------------------------
\* translateBranch is told that a jalr ends a call exactly when it does, and to
\* which symbol: no relocation handled earlier is taken for that of the call.
THEOREM CallsFoundCorrect ==
    ASSUME GoodRelocs
    PROVE  Spec => []CallsFound
<1>1. Init => StreamInv
  BY InitStream
<1>2. StreamInv /\ [Next]_vars => StreamInv'
  BY StepStream
<1>3. StreamInv => CallsFound
  BY DEF StreamInv
<1> QED BY <1>1, <1>2, <1>3, PTL DEF Spec

\* The assertion of handleRelocation: a function that it has to create lies
\* ahead.
THEOREM NewFunctionsAheadCorrect ==
    ASSUME GoodRelocs
    PROVE  Spec => []NewFunctionsAhead
<1>1. Init => StreamInv
  BY InitStream
<1>2. StreamInv /\ [Next]_vars => StreamInv'
  BY StepStream
<1>3. StreamInv => NewFunctionsAhead
  <2> SUFFICES ASSUME StreamInv, NEW i \in 1 .. Len(relocs),
                      IsFunction(relocs[i])
               PROVE  TextAddr(relocs[i]) \in Entered \/ TextAddr(relocs[i]) > pos
    BY DEF NewFunctionsAhead
  <2>1. PICK F \in Programs : prog \in F
    BY InvFacts
  <2>2. TextAddr(relocs[i]) \in prog.starts /\ TextAddr(relocs[i]) \in Nat /\ pos \in Nat
    BY <2>1, ProgramFacts, InvFacts, RelocAssumption DEF IsFunction, Addr
  <2> QED BY <2>2 DEF StreamInv, FunctionsKnown, Entered
<1> QED BY <1>1, <1>2, <1>3, PTL DEF Spec

\* Reading the relocations as a stream, in step with the instructions that ask
\* for one, gives each of them what it would get by looking its address up.
THEOREM StreamImplementsLookup ==
    ASSUME GoodRelocs
    PROVE  Spec => ImplementsLookup
<1>1. Init => StreamInv
  BY InitStream
<1>2. StreamInv /\ [Next]_vars => StreamInv'
  BY StepStream
<1>3. StreamInv /\ [Next]_vars =>
          [Lookup!LookupNext]_<<pos, [a \in Addr |-> Wanted(a)], given>>
  BY StepStream
<1>4. Init => Lookup!LookupInit
  BY DEF Init, Lookup!LookupInit, NoValue, Lookup!NoValue
<1> QED BY <1>1, <1>2, <1>3, <1>4, PTL DEF Spec, ImplementsLookup, Lookup!LookupSpec
=============================================================================
