--------------------------- MODULE MCRelocStream ---------------------------
(***************************************************************************)
(* Model-checking instances of RelocStream.                                *)
(***************************************************************************)
EXTENDS RelocStream, SequencesExt

\* The host puts functions elsewhere than the guest.
MCHostAddr == [a \in Addr |-> (3 * a + 9) % W]

Target(place, hasSym, symAddr, addend) ==
    [place |-> place, hasSym |-> hasSym, symAddr |-> symAddr, addend |-> addend]

None == [type |-> "none"]

\* One choice for each address, with its target; with RELAX marks behind each
\* of them or behind none.
RelocsOf(choice, relax) ==
    LET rel(a, type) == [offset |-> a, type |-> type, hiPC |-> 0,
                         place |-> choice[a].target.place,
                         hasSym |-> choice[a].target.hasSym,
                         symAddr |-> choice[a].target.symAddr,
                         addend |-> choice[a].target.addend]
        at(a) == IF choice[a].type = "none" THEN << >>
                 ELSE IF a \in relax
                 THEN << rel(a, choice[a].type), rel(a, "RELAX") >>
                 ELSE << rel(a, choice[a].type) >>
    IN  FlattenSeq([i \in 1 .. Size |-> at(i - 1)])

\* Every order of instructions and relocations, to a function or label of the
\* section and to data.
Structures ==
    LET targets == {Target("text", TRUE, Size - 1, 0), Target("data", TRUE, 1, 2)}
        align == [type |-> "ALIGN", target |-> Target("data", FALSE, 0, 0)]
        cells == ({"plain", "zero", "imm"} \X {None})
                   \cup ({"imm"} \X [type : {"HI20", "LO12", "CALL"}, target : targets])
                   \cup ({"zero", "imm"} \X {align})
        sections == {s \in [Addr -> cells] :
                        \A a \in Addr : s[a][2].type = "CALL" =>
                            a + 1 \in Addr /\ s[a + 1] = <<"imm", None>>}
    IN  {[code   |-> [a \in Addr |-> s[a][1]],
          relocs |-> RelocsOf([a \in Addr |-> s[a][2]], relax),
          starts |-> starts, base |-> W - 2, useICaller |-> FALSE] :
            s \in sections, relax \in {{}, Addr}, starts \in {{0}, {1, Size - 1}}}

\* Every kind of target and every section base, for each kind of relocation.
Values ==
    LET targets == {Target("text", TRUE, a, 0) : a \in {0, Size - 1}}
            \cup {Target("text", FALSE, 0, a) : a \in {0, 1}}
            \cup {Target("data", TRUE, 1, 2), Target("data", FALSE, 1, 3),
                  Target("external", TRUE, 0, 0), Target("missing", TRUE, 0, 0)}
        choice(type1, type2, t1, t2) ==
            [a \in Addr |-> CASE a = 0 /\ type1 # "none" -> [type |-> type1, target |-> t1]
                              [] a = Size - 2 /\ type2 # "none" -> [type |-> type2, target |-> t2]
                              [] OTHER -> None]
    IN  {[code |-> [a \in Addr |-> "imm"], relocs |-> RelocsOf(choice(p[1], p[2], t1, t2), {}),
          starts |-> starts, base |-> base, useICaller |-> icaller] :
            p \in {<<"HI20", "LO12">>, <<"CALL", "JAL">>, <<"BRANCH", "CALL">>, <<"PCREL_HI20", "none">>},
            t1 \in targets, t2 \in targets, starts \in {{0}, {0, Size - 1}},
            base \in Word, icaller \in BOOLEAN}

MCPrograms == {Structures, Values}
=============================================================================
