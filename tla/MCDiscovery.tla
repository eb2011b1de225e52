------------------------------ MODULE MCDiscovery ------------------------------
(* Small file systems and layouts for Discovery.                           *)
EXTENDS Discovery

CONSTANTS D1, D2, F1, F2

MCDirs == {D1, D2}
MCFiles == {F1, F2}

(* Either directory may hold the other, or itself, under "s"; D1 may hold  *)
(* D2 under "t" as well.                                                   *)
MCFileSystems ==
    {[entry |-> e, subdir |-> d, skipped |-> k[1], undecodable |-> k[2], header |-> h] :
        e \in [MCDirs -> [Leaves -> MCFiles \cup {Absent}]],
        d \in {d \in [MCDirs -> [Subdirs -> MCDirs \cup {Absent}]] :
                    d[D2]["t"] = Absent /\ d[D1]["t"] # D1},
        k \in {<<{}, {}>>, <<{<<D1, "SKILL.md">>}, {}>>, <<{<<D1, "s">>}, {D2}>>},
        h \in {h \in [MCFiles -> {"named", "unnamed", "invalid"}] : h[F1] # "invalid"}}

Layout(explicit, user, agents, global, chain) ==
    [explicit |-> explicit, user |-> user, agents |-> agents, global |-> global, chain |-> chain]

At(node, git) == [node |-> node, git |-> git]

SkillLayouts == {
    Layout(<<D1>>, <<D2, Absent, Absent>>, <<At(Absent, FALSE)>>, Absent, <<>>),
    Layout(<<Absent, F2>>, <<Absent, D1, Absent>>, <<At(D2, TRUE), At(D1, FALSE)>>, Absent, <<>>)}

(* Three directories with two candidates each, a link among them or not.   *)
ContextLayouts ==
    {Layout(<<>>, <<Absent, Absent, Absent>>, <<>>, global, chain) :
        global \in MCFiles \cup {Absent},
        chain \in [1 .. 3 -> (MCFiles \cup {Absent}) \X (MCFiles \cup {Absent})]}

AnyFileSystem == CHOOSE f \in MCFileSystems : TRUE

MCSurroundings ==
    [fs : MCFileSystems, layout : SkillLayouts] \cup [fs : {AnyFileSystem}, layout : ContextLayouts]
=============================================================================
