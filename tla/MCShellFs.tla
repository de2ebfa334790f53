----------------------------- MODULE MCShellFs -----------------------------
(* Two names, /home and /boot, of four characters each: paths of at most   *)
(* two components fit into eleven characters.  Two slots (more where a    *)
(* run sets them) and a log of two entries, so that both tables overflow.  *)
EXTENDS ShellFs

h == Comp("home", 4)
b == Comp("boot", 4)
Abs(comps) == [abs |-> TRUE, comps |-> comps]
Rel(comps) == [abs |-> FALSE, comps |-> comps]

MCArgs == {Abs(<<h>>), Rel(<<b>>), Rel(<<DotDot>>)}
MCTexts == {<<>>, <<"t", "u">>}
MCHome == <<h>>
Dir(path) == [path |-> path, dir |-> TRUE, data |-> <<>>]
MCTree == <<Dir(<<h>>), Dir(<<b>>)>>
MCTreeFile == MCTree \o <<[path |-> <<b, b>>, dir |-> FALSE, data |-> <<"t">>]>>
MCSystem == {b}
=============================================================================
