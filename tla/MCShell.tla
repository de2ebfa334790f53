------------------------------ MODULE MCShell ------------------------------
(* One file slot, taken by /home until it is removed, and names in two     *)
(* directories for it; one process slot besides the two that are there     *)
(* from the start.  The longer text is cut where a file ends, "long1" is   *)
(* cut to "long" when it is stored; the other names fit.                   *)
EXTENDS Shell

h == [id |-> "home", len |-> 4]
f == [id |-> "f", len |-> 1]
Abs(comps) == [abs |-> TRUE, comps |-> comps]
Rel(comps) == [abs |-> FALSE, comps |-> comps]

MCArgs == {Abs(<<h>>), Rel(<<f>>)}
MCTexts == {<<"t">>, <<"t", "u">>}
MCHome == <<h>>
MCTree == <<[path |-> <<h>>, dir |-> TRUE, data |-> <<>>]>>
MCSystem == {}

MCShort == {"system", "shell", "a", "b"}
MCLong == {"a", "long", "long1"}
MCStored == [n \in MCShort \cup MCLong |-> IF n = "long1" THEN "long" ELSE n]
=============================================================================
