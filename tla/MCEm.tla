-------------------------------- MODULE MCEm --------------------------------
(* /f is an ordinary file, /s a system file; there is room for one of     *)
(* them.  "xx" is the only known word, and words of one letter count.      *)
EXTENDS Em

f == Comp("f", 1)
s == Comp("s", 1)

MCPaths == {<<f>>, <<s>>}
MCSystem == {s}
MCNone == <<>>
MCCmds == {"q", "s", "wq", "-m"}
MCLetters == {"x"}
MCDictionary == {<<"x", "x">>}

(* key is set anew by whatever reads a key and read by no guard, so states *)
(* that differ in it alone have the same steps.                            *)
EmView == <<fsvars, text, mode, cmd_buf, cur_filename, selected>>
=============================================================================
