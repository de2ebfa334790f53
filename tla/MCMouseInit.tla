---------------------------- MODULE MCMouseInit ----------------------------
(* 0x03 is the make code of the "2" key and also the IntelliMouse          *)
(* identifier, 0x1C that of Enter, pressed in the boot loader's menu.      *)
(* 0x65: keyboard interrupt and translation on, mouse clock   *)
(* off, as firmware leaves it.                                             *)
EXTENDS MouseInit

MCStale == {<<>>} \cup {<<b>> : b \in {3, \h1C}}
                  \cup {<<b, d>> : b \in {3, \h1C}, d \in {3, \h1C}}
=============================================================================
