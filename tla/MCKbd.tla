------------------------------- MODULE MCKbd -------------------------------
(* The keyboard driver with a ring of three slots under bytes that reach   *)
(* every branch of kbd_handler: the prefix, both shifts, Alt and AltGr,    *)
(* an arrow, a prefixed unknown key, releases, a letter with three levels  *)
(* and a key without a code.                                               *)
EXTENDS Kbd

MCScancodes == {\hE0, \h2A, \hAA, \h38, \hB8, \h48, \h10, \h90, \h1D}
=============================================================================
