------------------------------- MODULE KbdMap -------------------------------
(***************************************************************************)
(* The key codes of include/kbd.h and the scancode tables of kbd.c.  The   *)
(* tables hold C "int"s initialised from "char" constants; char is signed  *)
(* on x86-64, so the code page 437 letters ((char)0x81 and the like) are   *)
(* negative numbers, as in the program.                                    *)
(***************************************************************************)
EXTENDS Integers, Sequences

KEY_UP          == \h8001
KEY_DOWN        == \h8002
KEY_LEFT        == \h8003
KEY_RIGHT       == \h8004
KEY_HOME        == \h8005
KEY_END         == \h8006
KEY_PGUP        == \h8007
KEY_PGDN        == \h8008
KEY_INSERT      == \h8009
KEY_DELETE      == \h800A
KEY_ALT         == \h800B
KEY_SCROLL_UP   == \h800C
KEY_SCROLL_DOWN == \h800D

NoKey == 0      \* "c = 0": nothing is queued

(* Scancodes 0x01 .. 0x39 of each table; the few entries above 0x39 are in *)
(* KeypadKey.                                                              *)
kbd_map_de_normal ==
   <<27, 49, 50, 51, 52, 53, 54, 55, 56, 57, 48, -31, 96, 8, 9, 113, 119,
     101, 114, 116, 122, 117, 105, 111, 112, -127, 43, 10, 0, 97, 115, 100,
     102, 103, 104, 106, 107, 108, -108, -124, 94, 0, 35, 121, 120, 99,
     118, 98, 110, 109, 44, 46, 45, 0, 42, 0, 32>>

kbd_map_de_shifted ==
   <<27, 33, 34, 21, 36, 37, 38, 47, 40, 41, 61, 63, 96, 8, 9, 81, 87, 69,
     82, 84, 90, 85, 73, 79, 80, -102, 42, 10, 0, 65, 83, 68, 70, 71, 72,
     74, 75, 76, -103, -114, -8, 0, 39, 89, 88, 67, 86, 66, 78, 77, 59, 58,
     95, 0, 42, 0, 32>>

kbd_map_en_normal ==
   <<27, 49, 50, 51, 52, 53, 54, 55, 56, 57, 48, 45, 61, 8, 9, 113, 119,
     101, 114, 116, 121, 117, 105, 111, 112, 91, 93, 10, 0, 97, 115, 100,
     102, 103, 104, 106, 107, 108, 59, 39, 96, 0, 92, 122, 120, 99, 118,
     98, 110, 109, 44, 46, 47, 0, 42, 0, 32>>

kbd_map_en_shifted ==
   <<27, 33, 64, 35, 36, 37, 94, 38, 42, 40, 41, 95, 43, 8, 9, 81, 87, 69,
     82, 84, 89, 85, 73, 79, 80, 123, 125, 10, 0, 65, 83, 68, 70, 71, 72,
     74, 75, 76, 58, 34, 126, 0, 124, 90, 88, 67, 86, 66, 78, 77, 60, 62,
     63, 0, 42, 0, 32>>

KeypadKey(s, layout, shift) ==
    CASE s = \h4A -> 45
      [] s = \h4E -> 43
      [] s = \h56 /\ layout = "de" -> IF shift THEN 62 ELSE 60
      [] OTHER -> NoKey

kbd_map(layout, shift) ==
    CASE layout = "de" /\ ~shift -> kbd_map_de_normal
      [] layout = "de" /\ shift  -> kbd_map_de_shifted
      [] layout = "en" /\ ~shift -> kbd_map_en_normal
      [] layout = "en" /\ shift  -> kbd_map_en_shifted

TableKey(s, layout, shift) ==
    IF s \in 1..\h39 THEN kbd_map(layout, shift)[s]
                     ELSE KeypadKey(s, layout, shift)

(* The third level of the German layout; every other key is dead there.    *)
AltGrKey(s) ==
    CASE s = \h10 -> 64   [] s = \h03 -> -3   [] s = \h04 -> -4
      [] s = \h08 -> 123  [] s = \h09 -> 91   [] s = \h0A -> 93
      [] s = \h0B -> 125  [] s = \h0C -> 92   [] s = \h12 -> 101
      [] s = \h1B -> 126  [] s = \h32 -> -26  [] s = \h56 -> 124
      [] OTHER -> NoKey

(* Navigation keys: the same codes with and without the 0xE0 prefix.       *)
NavKey(s) ==
    CASE s = \h48 -> KEY_UP    [] s = \h50 -> KEY_DOWN
      [] s = \h4B -> KEY_LEFT  [] s = \h4D -> KEY_RIGHT
      [] s = \h47 -> KEY_HOME  [] s = \h4F -> KEY_END
      [] s = \h49 -> KEY_PGUP  [] s = \h51 -> KEY_PGDN
      [] s = \h53 -> KEY_DELETE
      [] OTHER -> NoKey

(* Only the prefixed 0x52 is Insert.                                       *)
ExtendedKey(s) == IF s = \h52 THEN KEY_INSERT ELSE NavKey(s)

(* The code kbd_handler queues for an unprefixed make code.                *)
PlainKey(s, layout, shift, altgr) ==
    IF NavKey(s) # NoKey THEN NavKey(s)
    ELSE IF layout = "de" /\ altgr THEN AltGrKey(s)
    ELSE TableKey(s, layout, shift)
=============================================================================
