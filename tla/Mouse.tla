------------------------------- MODULE Mouse -------------------------------
(***************************************************************************)
(* The PS/2 mouse interrupt handler, src/src/drivers/mouse.c: it frames    *)
(* the byte stream into packets and turns wheel movement into key codes on *)
(* the keyboard ring.  Only mouse_packet[3] is ever used, at once, so the  *)
(* packet array is not state here.                                         *)
(***************************************************************************)
EXTENDS Kbd, MouseState

VARIABLE mouse_cycle     \* index of the next packet byte

mouseVars == <<mouse_cycle, has_wheel>>

Bit3(data) == (data \div 8) % 2 = 1

(* (int8_t)mouse_packet[3]                                                 *)
Int8(data) == IF data < 128 THEN data ELSE data - 256

(* Mutant: every packet is taken to have a wheel byte.                     *)
NextCycleFour(data) == CASE mouse_cycle = 0 -> IF Bit3(data) THEN 1 ELSE 0
                         [] mouse_cycle \in {1, 2} -> mouse_cycle + 1
                         [] mouse_cycle = 3 -> 0

(* The packet state machine.  A first byte without bit 3 is skipped.       *)
NextCycle(data) == CASE mouse_cycle = 0 -> IF Bit3(data) THEN 1 ELSE 0
                     [] mouse_cycle = 1 -> 2
                     [] mouse_cycle = 2 -> IF has_wheel THEN 3 ELSE 0
                     [] mouse_cycle = 3 -> 0

WheelKey(data) == CASE mouse_cycle # 3 -> NoKey
                    [] mouse_cycle = 3 /\ Int8(data) > 0 -> KEY_SCROLL_UP
                    [] mouse_cycle = 3 /\ Int8(data) < 0 -> KEY_SCROLL_DOWN
                    [] mouse_cycle = 3 /\ Int8(data) = 0 -> NoKey

(* Mutant: the handler takes every byte for the mouse's.                   *)
MouseHandlerAnyByte(full, aux, data) ==
    /\ mouse_cycle' = IF full THEN NextCycle(data) ELSE mouse_cycle
    /\ EnqueueIfKey(IF full THEN WheelKey(data) ELSE NoKey)
    /\ UNCHANGED <<has_wheel, decoder>>

(* mouse_handler: full and aux are the status bits 0 (a byte waits) and 5  *)
(* (it is the mouse's), data the byte.  A byte of the keyboard is read and *)
(* thrown away.                                                            *)
mouse_handler(full, aux, data) ==
    /\ mouse_cycle' = IF full /\ aux THEN NextCycle(data) ELSE mouse_cycle
    /\ EnqueueIfKey(IF full /\ aux THEN WheelKey(data) ELSE NoKey)
    /\ UNCHANGED <<has_wheel, decoder>>
=============================================================================
