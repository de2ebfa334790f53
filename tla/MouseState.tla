----------------------------- MODULE MouseState -----------------------------
(* What mouse_init leaves behind for the interrupt handler of the mouse    *)
(* (src/src/drivers/mouse.c): whether a packet has a fourth byte.          *)

VARIABLE has_wheel
=============================================================================
