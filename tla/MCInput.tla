------------------------------ MODULE MCInput ------------------------------
(* Small keyboards and a mouse whose packets turn the wheel down.  The     *)
(* movement byte 8 would pass for a first byte if the handler lost its     *)
(* place.                                                                  *)
EXTENDS Input

MCScancodes == 0..255
MCPackets == {<<8, 8, 0, 255>>}
=============================================================================
