------------------------------- MODULE Input -------------------------------
(***************************************************************************)
(* The whole input path: the keyboard and the mouse (external devices), the *)
(* two interrupt handlers, the shared ring, and the kernel thread that     *)
(* reads it.                                                               *)
(*                                                                         *)
(* A key is known by its scancode sequences: pressing or holding it sends  *)
(* make(k), releasing it sends break(k).  The bytes wait in the device and *)
(* the 8042 until a handler reads them, in order; a pending byte keeps its *)
(* interrupt request raised in the PIC.  While mouse_init polled, the      *)
(* mouse's answers raised IRQ 12 too, and nobody took that request: it may *)
(* still be there when interrupts come on, with no byte behind it or with  *)
(* one of the keyboard's in the register (stray12).  A request of IRQ 1    *)
(* left over in the same way is not modelled.                              *)
(***************************************************************************)
EXTENDS Mouse

CONSTANTS Keys,       \* the keys of the keyboard, among those of make below
          Packets,    \* the movement packets the mouse may send
          WireMax     \* bound: bytes under way from one device

VARIABLES held,       \* the keys that are down
          wire,       \* bytes sent by the keyboard and not yet read
          mwire,      \* bytes sent by the mouse and not yet read: its place
                      \* in its packet, and its value
          stray12     \* the request mouse_init left: "none", "pending", or
                      \* "ate": served, and it cost a byte of the keyboard

devVars == <<held, wire, mwire, stray12>>
vars == <<kbdVars, mouseVars, devVars>>

(* Set 1 scancodes of the external keyboard.                               *)
make(k) ==
    CASE k = "lshift" -> <<\h2A>>
      [] k = "rshift" -> <<\h36>>
      [] k = "lalt"   -> <<\h38>>
      [] k = "altgr"  -> <<\hE0, \h38>>
      [] k = "q"      -> <<\h10>>
      [] k = "up"     -> <<\hE0, \h48>>
      [] k = "prtsc"  -> <<\hE0, \h2A, \hE0, \h37>>

break(k) ==
    CASE k = "lshift" -> <<\hAA>>
      [] k = "rshift" -> <<\hB6>>
      [] k = "lalt"   -> <<\hB8>>
      [] k = "altgr"  -> <<\hE0, \hB8>>
      [] k = "q"      -> <<\h90>>
      [] k = "up"     -> <<\hE0, \hC8>>
      [] k = "prtsc"  -> <<\hE0, \hB7, \hE0, \hAA>>

PacketLen == IF has_wheel THEN 4 ELSE 3

(* The devices: the keyboard has keys of the table above and sends bytes   *)
(* the handler is specified for; a packet is three or four bytes (a plain  *)
(* mouse leaves out the last), and the first has bit 3 set, as the comment *)
(* in mouse_handler says of every PS/2 mouse.                              *)
ASSUME KeysAssumption ==
    /\ Keys \subseteq {"lshift", "rshift", "lalt", "altgr", "q", "up", "prtsc"}
    /\ \A k \in Keys :
          /\ \A i \in 1..Len(make(k))  : make(k)[i]  \in Scancodes
          /\ \A i \in 1..Len(break(k)) : break(k)[i] \in Scancodes
ASSUME PacketsAssumption ==
    \A packet \in Packets : packet \in [1..4 -> 0..255] /\ Bit3(packet[1])
ASSUME WireMaxAssumption == WireMax \in Nat

(* mouse_init has told a wheel mouse from a plain one (see MouseInit).     *)
Init ==
    /\ KbdInit
    /\ mouse_cycle = 0
    /\ has_wheel \in BOOLEAN
    /\ held = {}
    /\ wire = <<>>
    /\ mwire = <<>>
    /\ stray12 \in {"none", "pending"}

KeyDown(k) ==
    /\ Len(wire) + Len(make(k)) <= WireMax
    /\ held' = held \cup {k}
    /\ wire' = wire \o make(k)
    /\ UNCHANGED <<kbdVars, mouseVars, mwire, stray12>>

KeyUp(k) ==
    /\ k \in held
    /\ Len(wire) + Len(break(k)) <= WireMax
    /\ held' = held \ {k}
    /\ wire' = wire \o break(k)
    /\ UNCHANGED <<kbdVars, mouseVars, mwire, stray12>>

MouseMove(packet) ==
    /\ mwire = <<>>
    /\ mwire' = [i \in 1..PacketLen |-> <<i - 1, packet[i]>>]
    /\ UNCHANGED <<kbdVars, mouseVars, held, wire, stray12>>

Environment ==
    \/ \E k \in Keys : KeyDown(k) \/ KeyUp(k)
    \/ \E packet \in Packets : MouseMove(packet)

KbdIRQ ==
    /\ wire # <<>>
    /\ IRQ1(Head(wire))
    /\ wire' = Tail(wire)
    /\ UNCHANGED <<mouseVars, held, mwire, stray12>>

(* The mouse's byte is in the register; a request left over is the same    *)
(* bit of the PIC.                                                         *)
MouseByte ==
    /\ mwire # <<>>
    /\ mouse_handler(TRUE, TRUE, Head(mwire)[2])
    /\ mwire' = Tail(mwire)
    /\ stray12' = IF stray12 = "pending" THEN "none" ELSE stray12
    /\ UNCHANGED wire

(* A stray request that meets a byte of the keyboard.  The keyboard's own  *)
(* request stays up, and what kbd_handler then finds in the emptied        *)
(* register is that byte once more or the one that follows it.             *)
StrayTakesKey ==
    /\ stray12 = "pending" /\ wire # <<>>
    /\ mouse_handler(TRUE, FALSE, Head(wire))
    /\ \/ wire' = wire /\ stray12' = "none"
       \/ wire' = Tail(wire) /\ stray12' = "ate"
    /\ UNCHANGED mwire

(* A stray request with nothing in the register.                           *)
StrayFindsNothing ==
    /\ stray12 = "pending" /\ wire = <<>> /\ mwire = <<>>
    /\ mouse_handler(FALSE, FALSE, 0)
    /\ stray12' = "none"
    /\ UNCHANGED <<wire, mwire>>

MouseIRQ ==
    /\ Interrupt
    /\ MouseByte \/ StrayTakesKey \/ StrayFindsNothing
    /\ UNCHANGED held

Kernel ==
    /\ BootSti \/ Caller \/ GetcharStep
    /\ UNCHANGED <<mouseVars, devVars>>

Next == Kernel \/ KbdIRQ \/ MouseIRQ \/ Environment

(* The CPU executes kbd_getchar and kmain's sti, callers come back to      *)
(* kbd_getchar, and a raised request is delivered when the CPU is          *)
(* interruptible: at the first instruction boundary, so that even a        *)
(* repeatedly cleared IF cannot hold it off for ever.  Nobody has to press *)
(* a key, and no command has to run.                                       *)
Fairness ==
    /\ WF_vars(BootSti /\ UNCHANGED <<mouseVars, devVars>>)
    /\ WF_vars(kbd_getchar /\ UNCHANGED <<mouseVars, devVars>>)
    /\ WF_vars(GetcharStep /\ UNCHANGED <<mouseVars, devVars>>)
    /\ SF_vars(KbdIRQ)
    /\ SF_vars(MouseIRQ)

Spec == Init /\ [][Next]_vars /\ Fairness

-----------------------------------------------------------------------------
TypeOK ==
    /\ KbdTypeOK
    /\ mouse_cycle \in 0..3
    /\ has_wheel \in BOOLEAN
    /\ held \subseteq Keys
    /\ wire \in Seq(Scancodes) /\ Len(wire) <= WireMax
    /\ mwire \in Seq((0..3) \X (0..255)) /\ Len(mwire) <= PacketLen
    /\ stray12 \in {"none", "pending", "ate"}

(* When every byte has been read, the decoder agrees with the keyboard     *)
(* about the AltGr key and waits for no second byte: prefixed sequences    *)
(* interleaved with other keys never leave a latched modifier behind.  The *)
(* one byte that the mouse handler may throw away is the exception.        *)
AltGrTracks ==
    wire = <<>> /\ stray12 # "ate" =>
        /\ altgr_pressed = ("altgr" \in held)
        /\ ~extended

(* With every byte read and no key down the decoder is back in the Normal  *)
(* column of the layout table.                                             *)
NormalColumnAtRest ==
    wire = <<>> /\ held = {} /\ stray12 # "ate" => ~shift_pressed

(* The handler never loses its place in the mouse packet: the byte it gets *)
(* next is the one mouse_cycle says, and between packets it is at byte 0;  *)
(* a byte of the keyboard that a stray request shows it changes nothing.   *)
PacketInFrame ==
    mouse_cycle = IF mwire = <<>> THEN 0 ELSE Head(mwire)[1]

(* A keyboard byte is never left unread for ever while the system is up,   *)
(* even after "asm cli": the reader drains the ring and its sti turns      *)
(* interrupts on again.                                                    *)
KeyboardServed ==
    \/ <>[](pc = "off")
    \/ []<>(wire = <<>>)
    \/ []<><<KbdIRQ>>_vars

(* A queued code is read: the CPU does not stay asleep on a non-empty ring.*)
QueuedKeyIsRead == (kbd_head # kbd_tail) ~> (pc \in {"advance", "off"})
=============================================================================
