-------------------------------- MODULE Kbd --------------------------------
(***************************************************************************)
(* The keyboard driver, src/src/arch/kbd.c: a ring buffer filled by the    *)
(* interrupt handlers and emptied by kbd_getchar, and the scancode decoder *)
(* of kbd_handler.                                                         *)
(*                                                                         *)
(* Two actors share the ring.  The interrupt handlers run behind interrupt *)
(* gates (idt.c, type 0x8E): RFLAGS.IF is clear while they run, so a       *)
(* handler is one step.  The kernel thread runs kbd_getchar one volatile   *)
(* access at a time, and a handler may run between any two of them when    *)
(* IF is set.  pc says where the thread is:                                *)
(*   boot     kmain before its "sti"                                       *)
(*   caller   in the shell, the editor or the pager, outside kbd_getchar   *)
(*   check    about to evaluate kbd_head == kbd_tail                       *)
(*   wait     found the ring empty, about to execute "sti; hlt"            *)
(*   halted   asleep in hlt until an interrupt                             *)
(*   read     found the ring non-empty, about to read kbd_buffer[kbd_tail] *)
(*   advance  holds the code in c, about to move kbd_tail                  *)
(*   off      in the final halt loop of sys_shutdown or sys_reboot         *)
(***************************************************************************)
EXTENDS KbdMap

CONSTANTS KBD_BUF_SIZE,   \* 256 in the program
          Scancodes       \* the bytes the keyboard may deliver

ASSUME KbdBufSizeAssumption == KBD_BUF_SIZE \in Nat /\ KBD_BUF_SIZE >= 2
ASSUME ScancodesAssumption == Scancodes \subseteq 0..255

VARIABLES kbd_buffer, kbd_head, kbd_tail,
          shift_pressed, altgr_pressed, extended,
          current_layout,
          intr,           \* RFLAGS.IF
          pc,
          c,              \* the local c of kbd_getchar
          ret             \* what the last kbd_getchar returned

ring    == <<kbd_buffer, kbd_head, kbd_tail>>
decoder == <<shift_pressed, altgr_pressed, extended>>
thread  == <<pc, c, ret>>
kbdVars == <<ring, decoder, current_layout, intr, thread>>

Layouts  == {"de", "en"}
Index    == 0..(KBD_BUF_SIZE - 1)
KeyCodes ==
    {PlainKey(s, layout, shift, altgr) : s \in Scancodes, layout \in Layouts,
                                         shift \in BOOLEAN, altgr \in BOOLEAN}
    \cup {ExtendedKey(s) : s \in Scancodes}
    \cup {NoKey, KEY_ALT, KEY_SCROLL_UP, KEY_SCROLL_DOWN}
PCs      == {"boot", "caller", "check", "wait", "halted", "read", "advance",
             "off"}

(* The statics after kbd_init, which kmain calls with interrupts disabled. *)
KbdInit ==
    /\ kbd_buffer = [i \in Index |-> 0]
    /\ kbd_head = 0
    /\ kbd_tail = 0
    /\ shift_pressed = FALSE
    /\ altgr_pressed = FALSE
    /\ extended = FALSE
    /\ current_layout = "de"
    /\ intr = FALSE
    /\ pc = "boot"
    /\ c = 0
    /\ ret = 0

-----------------------------------------------------------------------------
(* The producers: code that runs inside an interrupt handler.              *)

(* Mutant: the full test is lost, so the head may run into the tail.       *)
EnqueueUnchecked(key) ==
    /\ kbd_buffer' = [kbd_buffer EXCEPT ![kbd_head] = key]
    /\ kbd_head' = (kbd_head + 1) % KBD_BUF_SIZE

kbd_enqueue_key(key) ==
    LET next == (kbd_head + 1) % KBD_BUF_SIZE
    IN  IF next # kbd_tail
        THEN /\ kbd_buffer' = [kbd_buffer EXCEPT ![kbd_head] = key]
             /\ kbd_head' = next
        ELSE UNCHANGED <<kbd_buffer, kbd_head>>

(* "if (c)": a scancode without a code queues nothing.                     *)
EnqueueIfKey(key) ==
    IF key # NoKey THEN kbd_enqueue_key(key)
                   ELSE UNCHANGED <<kbd_buffer, kbd_head>>

(* The second half of kbd_handler: a byte not consumed by the 0xE0 branch. *)
PlainByte(scancode) ==
    \/ /\ scancode \in {\h2A, \h36}
       /\ shift_pressed' = TRUE
       /\ UNCHANGED <<kbd_buffer, kbd_head>>
    \/ /\ scancode \in {\hAA, \hB6}
       /\ shift_pressed' = FALSE
       /\ UNCHANGED <<kbd_buffer, kbd_head>>
    \/ /\ scancode = \h38
       /\ kbd_enqueue_key(KEY_ALT)
       /\ UNCHANGED shift_pressed
    \/ /\ scancode >= \h80 /\ scancode \notin {\hAA, \hB6}
       /\ UNCHANGED <<kbd_buffer, kbd_head, shift_pressed>>
    \/ /\ scancode < \h80 /\ scancode \notin {\h2A, \h36, \h38}
       /\ EnqueueIfKey(PlainKey(scancode, current_layout, shift_pressed,
                                altgr_pressed))
       /\ UNCHANGED shift_pressed

(* Mutant: the release of the right Alt key is not recognised.             *)
ExtendedByteNoRelease(scancode) ==
    \/ /\ scancode = \h38
       /\ altgr_pressed' = TRUE
       /\ UNCHANGED <<kbd_buffer, kbd_head, shift_pressed>>
    \/ /\ scancode >= \h80
       /\ UNCHANGED <<kbd_buffer, kbd_head, shift_pressed, altgr_pressed>>
    \/ /\ ExtendedKey(scancode) # NoKey
       /\ kbd_enqueue_key(ExtendedKey(scancode))
       /\ UNCHANGED <<shift_pressed, altgr_pressed>>
    \/ /\ scancode < \h80 /\ scancode # \h38 /\ ExtendedKey(scancode) = NoKey
       /\ PlainByte(scancode)
       /\ UNCHANGED altgr_pressed

(* The branch after an 0xE0 prefix.  A make code it does not know falls    *)
(* through and is decoded like an unprefixed one.                          *)
ExtendedByte(scancode) ==
    \/ /\ scancode \in {\h38, \hB8}
       /\ altgr_pressed' = (scancode = \h38)
       /\ UNCHANGED <<kbd_buffer, kbd_head, shift_pressed>>
    \/ /\ scancode >= \h80 /\ scancode # \hB8
       /\ UNCHANGED <<kbd_buffer, kbd_head, shift_pressed, altgr_pressed>>
    \/ /\ ExtendedKey(scancode) # NoKey
       /\ kbd_enqueue_key(ExtendedKey(scancode))
       /\ UNCHANGED <<shift_pressed, altgr_pressed>>
    \/ /\ scancode < \h80 /\ scancode # \h38 /\ ExtendedKey(scancode) = NoKey
       /\ PlainByte(scancode)
       /\ UNCHANGED altgr_pressed

kbd_handler(scancode) ==
    IF scancode = \hE0
    THEN /\ extended' = TRUE
         /\ UNCHANGED <<kbd_buffer, kbd_head, shift_pressed, altgr_pressed>>
    ELSE /\ extended' = FALSE
         /\ IF extended THEN ExtendedByte(scancode)
                        ELSE PlainByte(scancode) /\ UNCHANGED altgr_pressed

(* Mutant: "if" instead of "while", no second test after the wake-up.      *)
InterruptNoRecheck ==
    /\ intr
    /\ pc \notin {"boot", "off"}
    /\ pc' = IF pc = "halted" THEN "read" ELSE pc
    /\ UNCHANGED <<kbd_tail, current_layout, intr, c, ret>>

(* Delivery of an interrupt: IF must be set; iretq returns behind the hlt  *)
(* if the CPU was asleep in it, so that the loop test runs again.          *)
Interrupt ==
    /\ intr
    /\ pc \notin {"boot", "off"}
    /\ pc' = IF pc = "halted" THEN "check" ELSE pc
    /\ UNCHANGED <<kbd_tail, current_layout, intr, c, ret>>

IRQ1(scancode) == Interrupt /\ kbd_handler(scancode)

(* The mouse driver's interrupt handler: it wakes the CPU like any other,  *)
(* and queues a scroll code or, for most bytes, nothing.                   *)
IRQ12(key) ==
    Interrupt /\ EnqueueIfKey(key) /\ UNCHANGED decoder

-----------------------------------------------------------------------------
(* The consumer: kbd_getchar.                                              *)

kbd_getchar ==
    /\ pc = "caller"
    /\ pc' = "check"
    /\ UNCHANGED <<ring, decoder, current_layout, intr, c, ret>>

CheckEmpty ==
    /\ pc = "check"
    /\ pc' = IF kbd_head = kbd_tail THEN "wait" ELSE "read"
    /\ UNCHANGED <<ring, decoder, current_layout, intr, c, ret>>

(* Mutant: hlt without the sti in front of it.                             *)
HaltOnly ==
    /\ pc = "wait"
    /\ pc' = "halted"
    /\ UNCHANGED <<ring, decoder, current_layout, intr, c, ret>>

(* "sti; hlt" is one step: sti delays interrupts until the next            *)
(* instruction has begun if IF was clear; if IF was set, an interrupt      *)
(* between the two is one before the sti.                                  *)
StiHlt ==
    /\ pc = "wait"
    /\ intr' = TRUE
    /\ pc' = "halted"
    /\ UNCHANGED <<ring, decoder, current_layout, c, ret>>

ReadSlot ==
    /\ pc = "read"
    /\ c' = kbd_buffer[kbd_tail]
    /\ pc' = "advance"
    /\ UNCHANGED <<ring, decoder, current_layout, intr, ret>>

(* Mutant: the tail is not taken modulo the ring size.                     *)
AdvanceNoWrap ==
    /\ pc = "advance"
    /\ kbd_tail' = kbd_tail + 1
    /\ ret' = c
    /\ pc' = "caller"
    /\ UNCHANGED <<kbd_buffer, kbd_head, decoder, current_layout, intr, c>>

AdvanceTail ==
    /\ pc = "advance"
    /\ kbd_tail' = (kbd_tail + 1) % KBD_BUF_SIZE
    /\ ret' = c
    /\ pc' = "caller"
    /\ UNCHANGED <<kbd_buffer, kbd_head, decoder, current_layout, intr, c>>

GetcharStep == CheckEmpty \/ StiHlt \/ ReadSlot \/ AdvanceTail

-----------------------------------------------------------------------------
(* What the callers do to the input path between two kbd_getchar calls.    *)

BootSti ==
    /\ pc = "boot"
    /\ intr' = TRUE
    /\ pc' = "caller"
    /\ UNCHANGED <<ring, decoder, current_layout, c, ret>>

kbd_set_layout(layout) ==
    /\ pc = "caller"
    /\ current_layout' = layout
    /\ UNCHANGED <<ring, decoder, intr, thread>>

(* The shell's "asm cli" and "asm sti".                                    *)
AsmFlag(flag) ==
    /\ pc = "caller"
    /\ intr' = flag
    /\ UNCHANGED <<ring, decoder, current_layout, thread>>

(* sys_shutdown and sys_reboot: cli, then hlt for ever.                    *)
PowerOff ==
    /\ pc = "caller"
    /\ intr' = FALSE
    /\ pc' = "off"
    /\ UNCHANGED <<ring, decoder, current_layout, c, ret>>

HaltLoop == pc = "off" /\ UNCHANGED kbdVars

Caller ==
    \/ kbd_getchar
    \/ \E layout \in Layouts : kbd_set_layout(layout)
    \/ \E flag \in BOOLEAN : AsmFlag(flag)
    \/ PowerOff
    \/ HaltLoop

-----------------------------------------------------------------------------
(* The driver under every keyboard that sends bytes of Scancodes, and a    *)
(* mouse driver that may queue a scroll code at every byte.                *)
KbdNext ==
    \/ BootSti
    \/ Caller
    \/ GetcharStep
    \/ \E scancode \in Scancodes : IRQ1(scancode)
    \/ \E key \in {NoKey, KEY_SCROLL_UP, KEY_SCROLL_DOWN} : IRQ12(key)

KbdSpec == KbdInit /\ [][KbdNext]_kbdVars

KbdTypeOK ==
    /\ kbd_buffer \in [Index -> KeyCodes]
    /\ kbd_head \in Index
    /\ kbd_tail \in Index
    /\ shift_pressed \in BOOLEAN
    /\ altgr_pressed \in BOOLEAN
    /\ extended \in BOOLEAN
    /\ current_layout \in Layouts
    /\ intr \in BOOLEAN
    /\ pc \in PCs
    /\ c \in KeyCodes
    /\ ret \in KeyCodes

(* Once kbd_getchar has left its wait loop the ring stays non-empty, and   *)
(* the code it has read stays the one in the slot it is about to release,  *)
(* whatever the handlers queue between its three accesses.                 *)
LatchedKey ==
    /\ pc \in {"read", "advance"} => kbd_head # kbd_tail
    /\ pc = "advance" => c = kbd_buffer[kbd_tail]

(* The number of queued codes, and the codes from the tail to the head.    *)
Count == IF kbd_head >= kbd_tail THEN kbd_head - kbd_tail
                                 ELSE kbd_head + KBD_BUF_SIZE - kbd_tail

Slot(i) == IF kbd_tail + i - 1 < KBD_BUF_SIZE
           THEN kbd_tail + i - 1
           ELSE kbd_tail + i - 1 - KBD_BUF_SIZE

Contents == [i \in 1..Count |-> kbd_buffer[Slot(i)]]

KQ == INSTANCE KeyQueue WITH
        Capacity <- KBD_BUF_SIZE - 1, Codes <- KeyCodes, queue <- Contents, got <- ret

(* The ring buffer and the split kbd_getchar implement the bounded queue:  *)
(* codes reach the readers unaltered and in the order they were queued,    *)
(* one is dropped only when KBD_BUF_SIZE - 1 codes are waiting.            *)
KeyQueueSafety == KQ!Spec
=============================================================================
