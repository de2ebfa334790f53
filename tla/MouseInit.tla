----------------------------- MODULE MouseInit -----------------------------
(***************************************************************************)
(* mouse_init of src/src/drivers/mouse.c: the polled conversation with the *)
(* 8042 controller and the mouse that runs in kmain before "sti".  The     *)
(* controller has ONE output register for the keyboard, the mouse and its  *)
(* own answers; mouse_read takes whatever byte comes next and never looks  *)
(* at status bit 5, which says who sent it.                                *)
(*                                                                         *)
(* The controller, the mouse and the keyboard are external.  What the      *)
(* mouse or the controller answers is on its way for a while (coming) and  *)
(* may arrive after the read that waited for it has given up.  A byte is a *)
(* pair <<sender, value>>.                                                 *)
(***************************************************************************)
EXTENDS Integers, Sequences, FiniteSets, MouseState

CONSTANTS DrainMax,     \* 16 in the program
          StaleBytes,   \* byte sequences the firmware may leave unread
          KeyBytes,     \* bytes of keys that may be typed meanwhile
          KeyMax,       \* bound: how many of them
          LateMax,      \* bound: reads that give up on an answer under way
          Config0       \* the configuration byte the firmware leaves

(* Bytes are bytes, and the drain loop has room for what the firmware left. *)
ASSUME MouseInitAssumption ==
    /\ DrainMax \in Nat /\ KeyMax \in Nat /\ LateMax \in Nat
    /\ \A s \in StaleBytes : s \in Seq(0..255) /\ Len(s) <= DrainMax
    /\ KeyBytes \subseteq 0..255 /\ Config0 \in 0..255

VARIABLES step,         \* position in Script; 0 while draining
          drained,      \* i of the drain loop
          status,       \* the local status: the configuration byte
          device,       \* "none", "plain" or "wheel": what is plugged in
          rates,        \* the sample rates the mouse was set to
          config,       \* the controller's configuration byte
          obuf,         \* bytes waiting in the output register
          coming,       \* answers given and not yet in the register
          typed,        \* key bytes sent so far
          missed        \* reads that gave up on an answer under way

devices  == <<device, rates, config>>
under    == <<coming, typed, missed>>
pollVars == <<step, drained, has_wheel, status, devices, obuf, under>>

ACK == \hFA

Send(v)  == [op |-> "mouse", val |-> v]   \* mouse_write
Cmd(v)   == [op |-> "cmd", val |-> v]     \* outb(MOUSE_PORT_CMD, v)
Recv     == [op |-> "read", val |-> 0]    \* mouse_read, result unused
(* Mutant: the acknowledgement of the rate byte is not read.               *)
SetRateOneRead(r) == <<Send(\hF3), Recv, Send(r)>>

(* mouse_set_sample_rate                                                   *)
SetRate(r) == <<Send(\hF3), Recv, Send(r), Recv>>

(* The statements of mouse_init after the drain loop, in order.            *)
Script == <<Cmd(\hA8), Cmd(\h20), [op |-> "readConfig", val |-> 0],
            Cmd(\h60), [op |-> "writeConfig", val |-> 0],
            Send(\hF6), Recv>>
          \o SetRate(200) \o SetRate(100) \o SetRate(80)
          \o <<Send(\hF2), Recv, [op |-> "readId", val |-> 0],
               Send(\hF4), Recv>>

Done == step = Len(Script) + 1
Op   == IF step \in 1..Len(Script) THEN Script[step].op ELSE "none"

HasBit(v, bit) == (v \div bit) % 2 = 1

(* status |= 0x02; status &= ~0x20                                         *)
MouseEnabled(v) == v + (IF HasBit(v, 2) THEN 0 ELSE 2)
                     - (IF HasBit(v, 32) THEN 32 ELSE 0)

PollInit ==
    /\ step = 0
    /\ drained = 0
    /\ has_wheel = FALSE
    /\ status = 0
    /\ device \in {"none", "plain", "wheel"}
    /\ rates = <<>>
    /\ config = Config0
    /\ obuf \in {[i \in DOMAIN s |-> <<"kbd", s[i]>>] : s \in StaleBytes}
    /\ coming = <<>>
    /\ typed = 0
    /\ missed = 0

(* for (i = 0; i < 16; i++) if (output full) read it; else break           *)
DrainByte ==
    /\ step = 0 /\ drained < DrainMax /\ obuf # <<>>
    /\ obuf' = Tail(obuf)
    /\ drained' = drained + 1
    /\ UNCHANGED <<step, has_wheel, status, devices, under>>

(* Mutant: the drain loop runs once too few.                               *)
DrainEndEarly ==
    /\ step = 0 /\ (drained >= DrainMax - 1 \/ obuf = <<>>)
    /\ step' = 1
    /\ UNCHANGED <<drained, has_wheel, status, devices, obuf, under>>

DrainEnd ==
    /\ step = 0 /\ (drained = DrainMax \/ obuf = <<>>)
    /\ step' = 1
    /\ UNCHANGED <<drained, has_wheel, status, devices, obuf, under>>

(* What the mouse answers to a byte; an IntelliMouse gives identifier 3    *)
(* once its rate was set to 200, 100 and 80.                               *)
Answer(v) ==
    IF device = "none" THEN <<>>
    ELSE IF v = \hF2
    THEN <<<<"mouse", ACK>>,
           <<"mouse", IF device = "wheel" /\ rates = <<200, 100, 80>>
                      THEN 3 ELSE 0>>>>
    ELSE <<<<"mouse", ACK>>>>

mouse_write ==
    /\ Op = "mouse"
    /\ coming' = coming \o Answer(Script[step].val)
    /\ rates' = IF Script[step].val \in {200, 100, 80}
                THEN Append(rates, Script[step].val) ELSE rates
    /\ step' = step + 1
    /\ UNCHANGED <<drained, has_wheel, status, device, config, obuf, typed,
                   missed>>

(* Controller commands: 0x20 asks for the configuration byte.              *)
ControllerCommand ==
    /\ Op = "cmd"
    /\ coming' = IF Script[step].val = \h20
                 THEN Append(coming, <<"controller", config>>) ELSE coming
    /\ step' = step + 1
    /\ UNCHANGED <<drained, has_wheel, status, devices, obuf, typed, missed>>

WriteConfig ==
    /\ Op = "writeConfig"
    /\ status' = MouseEnabled(status)
    /\ config' = status'
    /\ step' = step + 1
    /\ UNCHANGED <<drained, has_wheel, device, rates, obuf, under>>

(* mouse_read: the next byte, or 0 when the polling loop times out.        *)
ReadByte == IF obuf # <<>> THEN Head(obuf)[2] ELSE 0

(* The answer this read waits for comes after its time-out.                *)
GivesUp == obuf = <<>> /\ coming # <<>>

(* Mutant: only the five-button identifier counts as a wheel.              *)
MouseReadOnlyFour ==
    /\ Op \in {"read", "readConfig", "readId"}
    /\ GivesUp => missed < LateMax
    /\ obuf' = IF obuf # <<>> THEN Tail(obuf) ELSE obuf
    /\ missed' = IF GivesUp THEN missed + 1 ELSE missed
    /\ status' = IF Op = "readConfig" THEN ReadByte ELSE status
    /\ has_wheel' = IF Op = "readId" THEN ReadByte = 4 ELSE has_wheel
    /\ step' = step + 1
    /\ UNCHANGED <<drained, devices, coming, typed>>

(* Mutant: the polling loop has no timeout.                                *)
MouseReadNoTimeout ==
    /\ Op \in {"read", "readConfig", "readId"}
    /\ obuf # <<>>
    /\ obuf' = Tail(obuf)
    /\ status' = IF Op = "readConfig" THEN ReadByte ELSE status
    /\ has_wheel' = IF Op = "readId" THEN ReadByte \in {3, 4} ELSE has_wheel
    /\ step' = step + 1
    /\ UNCHANGED <<drained, devices, under>>

mouse_read ==
    /\ Op \in {"read", "readConfig", "readId"}
    /\ GivesUp => missed < LateMax
    /\ obuf' = IF obuf # <<>> THEN Tail(obuf) ELSE obuf
    /\ missed' = IF GivesUp THEN missed + 1 ELSE missed
    /\ status' = IF Op = "readConfig" THEN ReadByte ELSE status
    /\ has_wheel' = IF Op = "readId" THEN ReadByte \in {3, 4} ELSE has_wheel
    /\ step' = step + 1
    /\ UNCHANGED <<drained, devices, coming, typed>>

(* An answer gets into the output register.                                *)
AnswerArrives ==
    /\ coming # <<>>
    /\ obuf' = Append(obuf, Head(coming))
    /\ coming' = Tail(coming)
    /\ UNCHANGED <<step, drained, has_wheel, status, devices, typed, missed>>

(* A key is typed while mouse_init polls.                                  *)
KeyTyped(b) ==
    /\ ~Done
    /\ typed < KeyMax
    /\ obuf' = Append(obuf, <<"kbd", b>>)
    /\ typed' = typed + 1
    /\ UNCHANGED <<step, drained, has_wheel, status, devices, coming, missed>>

InitStep == DrainByte \/ DrainEnd \/ mouse_write \/ ControllerCommand
            \/ WriteConfig \/ mouse_read

Finished == Done /\ coming = <<>> /\ UNCHANGED pollVars

PollNext == InitStep \/ AnswerArrives \/ (\E b \in KeyBytes : KeyTyped(b))
            \/ Finished

(* mouse_init runs to its end: every wait in it is bounded by a timeout,   *)
(* and what has been answered arrives in the end.                          *)
PollSpec == /\ PollInit /\ [][PollNext]_pollVars
            /\ WF_pollVars(InitStep) /\ WF_pollVars(AnswerArrives)

-----------------------------------------------------------------------------
(* With nobody typing and no answer late the conversation is exact,        *)
(* whatever the firmware left unread and whatever is plugged in: the wheel *)
(* is found just when the device has one, so that packets will be cut to   *)
(* the right length, and of the configuration only the two mouse bits      *)
(* change.                                                                 *)
QuietInitExact ==
    Done /\ typed = 0 /\ missed = 0 =>
        /\ has_wheel = (device = "wheel")
        /\ config = MouseEnabled(Config0)

(* What the comments of mouse_init say it does: read the configuration     *)
(* byte, set the mouse bits, write it back.  The keyboard interrupt and    *)
(* the scancode translation would stay as they were.                       *)
ConfigPreserved == Done => config = MouseEnabled(Config0)

(* What the byte taken for the configuration may have been: the            *)
(* controller's own, the byte of a key typed meanwhile, or the 0 of a read *)
(* that gave up.  A byte the firmware left unread is gone by then even if  *)
(* keys come while the loop drains (16 rounds are enough, and the oldest   *)
(* byte goes first), and no answer of the mouse has been asked for yet.    *)
ConfigBytes == {Config0} \cup (IF typed > 0 THEN KeyBytes ELSE {})
                         \cup (IF missed > 0 THEN {0} ELSE {})

ConfigByteSource == Done => \E v \in ConfigBytes : config = MouseEnabled(v)

(* A key typed meanwhile, or a read that gave up on an answer, shifts the  *)
(* conversation by one byte and no more; otherwise no answer stays behind, *)
(* in the controller or under way, where the interrupt handler would take  *)
(* it for the first byte of a packet (0xFA has bit 3 set).                 *)
StrayAnswersBounded ==
    Done => Cardinality({i \in 1..Len(obuf \o coming) :
                            (obuf \o coming)[i][1] # "kbd"}) <= typed + missed

(* The boot sequence is never stuck in this conversation.                  *)
InitFinishes == <>Done
=============================================================================
