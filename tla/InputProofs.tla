---------------------------- MODULE InputProofs ----------------------------
(***************************************************************************)
(* Theorems about the input path for every keyboard, every packet the      *)
(* mouse may send, every ring size and every interleaving of the devices,  *)
(* the two handlers and the reader: the composed system implements the     *)
(* keyboard driver of Kbd (so it has the driver's invariants and           *)
(* implements the bounded queue), the decoder follows the AltGr key, and   *)
(* the mouse handler never loses its place in a packet.  At the end        *)
(* mouse_init, for every script of typing and every mouse.                 *)
(***************************************************************************)
EXTENDS Input, MouseInit, SequenceTheorems, FiniteSetTheorems, TLAPS

-----------------------------------------------------------------------------
(* The driver of Kbd on its own: type correctness, the latch of the reader, *)
(* and the ring as a bounded queue.                                        *)

KbdInv == KbdTypeOK /\ LatchedKey

(* Advancing an index modulo the ring size, without the modulus.           *)
LEMMA RingSucc ==
    ASSUME NEW i \in Index
    PROVE  /\ (i + 1) % KBD_BUF_SIZE \in Index
           /\ (i + 1) % KBD_BUF_SIZE =
                IF i + 1 = KBD_BUF_SIZE THEN 0 ELSE i + 1
  BY KbdBufSizeAssumption DEF Index

(* Every value handed to kbd_enqueue_key is a key code.                    *)
LEMMA DecodedKeys ==
    ASSUME NEW s \in Scancodes, KbdTypeOK
    PROVE  /\ PlainKey(s, current_layout, shift_pressed, altgr_pressed)
                \in KeyCodes
           /\ ExtendedKey(s) \in KeyCodes
           /\ {NoKey, KEY_ALT, KEY_SCROLL_UP, KEY_SCROLL_DOWN} \subseteq KeyCodes
  BY DEF KeyCodes, KbdTypeOK

(* What kbd_enqueue_key may do to the ring.                                *)
Enqueued(key) ==
    /\ (kbd_head + 1) % KBD_BUF_SIZE # kbd_tail
    /\ kbd_buffer' = [kbd_buffer EXCEPT ![kbd_head] = key]
    /\ kbd_head' = (kbd_head + 1) % KBD_BUF_SIZE

RingKept == UNCHANGED <<kbd_buffer, kbd_head>>

(* A keyboard interrupt queues at most one key code and changes the        *)
(* decoder's flags only to flags.                                          *)
LEMMA HandlerEffect ==
    ASSUME NEW s \in Scancodes, KbdTypeOK, kbd_handler(s)
    PROVE  /\ RingKept \/ \E key \in KeyCodes : Enqueued(key)
           /\ shift_pressed' \in BOOLEAN
           /\ altgr_pressed' \in BOOLEAN
           /\ extended' \in BOOLEAN
  <1>1. ASSUME NEW key \in KeyCodes, kbd_enqueue_key(key)
        PROVE  RingKept \/ Enqueued(key)
    BY <1>1 DEF kbd_enqueue_key, RingKept, Enqueued
  <1>2. ASSUME NEW key \in KeyCodes, EnqueueIfKey(key)
        PROVE  RingKept \/ Enqueued(key)
    BY <1>1, <1>2 DEF EnqueueIfKey, RingKept
  <1>3. ASSUME PlainByte(s)
        PROVE  /\ RingKept \/ \E key \in KeyCodes : Enqueued(key)
               /\ shift_pressed' \in BOOLEAN
    BY <1>1, <1>2, <1>3, DecodedKeys DEF PlainByte, RingKept, KbdTypeOK
  <1>4. ASSUME ExtendedByte(s)
        PROVE  /\ RingKept \/ \E key \in KeyCodes : Enqueued(key)
               /\ shift_pressed' \in BOOLEAN
               /\ altgr_pressed' \in BOOLEAN
    BY <1>1, <1>3, <1>4, DecodedKeys DEF ExtendedByte, RingKept, KbdTypeOK
  <1>5. CASE s = \hE0
    BY <1>5 DEF kbd_handler, RingKept, KbdTypeOK
  <1>6. CASE s # \hE0 /\ extended
    BY <1>4, <1>6 DEF kbd_handler
  <1>7. CASE s # \hE0 /\ ~extended
    BY <1>3, <1>7 DEF kbd_handler, KbdTypeOK
  <1> QED
    BY <1>5, <1>6, <1>7 DEF KbdTypeOK

(* Queueing a code keeps the ring well typed, and keeps the slot and the   *)
(* non-emptiness the reader relies on.                                     *)
LEMMA EnqueuePreserves ==
    ASSUME NEW key \in KeyCodes, KbdInv, Enqueued(key), UNCHANGED kbd_tail
    PROVE  /\ kbd_buffer' \in [Index -> KeyCodes]
           /\ kbd_head' \in Index
           /\ kbd_head' # kbd_tail'
           /\ kbd_head # kbd_tail => kbd_buffer'[kbd_tail'] = kbd_buffer[kbd_tail]
  BY RingSucc DEF KbdInv, KbdTypeOK, Enqueued

-----------------------------------------------------------------------------
(* One step per action of KbdNext.                                         *)
LEMMA KbdInvInductive ==
    /\ KbdInit => KbdInv
    /\ KbdInv /\ [KbdNext]_kbdVars => KbdInv'
  <1>1. ASSUME KbdInit PROVE KbdInv
    <2>1. 0 \in KeyCodes
      BY DEF KeyCodes, NoKey
    <2>2. 0 \in Index
      BY KbdBufSizeAssumption DEF Index
    <2>3. KbdTypeOK
      BY <1>1, <2>1, <2>2 DEF KbdInit, KbdTypeOK, Layouts, PCs
    <2> QED
      BY <1>1, <2>3 DEF KbdInit, KbdInv, LatchedKey
  <1>2. ASSUME KbdInv, [KbdNext]_kbdVars
        PROVE  KbdInv'
    <2> USE <1>2
    <2>1. CASE BootSti
      BY <2>1 DEF BootSti, KbdInv, KbdTypeOK, LatchedKey, PCs, ring, decoder
    <2>2. CASE Caller
      BY <2>2 DEF Caller, kbd_getchar, kbd_set_layout, AsmFlag, PowerOff,
                  HaltLoop, kbdVars, KbdInv, KbdTypeOK, LatchedKey, PCs, ring,
                  decoder, thread
    <2>3. CASE CheckEmpty
      BY <2>3 DEF CheckEmpty, KbdInv, KbdTypeOK, LatchedKey, PCs, ring, decoder
    <2>4. CASE StiHlt
      BY <2>4 DEF StiHlt, KbdInv, KbdTypeOK, LatchedKey, PCs, ring, decoder
    <2>5. CASE ReadSlot
      BY <2>5 DEF ReadSlot, KbdInv, KbdTypeOK, LatchedKey, PCs, ring, decoder
    <2>6. CASE AdvanceTail
      BY <2>6, RingSucc
      DEF AdvanceTail, KbdInv, KbdTypeOK, LatchedKey, PCs, decoder
    <2>7. ASSUME Interrupt,
                 RingKept \/ \E key \in KeyCodes : Enqueued(key),
                 shift_pressed' \in BOOLEAN, altgr_pressed' \in BOOLEAN,
                 extended' \in BOOLEAN
          PROVE  KbdInv'
      <3>1. UNCHANGED <<kbd_tail, current_layout, intr, c, ret>>
        BY <2>7 DEF Interrupt
      <3>2. pc' \in PCs /\ (pc' \in {"read", "advance"} => pc' = pc)
        BY <2>7 DEF Interrupt, KbdInv, KbdTypeOK, PCs
      <3>3. CASE RingKept
        BY <2>7, <3>1, <3>2, <3>3 DEF RingKept, KbdInv, KbdTypeOK, LatchedKey
      <3>4. ASSUME NEW key \in KeyCodes, Enqueued(key)
            PROVE  KbdInv'
        BY <2>7, <3>1, <3>2, <3>4, EnqueuePreserves
        DEF KbdInv, KbdTypeOK, LatchedKey
      <3> QED
        BY <2>7, <3>3, <3>4
    <2>8. ASSUME NEW s \in Scancodes, IRQ1(s)
          PROVE  KbdInv'
      BY <2>7, <2>8, HandlerEffect DEF IRQ1, KbdInv
    <2>9. ASSUME NEW key \in {NoKey, KEY_SCROLL_UP, KEY_SCROLL_DOWN}, IRQ12(key)
          PROVE  KbdInv'
      <3>1. key \in KeyCodes
        BY DEF KeyCodes
      <3>2. RingKept \/ Enqueued(key)
        BY <2>9 DEF IRQ12, EnqueueIfKey, kbd_enqueue_key, RingKept, Enqueued
      <3> QED
        BY <2>7, <2>9, <3>1, <3>2 DEF IRQ12, decoder, KbdInv, KbdTypeOK
    <2>10. CASE UNCHANGED kbdVars
      BY <2>10 DEF kbdVars, ring, decoder, thread, KbdInv, KbdTypeOK, LatchedKey
    <2> QED
      BY <2>1, <2>2, <2>3, <2>4, <2>5, <2>6, <2>8, <2>9, <2>10
      DEF KbdNext, GetcharStep
  <1> QED
    BY <1>1, <1>2

(* Type correctness of the driver: the indices stay inside the ring, which *)
(* only ever holds key codes.                                              *)
THEOREM KbdTypeCorrect == KbdSpec => []KbdTypeOK
  <1>1. KbdInv => KbdTypeOK
    BY DEF KbdInv
  <1> QED
    BY <1>1, KbdInvInductive, PTL DEF KbdSpec

(* The reader's latch: between its accesses no handler can empty the ring  *)
(* or overwrite the slot kbd_getchar is about to return.                   *)
THEOREM KbdLatch == KbdSpec => []LatchedKey
  <1>1. KbdInv => LatchedKey
    BY DEF KbdInv
  <1> QED
    BY <1>1, KbdInvInductive, PTL DEF KbdSpec

-----------------------------------------------------------------------------
(* The abstract queue as a sequence.                                       *)
LEMMA ContentsIsSeq ==
    ASSUME KbdTypeOK
    PROVE  /\ Count \in 0..(KBD_BUF_SIZE - 1)
           /\ Contents \in Seq(KeyCodes)
           /\ Len(Contents) = Count
           /\ (Count = 0) <=> (kbd_head = kbd_tail)
           /\ \A i \in 1..Count : Slot(i) \in Index
  <1>1. /\ Count \in 0..(KBD_BUF_SIZE - 1)
        /\ (Count = 0) <=> (kbd_head = kbd_tail)
    BY KbdBufSizeAssumption DEF KbdTypeOK, Index, Count
  <1>2. \A i \in 1..Count : Slot(i) \in Index
    BY <1>1, KbdBufSizeAssumption DEF KbdTypeOK, Index, Slot
  <1>3. Contents \in [1..Count -> KeyCodes]
    BY <1>2 DEF KbdTypeOK, Contents
  <1> QED
    BY <1>1, <1>2, <1>3 DEF Contents

(* Queueing a code appends it to the abstract queue, which had room.       *)
LEMMA EnqueueIsOffer ==
    ASSUME NEW key \in KeyCodes, KbdInv, KbdTypeOK', Enqueued(key),
           UNCHANGED kbd_tail
    PROVE  /\ Len(Contents) < KBD_BUF_SIZE - 1
           /\ Contents' = Append(Contents, key)
  <1> USE KbdBufSizeAssumption
  <1>1. Count' = Count + 1 /\ Count < KBD_BUF_SIZE - 1
    BY RingSucc DEF KbdInv, KbdTypeOK, Index, Count, Enqueued
  <1>2. ASSUME NEW i \in 1..Count
        PROVE  Slot(i)' = Slot(i) /\ Slot(i) # kbd_head /\ Slot(i) \in Index
    BY DEF KbdInv, KbdTypeOK, Index, Count, Slot
  <1> PICK n \in Nat : n = Count
    BY ContentsIsSeq DEF KbdInv
  <1>3. Slot(n + 1)' = kbd_head
    BY DEF KbdInv, KbdTypeOK, Index, Count, Slot
  <1>4. ASSUME NEW i \in 1..n
        PROVE  kbd_buffer'[Slot(i)'] = kbd_buffer[Slot(i)]
    BY <1>2 DEF Enqueued, KbdInv, KbdTypeOK
  <1>5. kbd_buffer'[Slot(n + 1)'] = key
    BY <1>3 DEF Enqueued, KbdInv, KbdTypeOK
  <1>6. /\ Contents \in Seq(KeyCodes) /\ Len(Contents) = n
        /\ Contents' \in Seq(KeyCodes) /\ Len(Contents') = n + 1
    <2>1. /\ Contents \in Seq(KeyCodes) /\ Len(Contents) = n
          /\ \A i \in 1..n : Slot(i) \in Index
      BY ContentsIsSeq DEF KbdInv
    <2>2. kbd_buffer' \in [Index -> KeyCodes] /\ kbd_head \in Index
      BY EnqueuePreserves DEF KbdInv, KbdTypeOK
    <2>3. \A i \in 1..(n + 1) : Slot(i)' \in Index
      BY <1>2, <1>3, <2>1, <2>2
    <2>4. Contents' = [i \in 1..(n + 1) |-> kbd_buffer'[Slot(i)']]
      BY <1>1 DEF Contents
    <2>5. Contents' \in [1..(n + 1) -> KeyCodes]
      BY <2>2, <2>3, <2>4
    <2> QED
      BY <2>1, <2>4, <2>5
  <1>7. ASSUME NEW i \in 1..(n + 1)
        PROVE  Contents'[i] = Append(Contents, key)[i]
    <2>1. Contents'[i] = kbd_buffer'[Slot(i)']
      BY <1>1 DEF Contents
    <2>2. CASE i \in 1..n
      <3>1. Append(Contents, key)[i] = Contents[i]
        BY <1>6, <2>2, AppendProperties
      <3> QED
        BY <1>4, <2>1, <2>2, <3>1 DEF Contents
    <2>3. CASE i = n + 1
      <3>1. Append(Contents, key)[n + 1] = key
        BY <1>6, AppendProperties
      <3>2. Contents'[n + 1] = kbd_buffer'[Slot(n + 1)']
        BY <1>1 DEF Contents
      <3> QED
        BY <1>5, <2>3, <3>1, <3>2
    <2>4. i \in 1..n \/ i = n + 1
      OBVIOUS
    <2> QED
      BY <2>2, <2>3, <2>4
  <1>8. Append(Contents, key) \in Seq(KeyCodes) /\ Len(Append(Contents, key)) = n + 1
    BY <1>6, AppendProperties
  <1>9. Contents' = Append(Contents, key)
    BY <1>6, <1>7, <1>8, SeqEqual
  <1> QED
    BY <1>1, <1>6, <1>9

(* Moving the tail removes the oldest code of the abstract queue.          *)
LEMMA AdvanceIsGet ==
    ASSUME KbdInv, AdvanceTail
    PROVE  /\ Contents # <<>>
           /\ ret' = Head(Contents)
           /\ Contents' = Tail(Contents)
  <1> USE KbdBufSizeAssumption
  <1> PICK n \in Nat : n = Count
    BY ContentsIsSeq DEF KbdInv
  <1>1. n > 0 /\ n \in 0..(KBD_BUF_SIZE - 1) /\ Count' = n - 1
    BY RingSucc
    DEF KbdInv, KbdTypeOK, LatchedKey, AdvanceTail, Index, Count
  <1>2. /\ Contents \in Seq(KeyCodes) /\ Len(Contents) = n
        /\ Contents # <<>>
        /\ \A i \in 1..n : Slot(i) \in Index
    BY <1>1, ContentsIsSeq DEF KbdInv
  <1>3. ret' = Contents[1]
    BY <1>1 DEF KbdInv, KbdTypeOK, LatchedKey, AdvanceTail, Contents, Slot, Index
  <1>4. ASSUME NEW i \in 1..(n - 1)
        PROVE  Slot(i)' = Slot(i + 1)
    BY <1>1, RingSucc DEF KbdInv, KbdTypeOK, AdvanceTail, Index, Slot
  <1>5. Contents' = [i \in 1..(n - 1) |-> Contents[i + 1]]
    BY <1>1, <1>4 DEF Contents, AdvanceTail
  <1>6. /\ Tail(Contents) \in Seq(KeyCodes) /\ Len(Tail(Contents)) = n - 1
        /\ \A i \in 1..(n - 1) : Tail(Contents)[i] = Contents[i + 1]
    BY <1>2, HeadTailProperties
  <1>7. Contents' \in Seq(KeyCodes) /\ Len(Contents') = n - 1
    <2>1. ASSUME NEW i \in 1..(n - 1) PROVE Contents[i + 1] \in KeyCodes
      BY <1>6, LenProperties
    <2> QED
      BY <1>1, <1>5, <2>1
  <1>8. ASSUME NEW i \in 1..(n - 1) PROVE Contents'[i] = Tail(Contents)[i]
    BY <1>5, <1>6
  <1>9. Contents' = Tail(Contents)
    BY <1>6, <1>7, <1>8, SeqEqual
  <1> QED
    BY <1>2, <1>3, <1>9

(* Every step of the driver is a step of the queue, or leaves it alone.    *)
LEMMA KbdStepSimulates ==
    ASSUME KbdInv, KbdInv', [KbdNext]_kbdVars
    PROVE  [KQ!Next]_(KQ!vars)
  <1>1. ASSUME UNCHANGED <<kbd_buffer, kbd_head, kbd_tail, ret>>
        PROVE  UNCHANGED KQ!vars
    BY <1>1 DEF KQ!vars, Contents, Count, Slot
  <1>2. ASSUME Interrupt, RingKept \/ \E key \in KeyCodes : Enqueued(key)
        PROVE  [KQ!Next]_(KQ!vars)
    <2>1. UNCHANGED <<kbd_tail, ret>>
      BY <1>2 DEF Interrupt
    <2>2. CASE RingKept
      BY <1>1, <2>1, <2>2 DEF RingKept
    <2>3. ASSUME NEW key \in KeyCodes, Enqueued(key)
          PROVE  KQ!Offer(key)
      BY <2>1, <2>3, EnqueueIsOffer DEF KQ!Offer, KbdInv
    <2> QED
      BY <1>2, <2>2, <2>3 DEF KQ!Next
  <1>3. CASE BootSti \/ Caller \/ CheckEmpty \/ StiHlt \/ ReadSlot \/ UNCHANGED kbdVars
    BY <1>1, <1>3 DEF BootSti, Caller, CheckEmpty, StiHlt, ReadSlot, kbd_getchar,
                      kbd_set_layout, AsmFlag, PowerOff, HaltLoop, kbdVars, ring,
                      thread
  <1>4. CASE AdvanceTail
    BY <1>4, AdvanceIsGet DEF KQ!Next, KQ!Get
  <1>5. ASSUME NEW s \in Scancodes, IRQ1(s)
        PROVE  [KQ!Next]_(KQ!vars)
    BY <1>2, <1>5, HandlerEffect DEF IRQ1, KbdInv
  <1>6. ASSUME NEW key \in {NoKey, KEY_SCROLL_UP, KEY_SCROLL_DOWN}, IRQ12(key)
        PROVE  [KQ!Next]_(KQ!vars)
    <2>1. key \in KeyCodes
      BY DEF KeyCodes
    <2>2. RingKept \/ Enqueued(key)
      BY <1>6 DEF IRQ12, EnqueueIfKey, kbd_enqueue_key, RingKept, Enqueued
    <2> QED
      BY <1>2, <1>6, <2>1, <2>2 DEF IRQ12
  <1> QED
    BY <1>3, <1>4, <1>5, <1>6 DEF KbdNext, GetcharStep

(* The driver implements the bounded FIFO queue for every ring size.       *)
THEOREM KbdImplementsQueue == KbdSpec => KeyQueueSafety
  <1>1. KbdInit => KQ!Init
    BY KbdBufSizeAssumption DEF KbdInit, KQ!Init, Contents, Count
  <1>2. KbdInv /\ KbdInv' /\ [KbdNext]_kbdVars => [KQ!Next]_(KQ!vars)
    BY KbdStepSimulates
  <1> QED
    BY <1>1, <1>2, KbdInvInductive, PTL DEF KbdSpec, KeyQueueSafety, KQ!Spec

-----------------------------------------------------------------------------
(* The invariant behind AltGrTracks, over the bytes under way.             *)

(* Where under way the AltGr key goes down or up: the bytes that will be   *)
(* decoded as the second byte of its prefixed sequences.                   *)
AltGrBytes ==
    {i \in 1..Len(wire) :
        /\ IF i = 1 THEN extended ELSE wire[i - 1] = \hE0
        /\ wire[i] \in {\h38, \hB8}}

(* A prefix is followed by its second byte, on the wire or in the decoder. *)
WholeCodes == IF wire = <<>> THEN ~extended ELSE wire[Len(wire)] # \hE0

(* The last AltGr byte under way tells where the key is now; without one   *)
(* the decoder knows.                                                      *)
AltGrPending ==
    /\ \A i \in AltGrBytes :
          (\A j \in AltGrBytes : j <= i) => ("altgr" \in held <=> wire[i] = \h38)
    /\ AltGrBytes = {} => (altgr_pressed <=> "altgr" \in held)

AltGrInv == WholeCodes /\ AltGrPending

(* The invariant behind PacketInFrame: what is left of a packet is its     *)
(* last bytes in order, and the handler is at the first of them.           *)
FrameInv ==
    /\ mwire = <<>> => mouse_cycle = 0
    /\ mwire # <<>> =>
         /\ Len(mwire) = PacketLen - mouse_cycle
         /\ \A i \in 1..Len(mwire) : mwire[i][1] = mouse_cycle + i - 1
         /\ mouse_cycle = 0 => Bit3(mwire[1][2])

-----------------------------------------------------------------------------
(* The composed system implements the driver.                              *)

LEMMA WheelKeys ==
    ASSUME NEW data \in 0..255, mouse_cycle \in 0..3
    PROVE  WheelKey(data) \in {NoKey, KEY_SCROLL_UP, KEY_SCROLL_DOWN}
  BY DEF WheelKey, Int8

(* A request left over changes nothing of either driver; at most it costs  *)
(* the first byte of the keyboard.                                         *)
LEMMA StrayKeepsDriver ==
    ASSUME StrayTakesKey \/ StrayFindsNothing
    PROVE  /\ EnqueueIfKey(NoKey)
           /\ UNCHANGED <<mouse_cycle, has_wheel, decoder, mwire>>
           /\ stray12' = "none" => wire' = wire
           /\ stray12' \in {"none", "ate"}
           /\ wire' = wire \/ (wire # <<>> /\ wire' = Tail(wire))
  BY DEF StrayTakesKey, StrayFindsNothing, mouse_handler

(* A step of the input path is a step of the driver or leaves it alone.    *)
LEMMA InputStepIsKbdStep ==
    ASSUME TypeOK, [Next]_vars
    PROVE  [KbdNext]_kbdVars
  <1>1. CASE Kernel
    BY <1>1 DEF Kernel, KbdNext
  <1>2. CASE KbdIRQ
    <2>1. Head(wire) \in Scancodes
      BY <1>2, HeadTailProperties DEF KbdIRQ, TypeOK
    <2> QED
      BY <1>2, <2>1 DEF KbdIRQ, KbdNext
  <1>3. CASE MouseIRQ
    <2>1. CASE MouseByte
      <3>1. PICK data \in 0..255 : data = Head(mwire)[2]
        <4>1. Head(mwire) \in (0..3) \X (0..255)
          BY <2>1, HeadTailProperties DEF MouseByte, TypeOK
        <4> QED
          BY <4>1
      <3>2. IRQ12(WheelKey(data))
        BY <1>3, <2>1, <3>1 DEF MouseIRQ, MouseByte, mouse_handler, IRQ12
      <3>3. WheelKey(data) \in {NoKey, KEY_SCROLL_UP, KEY_SCROLL_DOWN}
        BY WheelKeys DEF TypeOK
      <3> QED
        BY <3>2, <3>3 DEF KbdNext
    <2>2. CASE StrayTakesKey \/ StrayFindsNothing
      <3>1. IRQ12(NoKey)
        BY <1>3, <2>2, StrayKeepsDriver DEF MouseIRQ, IRQ12
      <3> QED
        BY <3>1 DEF KbdNext
    <2> QED
      BY <1>3, <2>1, <2>2 DEF MouseIRQ
  <1>4. CASE Environment \/ UNCHANGED vars
    BY <1>4 DEF Environment, KeyDown, KeyUp, MouseMove, vars
  <1> QED
    BY <1>1, <1>2, <1>3, <1>4 DEF Next

(* What a key sends: a few bytes ending in a code, none of them the AltGr  *)
(* key's unless it is that key, and then its last one.                     *)
KeySends(k, s, code) ==
    /\ s \in Seq(Scancodes) /\ s # <<>>
    /\ s[Len(s)] # \hE0
    /\ k = "altgr" => Len(s) = 2 /\ s[1] = \hE0 /\ s[2] = code
    /\ k # "altgr" => \A i \in 1..Len(s) :
                        ~(i > 1 /\ s[i - 1] = \hE0 /\ s[i] \in {\h38, \hB8})

LEMMA KeysSend ==
    ASSUME NEW k \in Keys
    PROVE  KeySends(k, make(k), \h38) /\ KeySends(k, break(k), \hB8)
  <1> USE KeysAssumption, ScancodesAssumption DEF KeySends, make, break
  <1>1. CASE k = "lshift" BY <1>1
  <1>2. CASE k = "rshift" BY <1>2
  <1>3. CASE k = "lalt" BY <1>3
  <1>4. CASE k = "altgr" BY <1>4
  <1>5. CASE k = "q" BY <1>5
  <1>6. CASE k = "up" BY <1>6
  <1>7. CASE k = "prtsc" BY <1>7
  <1> QED BY <1>1, <1>2, <1>3, <1>4, <1>5, <1>6, <1>7

(* A key pressed or released behind the bytes under way: an AltGr byte at  *)
(* the end tells the new state of the key, other bytes tell nothing.       *)
LEMMA KeyKeepsAltGr ==
    ASSUME NEW k \in Keys, NEW s, NEW code \in {\h38, \hB8},
           wire \in Seq(Scancodes), altgr_pressed \in BOOLEAN, AltGrInv,
           KeySends(k, s, code), wire' = wire \o s,
           UNCHANGED <<extended, altgr_pressed>>,
           "altgr" \in held' <=> IF k = "altgr" THEN code = \h38
                                ELSE "altgr" \in held
    PROVE  AltGrInv'
  <1> PICK n \in Nat, m \in Nat : n = Len(wire) /\ m = Len(s) /\ m > 0
    BY LenProperties, EmptySeq DEF KeySends
  <1>1. /\ Len(wire') = n + m
        /\ wire' \in Seq(Scancodes)
        /\ \A i \in 1..n : wire'[i] = wire[i]
        /\ \A i \in 1..m : wire'[n + i] = s[i]
    BY ConcatProperties DEF KeySends
  <1>2. WholeCodes'
    BY <1>1 DEF WholeCodes, KeySends
  <1>3. \A i \in 1..n : i \in AltGrBytes' <=> i \in AltGrBytes
    <2> TAKE i \in 1..n
    <2>1. i > 1 => wire'[i - 1] = wire[i - 1]
      BY <1>1
    <2> QED
      BY <1>1, <2>1 DEF AltGrBytes
  <1>4. \A i \in 1..m : n + i \in AltGrBytes' <=>
                         (i > 1 /\ s[i - 1] = \hE0 /\ s[i] \in {\h38, \hB8})
    <2> TAKE i \in 1..m
    <2>1. n + i \in 1..Len(wire') /\ wire'[n + i] = s[i]
      BY <1>1
    <2>2. CASE i > 1
      <3>1. n + i # 1 /\ i - 1 \in 1..m /\ n + (i - 1) = (n + i) - 1
        BY <2>2
      <3>2. wire'[(n + i) - 1] = s[i - 1]
        BY <1>1, <3>1
      <3> QED
        BY <2>1, <2>2, <3>1, <3>2 DEF AltGrBytes
    <2>3. CASE i = 1 /\ n = 0
      <3>1. wire = <<>>
        BY <2>3, EmptySeq
      <3>2. ~extended'
        BY <3>1 DEF AltGrInv, WholeCodes
      <3> QED
        BY <2>3, <3>2 DEF AltGrBytes
    <2>4. CASE i = 1 /\ n > 0
      <3>1. n + i # 1 /\ (n + i) - 1 = n /\ n \in 1..n /\ wire # <<>>
        BY <2>4, EmptySeq
      <3>2. wire'[n] # \hE0
        BY <1>1, <3>1 DEF AltGrInv, WholeCodes
      <3> QED
        BY <2>4, <3>1, <3>2 DEF AltGrBytes
    <2> QED
      BY <2>2, <2>3, <2>4
  <1>5. AltGrBytes \subseteq 1..n /\ AltGrBytes' \subseteq 1..(n + m)
    BY <1>1 DEF AltGrBytes
  <1>6. CASE k = "altgr"
    <2>1. m = 2 /\ s[1] = \hE0 /\ s[2] = code
      BY <1>6 DEF KeySends
    <2>2. n + 2 \in AltGrBytes' /\ wire'[n + 2] = code
      BY <1>1, <1>4, <2>1
    <2>3. "altgr" \in held' <=> (code = \h38)
      BY <1>6
    <2>4. ASSUME NEW i \in AltGrBytes', \A j \in AltGrBytes' : j <= i
          PROVE  i = n + 2
      BY <1>5, <2>1, <2>2, <2>4
    <2>5. AltGrPending'
      BY <2>2, <2>3, <2>4 DEF AltGrPending
    <2> QED
      BY <1>2, <2>5 DEF AltGrInv
  <1>7. CASE k # "altgr"
    <2>1. \A i \in 1..m : n + i \notin AltGrBytes'
      BY <1>4, <1>7 DEF KeySends
    <2>2. AltGrBytes' = AltGrBytes
      <3>1. ASSUME NEW i \in AltGrBytes' PROVE i \in 1..n
        <4>1. i \in 1..(n + m) /\ (i > n => i - n \in 1..m /\ n + (i - n) = i)
          BY <1>5
        <4> QED
          BY <2>1, <4>1
      <3> QED
        BY <1>3, <1>5, <3>1
    <2>3. "altgr" \in held' <=> ("altgr" \in held)
      BY <1>7
    <2>4. \A i \in AltGrBytes : wire'[i] = wire[i]
      BY <1>1, <1>5
    <2>5. ASSUME NEW i \in AltGrBytes', \A j \in AltGrBytes' : j <= i
          PROVE  "altgr" \in held' <=> wire'[i] = \h38
      <3>1. i \in AltGrBytes /\ \A j \in AltGrBytes : j <= i
        BY <2>2, <2>5
      <3>2. "altgr" \in held <=> (wire[i] = \h38)
        BY <3>1 DEF AltGrInv, AltGrPending
      <3> QED
        BY <2>3, <2>4, <3>1, <3>2
    <2>6. AltGrBytes' = {} => (altgr_pressed' <=> "altgr" \in held')
      BY <2>2, <2>3 DEF AltGrInv, AltGrPending
    <2> QED
      BY <1>2, <2>5, <2>6 DEF AltGrInv, AltGrPending
  <1> QED
    BY <1>6, <1>7

(* What the handler does to the decoder's prefix and AltGr flags.          *)
LEMMA HandlerAltGr ==
    ASSUME NEW b \in Scancodes, kbd_handler(b), KbdTypeOK
    PROVE  /\ extended' <=> b = \hE0
           /\ extended /\ b \in {\h38, \hB8} => (altgr_pressed' <=> b = \h38)
           /\ ~(extended /\ b \in {\h38, \hB8}) => UNCHANGED altgr_pressed
  <1>1. ExtendedKey(\h38) = NoKey /\ ExtendedKey(\hB8) = NoKey
    BY DEF ExtendedKey, NavKey
  <1>2. ASSUME ExtendedByte(b)
        PROVE  /\ b \in {\h38, \hB8} => (altgr_pressed' <=> b = \h38)
               /\ b \notin {\h38, \hB8} => UNCHANGED altgr_pressed
    <2>1. CASE b \in {\h38, \hB8}
      <3>1. ExtendedKey(b) = NoKey
        BY <1>1, <2>1
      <3>2. altgr_pressed' = (b = \h38)
        BY <1>2, <2>1, <3>1 DEF ExtendedByte
      <3> QED
        BY <2>1, <3>2
    <2>2. CASE b \notin {\h38, \hB8}
      BY <1>2, <2>2 DEF ExtendedByte
    <2> QED
      BY <2>1, <2>2
  <1>3. CASE b = \hE0
    BY <1>3 DEF kbd_handler
  <1>4. CASE b # \hE0 /\ extended
    BY <1>2, <1>4 DEF kbd_handler
  <1>5. CASE b # \hE0 /\ ~extended
    BY <1>5 DEF kbd_handler
  <1> QED
    BY <1>3, <1>4, <1>5

(* Reading a byte: what was pending behind it is pending still, and if it  *)
(* was the last AltGr byte the decoder has it now.                         *)
LEMMA IRQKeepsAltGr ==
    ASSUME TypeOK, AltGrInv, KbdIRQ
    PROVE  AltGrInv'
  <1> PICK n \in Nat : n = Len(wire) /\ n > 0
    BY LenProperties, EmptySeq DEF TypeOK, KbdIRQ
  <1>1. /\ wire[1] \in Scancodes /\ Head(wire) = wire[1]
        /\ wire' \in Seq(Scancodes) /\ Len(wire') = n - 1
        /\ \A i \in 1..(n - 1) : wire'[i] = wire[i + 1]
    BY HeadTailProperties DEF TypeOK, KbdIRQ
  <1>2. /\ extended' <=> wire[1] = \hE0
        /\ extended /\ wire[1] \in {\h38, \hB8}
              => (altgr_pressed' <=> wire[1] = \h38)
        /\ ~(extended /\ wire[1] \in {\h38, \hB8}) => UNCHANGED altgr_pressed
    BY <1>1, HandlerAltGr DEF KbdIRQ, IRQ1, TypeOK
  <1>3. held' = held
    BY DEF KbdIRQ
  <1>4. WholeCodes'
    <2>1. CASE n = 1
      <3>1. wire' = <<>> /\ wire # <<>> /\ wire[1] # \hE0
        BY <1>1, <2>1, EmptySeq DEF WholeCodes, AltGrInv, KbdIRQ
      <3> QED
        BY <1>2, <3>1 DEF WholeCodes
    <2>2. CASE n > 1
      <3>1. wire'[n - 1] = wire[n] /\ Len(wire') = n - 1
        BY <1>1, <2>2
      <3>2. wire' # <<>>
        BY <1>1, <2>2, EmptySeq
      <3>3. wire[n] # \hE0
        BY DEF WholeCodes, AltGrInv, KbdIRQ
      <3> QED
        BY <3>1, <3>2, <3>3 DEF WholeCodes
    <2> QED
      BY <2>1, <2>2
  <1>5. AltGrBytes \subseteq 1..n /\ AltGrBytes' \subseteq 1..(n - 1)
    BY <1>1 DEF AltGrBytes
  <1>6. \A i \in 1..(n - 1) : i \in AltGrBytes' <=> i + 1 \in AltGrBytes
    <2> TAKE i \in 1..(n - 1)
    <2>1. i + 1 \in 1..n /\ i + 1 # 1 /\ (i + 1) - 1 = i
      OBVIOUS
    <2>2. wire'[i] = wire[i + 1]
      BY <1>1
    <2>3. CASE i = 1
      BY <1>1, <1>2, <2>1, <2>2, <2>3 DEF AltGrBytes
    <2>4. CASE i > 1
      <3>1. i - 1 \in 1..(n - 1) /\ (i - 1) + 1 = i
        BY <2>4
      <3>2. wire'[i - 1] = wire[i]
        BY <1>1, <3>1
      <3> QED
        BY <1>1, <2>1, <2>2, <2>4, <3>2 DEF AltGrBytes
    <2> QED
      BY <2>3, <2>4
  <1>7. /\ 1 \in AltGrBytes => (altgr_pressed' <=> wire[1] = \h38)
        /\ 1 \notin AltGrBytes => UNCHANGED altgr_pressed
    BY <1>2 DEF AltGrBytes
  <1>8. ASSUME NEW i \in AltGrBytes', \A j \in AltGrBytes' : j <= i
        PROVE  "altgr" \in held' <=> (wire'[i] = \h38)
    <2>1. ASSUME NEW j \in AltGrBytes PROVE j <= i + 1
      <3>1. j \in 1..n /\ i \in 1..(n - 1)
        BY <1>5
      <3>2. CASE j = 1
        BY <3>1, <3>2
      <3>3. CASE j > 1
        <4>1. j - 1 \in 1..(n - 1) /\ (j - 1) + 1 = j
          BY <3>1, <3>3
        <4>2. j - 1 \in AltGrBytes'
          BY <1>6, <4>1
        <4> QED
          BY <1>8, <3>1, <4>2
      <3> QED
        BY <3>1, <3>2, <3>3
    <2>2. i + 1 \in AltGrBytes
      BY <1>5, <1>6
    <2>3. "altgr" \in held <=> (wire[i + 1] = \h38)
      BY <2>1, <2>2 DEF AltGrInv, AltGrPending
    <2> QED
      BY <1>1, <1>3, <1>5, <2>3
  <1>9. ASSUME AltGrBytes' = {}
        PROVE  altgr_pressed' <=> "altgr" \in held'
    <2>1. ASSUME NEW j \in AltGrBytes PROVE j = 1
      <3>1. j \in 1..n
        BY <1>5
      <3>2. j > 1 => j - 1 \in 1..(n - 1) /\ (j - 1) + 1 = j
        BY <3>1
      <3> QED
        BY <1>6, <1>9, <3>1, <3>2
    <2>2. CASE 1 \in AltGrBytes
      <3>1. \A j \in AltGrBytes : j <= 1
        BY <2>1
      <3>2. "altgr" \in held <=> (wire[1] = \h38)
        BY <2>2, <3>1 DEF AltGrInv, AltGrPending
      <3> QED
        BY <1>3, <1>7, <2>2, <3>2
    <2>3. CASE 1 \notin AltGrBytes
      <3>1. AltGrBytes = {}
        BY <2>1, <2>3
      <3> QED
        BY <1>3, <1>7, <2>3, <3>1 DEF AltGrInv, AltGrPending
    <2> QED
      BY <2>2, <2>3
  <1> QED
    BY <1>4, <1>8, <1>9 DEF AltGrInv, AltGrPending

-----------------------------------------------------------------------------
(* The mouse handler reads the next byte of the packet it is in.           *)
LEMMA MouseByteKeepsFrame ==
    ASSUME TypeOK, FrameInv, MouseByte
    PROVE  FrameInv' /\ mouse_cycle' \in 0..3
  <1> PICK n \in Nat : n = Len(mwire) /\ n > 0
    BY LenProperties, EmptySeq DEF TypeOK, MouseByte
  <1>1. /\ mwire[1] \in (0..3) \X (0..255) /\ Head(mwire) = mwire[1]
        /\ Len(mwire') = n - 1
        /\ n = 1 => mwire' = <<>>
        /\ n > 1 => mwire' # <<>>
        /\ \A i \in 1..(n - 1) : mwire'[i] = mwire[i + 1]
    <2>1. mwire \in Seq((0..3) \X (0..255)) /\ mwire # <<>> /\ mwire' = Tail(mwire)
      BY DEF TypeOK, MouseByte
    <2>2. /\ Tail(mwire) \in Seq((0..3) \X (0..255))
          /\ Len(Tail(mwire)) = n - 1
          /\ \A i \in 1..(n - 1) : Tail(mwire)[i] = mwire[i + 1]
      BY <2>1, HeadTailProperties
    <2>3. mwire[1] \in (0..3) \X (0..255) /\ Head(mwire) = mwire[1]
      BY <2>1, HeadTailProperties
    <2>4. Tail(mwire) = <<>> <=> n = 1
      <3>1. Tail(mwire) = <<>> => Len(Tail(mwire)) = 0
        BY EmptySeq
      <3>2. Tail(mwire) # <<>> => Len(Tail(mwire)) \in Nat \ {0}
        BY <2>2, EmptySeq
      <3> QED
        BY <2>2, <3>1, <3>2
    <2> QED
      BY <2>1, <2>2, <2>3, <2>4
  <1>2. /\ n = PacketLen - mouse_cycle
        /\ mouse_cycle \in 0..3
        /\ \A i \in 1..n : mwire[i][1] = mouse_cycle + i - 1
        /\ mouse_cycle = 0 => Bit3(mwire[1][2])
    BY DEF FrameInv, MouseByte, TypeOK
  <1>3. has_wheel' = has_wheel /\ has_wheel \in BOOLEAN
    BY DEF MouseByte, mouse_handler, TypeOK
  <1>4. mouse_cycle' = IF n = 1 THEN 0 ELSE mouse_cycle + 1
    BY <1>1, <1>2, <1>3 DEF MouseByte, mouse_handler, NextCycle, PacketLen
  <1>5. \A i \in 1..(n - 1) : mwire'[i][1] = mouse_cycle + i
    <2> TAKE i \in 1..(n - 1)
    <2>1. i + 1 \in 1..n
      OBVIOUS
    <2>2. mwire[i + 1][1] = mouse_cycle + (i + 1) - 1
      BY <1>2, <2>1
    <2> QED
      BY <1>1, <1>2, <2>2
  <1>6. PacketLen' = PacketLen /\ PacketLen \in 3..4
    BY <1>3 DEF PacketLen
  <1>7. CASE n = 1
    BY <1>1, <1>4, <1>7 DEF FrameInv
  <1>8. CASE n > 1
    <2>1. mouse_cycle' = mouse_cycle + 1
      BY <1>4, <1>8
    <2> QED
      BY <1>1, <1>2, <1>5, <1>6, <1>8, <2>1 DEF FrameInv
  <1> QED
    BY <1>7, <1>8

LEMMA MouseMoveKeepsFrame ==
    ASSUME TypeOK, FrameInv, NEW packet \in Packets, MouseMove(packet)
    PROVE  /\ FrameInv'
           /\ mwire' \in Seq((0..3) \X (0..255)) /\ Len(mwire') = PacketLen
  <1>1. PacketLen \in 3..4 /\ PacketLen' = PacketLen
    BY DEF PacketLen, MouseMove, mouseVars, TypeOK
  <1>2. packet \in [1..4 -> 0..255] /\ Bit3(packet[1])
    BY PacketsAssumption
  <1>3. mouse_cycle = 0 /\ mouse_cycle' = 0
    BY DEF MouseMove, mouseVars, FrameInv
  <1>4. mwire' = [i \in 1..PacketLen |-> <<i - 1, packet[i]>>]
    BY DEF MouseMove
  <1>5. mwire' \in [1..PacketLen -> (0..3) \X (0..255)]
    <2>1. ASSUME NEW i \in 1..PacketLen
          PROVE  <<i - 1, packet[i]>> \in (0..3) \X (0..255)
      <3>1. i \in 1..4 /\ i - 1 \in 0..3
        BY <1>1
      <3> QED
        BY <1>2, <3>1
    <2> QED
      BY <1>4, <2>1
  <1>6. mwire' \in Seq((0..3) \X (0..255)) /\ Len(mwire') = PacketLen
    BY <1>1, <1>4, <1>5
  <1>7. \A i \in 1..PacketLen : mwire'[i][1] = i - 1
    BY <1>4
  <1>8. mwire'[1][2] = packet[1]
    <2>1. 1 \in 1..PacketLen
      BY <1>1
    <2>2. mwire'[1] = <<1 - 1, packet[1]>>
      BY <1>4, <2>1
    <2> QED
      BY <2>2
  <1> QED
    BY <1>1, <1>2, <1>3, <1>6, <1>7, <1>8 DEF FrameInv
-----------------------------------------------------------------------------
(* The inductive invariant of the input path.                              *)
InputInv ==
    /\ TypeOK /\ KbdInv /\ FrameInv
    /\ stray12 # "ate" => AltGrInv

LEMMA InputInit == Init => InputInv
  <1> SUFFICES ASSUME Init PROVE InputInv
    OBVIOUS
  <1>1. KbdInv
    BY KbdInvInductive DEF Init
  <1>2. /\ wire \in Seq(Scancodes) /\ Len(wire) = 0
        /\ mwire \in Seq((0..3) \X (0..255)) /\ Len(mwire) = 0
    BY EmptySeq DEF Init
  <1>3. TypeOK
    BY <1>1, <1>2, WireMaxAssumption DEF Init, TypeOK, KbdInv, PacketLen
  <1>4. AltGrInv
    <2>1. AltGrBytes = {}
      BY <1>2 DEF AltGrBytes
    <2> QED
      BY <2>1 DEF Init, KbdInit, AltGrInv, WholeCodes, AltGrPending
  <1>5. FrameInv
    BY DEF Init, FrameInv
  <1> QED
    BY <1>1, <1>3, <1>4, <1>5 DEF InputInv

LEMMA KeyPreserves ==
    ASSUME InputInv, NEW k \in Keys, KeyDown(k) \/ KeyUp(k)
    PROVE  InputInv'
  <1> USE DEF InputInv
  <1>1. UNCHANGED <<kbdVars, mouseVars, mwire, stray12>>
    BY DEF KeyDown, KeyUp
  <1>2. KbdInv'
    BY <1>1, KbdInvInductive
  <1>3. FrameInv'
    BY <1>1 DEF mouseVars, FrameInv, PacketLen
  <1>4. PICK s : \/ s = make(k) /\ KeyDown(k)
                 \/ s = break(k) /\ KeyUp(k)
    OBVIOUS
  <1>5. s \in Seq(Scancodes) /\ wire' = wire \o s /\ Len(wire) + Len(s) <= WireMax
    <2>1. make(k) \in Seq(Scancodes) /\ break(k) \in Seq(Scancodes)
      BY KeysSend DEF KeySends
    <2>2. CASE s = make(k) /\ KeyDown(k)
      BY <2>1, <2>2 DEF KeyDown
    <2>3. CASE s = break(k) /\ KeyUp(k)
      BY <2>1, <2>3 DEF KeyUp
    <2> QED
      BY <1>4, <2>2, <2>3
  <1>6. wire' \in Seq(Scancodes) /\ Len(wire') = Len(wire) + Len(s)
    BY <1>5, ConcatProperties DEF TypeOK
  <1>7. held' \subseteq Keys
    BY <1>4 DEF KeyDown, KeyUp, TypeOK
  <1>8. TypeOK'
    BY <1>1, <1>2, <1>5, <1>6, <1>7 DEF TypeOK, KbdInv, mouseVars, PacketLen
  <1>9. UNCHANGED <<extended, altgr_pressed>> /\ altgr_pressed \in BOOLEAN
    BY <1>1 DEF kbdVars, decoder, TypeOK, KbdTypeOK
  <1>10. ASSUME stray12' # "ate" PROVE AltGrInv'
    <2> USE <1>1, <1>10
    <2>1. CASE KeyDown(k)
      <3>1. KeySends(k, make(k), \h38) /\ wire' = wire \o make(k)
        BY <2>1, KeysSend DEF KeyDown
      <3>2. "altgr" \in held' <=> IF k = "altgr" THEN \h38 = \h38
                                 ELSE "altgr" \in held
        BY <2>1 DEF KeyDown
      <3> QED
        BY <1>9, <3>1, <3>2, KeyKeepsAltGr DEF TypeOK
    <2>2. CASE KeyUp(k)
      <3>1. KeySends(k, break(k), \hB8) /\ wire' = wire \o break(k)
        BY <2>2, KeysSend DEF KeyUp
      <3>2. "altgr" \in held' <=> IF k = "altgr" THEN \hB8 = \h38
                                 ELSE "altgr" \in held
        BY <2>2 DEF KeyUp
      <3> QED
        BY <1>9, <3>1, <3>2, KeyKeepsAltGr DEF TypeOK
    <2> QED
      BY <2>1, <2>2
  <1> QED
    BY <1>2, <1>3, <1>8, <1>10

LEMMA InputInductive == InputInv /\ [Next]_vars => InputInv'
  <1> SUFFICES ASSUME InputInv, [Next]_vars PROVE InputInv'
    OBVIOUS
  <1> USE DEF InputInv
  <1>1. KbdInv'
    BY InputStepIsKbdStep, KbdInvInductive
  <1>2. CASE Kernel \/ UNCHANGED vars
    <2>1. UNCHANGED <<mouseVars, devVars>>
      BY <1>2 DEF Kernel, vars
    <2>2. UNCHANGED <<extended, altgr_pressed>>
      BY <1>2 DEF Kernel, vars, BootSti, Caller, kbd_getchar, kbd_set_layout,
                  AsmFlag, PowerOff, HaltLoop, GetcharStep, CheckEmpty, StiHlt,
                  ReadSlot, AdvanceTail, kbdVars, decoder
    <2> QED
      BY <1>1, <2>1, <2>2
      DEF TypeOK, KbdInv, AltGrInv, WholeCodes, AltGrPending, AltGrBytes, FrameInv,
          mouseVars, devVars, PacketLen
  <1>3. CASE KbdIRQ
    <2>1. stray12' # "ate" => AltGrInv'
      BY <1>3, IRQKeepsAltGr DEF KbdIRQ
    <2>2. UNCHANGED <<mouseVars, held, mwire, stray12>>
      BY <1>3 DEF KbdIRQ
    <2>3. wire' \in Seq(Scancodes) /\ Len(wire') = Len(wire) - 1
      BY <1>3, HeadTailProperties DEF KbdIRQ, TypeOK
    <2>4. Len(wire) \in Nat
      BY LenProperties DEF TypeOK
    <2>5. TypeOK'
      BY <1>1, <2>2, <2>3, <2>4, WireMaxAssumption
      DEF TypeOK, KbdInv, mouseVars, PacketLen
    <2>6. FrameInv'
      BY <2>2 DEF FrameInv, mouseVars, PacketLen
    <2> QED
      BY <1>1, <2>1, <2>5, <2>6
  <1>4. CASE MouseIRQ
    <2>1. /\ UNCHANGED <<held, has_wheel, decoder>>
          /\ wire' = wire \/ (wire # <<>> /\ wire' = Tail(wire))
          /\ stray12' # "ate" => wire' = wire /\ stray12 # "ate"
          /\ stray12' \in {"none", "pending", "ate"}
      <3>1. CASE MouseByte
        BY <1>4, <3>1 DEF MouseIRQ, MouseByte, mouse_handler, TypeOK
      <3>2. CASE StrayTakesKey \/ StrayFindsNothing
        <4>1. stray12 = "pending"
          BY <3>2 DEF StrayTakesKey, StrayFindsNothing
        <4> QED
          BY <1>4, <3>2, <4>1, StrayKeepsDriver DEF MouseIRQ
      <3> QED
        BY <1>4, <3>1, <3>2 DEF MouseIRQ
    <2>2. /\ FrameInv' /\ mouse_cycle' \in 0..3
          /\ mwire' \in Seq((0..3) \X (0..255)) /\ Len(mwire') <= PacketLen'
      <3>1. Len(mwire) \in Nat /\ PacketLen' = PacketLen /\ PacketLen \in 3..4
        BY <2>1, LenProperties DEF TypeOK, PacketLen
      <3>2. CASE MouseByte
        <4>1. FrameInv' /\ mouse_cycle' \in 0..3
          BY <3>2, MouseByteKeepsFrame
        <4>2. mwire' \in Seq((0..3) \X (0..255)) /\ Len(mwire') = Len(mwire) - 1
          BY <3>2, HeadTailProperties DEF MouseByte, TypeOK
        <4> QED
          BY <3>1, <4>1, <4>2 DEF TypeOK
      <3>3. CASE StrayTakesKey \/ StrayFindsNothing
        <4>1. UNCHANGED <<mwire, mouse_cycle>>
          BY <3>3, StrayKeepsDriver
        <4> QED
          BY <3>1, <4>1 DEF TypeOK, FrameInv
      <3> QED
        BY <1>4, <3>2, <3>3 DEF MouseIRQ
    <2>3. wire' \in Seq(Scancodes) /\ Len(wire') <= WireMax
      <3>1. Len(wire) \in Nat
        BY LenProperties DEF TypeOK
      <3>2. CASE wire' = wire
        BY <3>2 DEF TypeOK
      <3>3. CASE wire # <<>> /\ wire' = Tail(wire)
        <4>1. wire' \in Seq(Scancodes) /\ Len(wire') = Len(wire) - 1
          BY <3>3, HeadTailProperties DEF TypeOK
        <4> QED
          BY <3>1, <4>1, WireMaxAssumption DEF TypeOK
      <3> QED
        BY <2>1, <3>2, <3>3
    <2>4. stray12' # "ate" => AltGrInv'
      BY <2>1 DEF AltGrInv, WholeCodes, AltGrPending, AltGrBytes, decoder
    <2> QED
      BY <1>1, <2>1, <2>2, <2>3, <2>4 DEF TypeOK, KbdInv
  <1>5. ASSUME NEW k \in Keys, KeyDown(k) \/ KeyUp(k)
        PROVE  InputInv'
    BY <1>5, KeyPreserves
  <1>6. ASSUME NEW packet \in Packets, MouseMove(packet)
        PROVE  InputInv'
    <2>1. /\ FrameInv'
          /\ mwire' \in Seq((0..3) \X (0..255)) /\ Len(mwire') = PacketLen
      BY <1>6, MouseMoveKeepsFrame
    <2>2. UNCHANGED <<kbdVars, mouseVars, held, wire, stray12>>
      BY <1>6 DEF MouseMove
    <2>3. stray12' # "ate" => AltGrInv'
      BY <2>2 DEF AltGrInv, WholeCodes, AltGrPending, AltGrBytes, kbdVars, decoder
    <2>4. TypeOK'
      BY <1>1, <2>1, <2>2 DEF TypeOK, KbdInv, mouseVars, PacketLen
    <2> QED
      BY <1>1, <2>1, <2>3, <2>4
  <1> QED
    BY <1>2, <1>3, <1>4, <1>5, <1>6 DEF Next, Environment

-----------------------------------------------------------------------------
(* Type correctness of the whole input path.                               *)
THEOREM InputTypeCorrect == Spec => []TypeOK
  <1>1. InputInv => TypeOK
    BY DEF InputInv
  <1> QED
    BY <1>1, InputInit, InputInductive, PTL DEF Spec

(* The devices, the two handlers and the reader together implement the     *)
(* driver of Kbd: whatever the mouse does, it is one of the interrupts the *)
(* driver's theorems are about.                                            *)
THEOREM InputImplementsKbd == Spec => KbdSpec
  <1>1. Init => KbdInit
    BY DEF Init
  <1>2. InputInv /\ [Next]_vars => [KbdNext]_kbdVars
    BY InputStepIsKbdStep DEF InputInv
  <1> QED
    BY <1>1, <1>2, InputInit, InputInductive, PTL DEF Spec, KbdSpec

(* Key codes and scroll codes reach the readers of the composed system     *)
(* unaltered and in order, and the reader's latch holds there too.         *)
THEOREM InputImplementsQueue == Spec => KeyQueueSafety /\ []LatchedKey
  BY InputImplementsKbd, KbdImplementsQueue, KbdLatch, PTL

(* The decoder follows the AltGr key: once every byte is read, it thinks   *)
(* the key down exactly when it is, and waits for no second byte, unless   *)
(* the mouse handler threw a byte of the keyboard away.                    *)
THEOREM AltGrFollowed == Spec => []AltGrTracks
  <1>1. ASSUME InputInv PROVE AltGrTracks
    <2>1. SUFFICES ASSUME wire = <<>>, stray12 # "ate"
                   PROVE  altgr_pressed = ("altgr" \in held) /\ ~extended
      BY DEF AltGrTracks
    <2>2. AltGrBytes = {}
      BY <2>1, EmptySeq DEF AltGrBytes
    <2>3. (altgr_pressed <=> "altgr" \in held) /\ ~extended
      BY <1>1, <2>1, <2>2 DEF InputInv, AltGrInv, AltGrPending, WholeCodes
    <2>4. altgr_pressed \in BOOLEAN
      BY <1>1 DEF InputInv, KbdInv, KbdTypeOK
    <2> QED
      BY <2>3, <2>4
  <1> QED
    BY <1>1, InputInit, InputInductive, PTL DEF Spec

(* The mouse handler is never out of step with the packet it reads.        *)
THEOREM MouseInFrame == Spec => []PacketInFrame
  <1>1. ASSUME InputInv PROVE PacketInFrame
    <2>1. CASE mwire = <<>>
      BY <1>1, <2>1 DEF InputInv, FrameInv, PacketInFrame
    <2>2. CASE mwire # <<>>
      <3>1. Len(mwire) \in Nat \ {0} /\ Head(mwire) = mwire[1]
        BY <1>1, <2>2, EmptySeq DEF InputInv, TypeOK
      <3>2. mwire[1][1] = mouse_cycle + 1 - 1 /\ mouse_cycle \in 0..3
        BY <1>1, <2>2, <3>1 DEF InputInv, FrameInv, TypeOK
      <3> QED
        BY <2>2, <3>1, <3>2 DEF PacketInFrame
    <2> QED
      BY <2>1, <2>2
  <1> QED
    BY <1>1, InputInit, InputInductive, PTL DEF Spec

-----------------------------------------------------------------------------
(* The statements, one by one.                                             *)

Last == 24

ReadSteps == {7, 9, 11, 13, 15, 17, 19, 21, 24}

(* whole is the m elements of s and then the n elements of t.              *)
Joins(S, whole, s, m, t, n) ==
    /\ whole \in Seq(S) /\ Len(whole) = m + n
    /\ \A i \in 1..m : whole[i] = s[i]
    /\ \A i \in 1..n : whole[m + i] = t[i]

LEMMA Joined ==
    ASSUME NEW S, NEW s \in Seq(S), NEW t \in Seq(S),
           NEW m \in Nat, NEW n \in Nat, Len(s) = m, Len(t) = n
    PROVE  Joins(S, s \o t, s, m, t, n)
  <1>1. /\ s \o t \in Seq(S) /\ Len(s \o t) = m + n
        /\ \A i \in 1..(m + n) : (s \o t)[i] = IF i <= m THEN s[i] ELSE t[i - m]
    BY ConcatProperties
  <1>2. ASSUME NEW i \in 1..n PROVE (s \o t)[m + i] = t[i]
    <2>1. m + i \in 1..(m + n) /\ ~(m + i <= m) /\ (m + i) - m = i
      OBVIOUS
    <2> QED
      BY <1>1, <2>1
  <1>3. \A i \in 1..m : (s \o t)[i] = s[i]
    BY <1>1
  <1> QED
    BY <1>1, <1>2, <1>3 DEF Joins

LEMMA ScriptTable ==
    /\ Len(Script) = Last
    /\ Script[1] = Cmd(\hA8) /\ Script[2] = Cmd(\h20)
    /\ Script[3].op = "readConfig" /\ Script[4] = Cmd(\h60)
    /\ Script[5].op = "writeConfig"
    /\ Script[6] = Send(\hF6)
    /\ Script[8] = Send(\hF3) /\ Script[10] = Send(200)
    /\ Script[12] = Send(\hF3) /\ Script[14] = Send(100)
    /\ Script[16] = Send(\hF3) /\ Script[18] = Send(80)
    /\ Script[20] = Send(\hF2) /\ Script[22].op = "readId"
    /\ Script[23] = Send(\hF4)
    /\ \A i \in ReadSteps : Script[i] = Recv
  <1> DEFINE Stmts == [op : {"mouse", "cmd", "read", "readConfig",
                             "writeConfig", "readId"}, val : Nat]
             ask == [op |-> "readConfig", val |-> 0]
             write == [op |-> "writeConfig", val |-> 0]
             id == [op |-> "readId", val |-> 0]
             a == <<Cmd(\hA8), Cmd(\h20), ask, Cmd(\h60), write,
                    Send(\hF6), Recv>>
             e == <<Send(\hF2), Recv, id, Send(\hF4), Recv>>
             b == a \o SetRate(200)
             c3 == b \o SetRate(100)
             d == c3 \o SetRate(80)
  <1>1. /\ \A v \in Nat : Send(v) \in Stmts /\ Cmd(v) \in Stmts
        /\ {Recv, ask, write, id} \subseteq Stmts
    BY DEF Send, Cmd, Recv
  <1>1a. ask.op = "readConfig" /\ write.op = "writeConfig" /\ id.op = "readId"
    OBVIOUS
  <1>1b. Script = d \o e
    BY DEF Script
  <1> HIDE DEF Stmts, ask, write, id
  <1>2. /\ a \in Seq(Stmts) /\ e \in Seq(Stmts) /\ Len(a) = 7 /\ Len(e) = 5
    BY <1>1
  <1>2a. \A r \in Nat : SetRate(r) \in Seq(Stmts) /\ Len(SetRate(r)) = 4
    BY <1>1 DEF SetRate
  <1> DEFINE s200 == SetRate(200)
             s100 == SetRate(100)
             s80 == SetRate(80)
  <1>2b. /\ s200 \in Seq(Stmts) /\ Len(s200) = 4
         /\ s100 \in Seq(Stmts) /\ Len(s100) = 4
         /\ s80 \in Seq(Stmts) /\ Len(s80) = 4
    BY <1>2a
  <1>2c. /\ s200[1] = Send(\hF3) /\ s200[2] = Recv
         /\ s200[3] = Send(200) /\ s200[4] = Recv
    BY DEF SetRate
  <1>2d. /\ s100[1] = Send(\hF3) /\ s100[2] = Recv
         /\ s100[3] = Send(100) /\ s100[4] = Recv
    BY DEF SetRate
  <1>2e. /\ s80[1] = Send(\hF3) /\ s80[2] = Recv
         /\ s80[3] = Send(80) /\ s80[4] = Recv
    BY DEF SetRate
  <1> HIDE DEF s200, s100, s80
  <1>8. /\ a[1] = Cmd(\hA8) /\ a[2] = Cmd(\h20)
        /\ a[3] = ask /\ a[4] = Cmd(\h60) /\ a[5] = write
        /\ a[6] = Send(\hF6) /\ a[7] = Recv
    OBVIOUS
  <1>9. /\ e[1] = Send(\hF2) /\ e[2] = Recv /\ e[3] = id
        /\ e[4] = Send(\hF4) /\ e[5] = Recv
    OBVIOUS
  <1> HIDE DEF a, e
  <1>3. /\ b \in Seq(Stmts) /\ Len(b) = 11
        /\ \A i \in 1..7 : b[i] = a[i]
        /\ \A i \in 1..4 : b[7 + i] = s200[i]
    <2>1. Joins(Stmts, a \o s200, a, 7, s200, 4)
      BY <1>2, <1>2b, Joined
    <2>2. b = a \o s200
      BY DEF s200
    <2> HIDE DEF b
    <2>3. Joins(Stmts, b, a, 7, s200, 4)
      BY <2>1, <2>2
    <2> QED
      BY <2>3 DEF Joins
  <1> HIDE DEF b
  <1>4. /\ c3 \in Seq(Stmts) /\ Len(c3) = 15
        /\ \A i \in 1..11 : c3[i] = b[i]
        /\ \A i \in 1..4 : c3[11 + i] = s100[i]
    <2>1. Joins(Stmts, b \o s100, b, 11, s100, 4)
      BY <1>3, <1>2b, Joined
    <2>2. c3 = b \o s100
      BY DEF s100
    <2> HIDE DEF c3
    <2>3. Joins(Stmts, c3, b, 11, s100, 4)
      BY <2>1, <2>2
    <2> QED
      BY <2>3 DEF Joins
  <1> HIDE DEF c3
  <1>5. /\ d \in Seq(Stmts) /\ Len(d) = 19
        /\ \A i \in 1..15 : d[i] = c3[i]
        /\ \A i \in 1..4 : d[15 + i] = s80[i]
    <2>1. Joins(Stmts, c3 \o s80, c3, 15, s80, 4)
      BY <1>4, <1>2b, Joined
    <2>2. d = c3 \o s80
      BY DEF s80
    <2> HIDE DEF d
    <2>3. Joins(Stmts, d, c3, 15, s80, 4)
      BY <2>1, <2>2
    <2> QED
      BY <2>3 DEF Joins
  <1> HIDE DEF d
  <1>6. /\ Len(Script) = 24
        /\ \A i \in 1..19 : Script[i] = d[i]
        /\ \A i \in 1..5 : Script[19 + i] = e[i]
    <2>1. Joins(Stmts, d \o e, d, 19, e, 5)
      BY <1>2, <1>5, Joined
    <2>2. Joins(Stmts, Script, d, 19, e, 5)
      BY <1>1b, <2>1
    <2> QED
      BY <2>2 DEF Joins
  <1> DEFINE Copied(x, y, n) == \A i \in 1..n : x[i] = y[i]
  <1>10. Copied(Script, a, 7)
    <2>1. Copied(Script, d, 19) /\ Copied(d, c3, 15) /\ Copied(c3, b, 11) /\ Copied(b, a, 7)
      BY <1>3, <1>4, <1>5, <1>6
    <2>2. \A i \in 1..7 : i \in 1..11 /\ i \in 1..15 /\ i \in 1..19
      OBVIOUS
    <2> QED
      BY <2>1, <2>2, Zenon
  <1>10a. Copied(Script, b, 11) /\ Copied(Script, c3, 15)
    <2>1. Copied(Script, d, 19) /\ Copied(d, c3, 15) /\ Copied(c3, b, 11)
      BY <1>4, <1>5, <1>6
    <2>2. \A i \in 1..11 : i \in 1..15 /\ i \in 1..19
      OBVIOUS
    <2>3. \A i \in 1..15 : i \in 1..19
      OBVIOUS
    <2> QED
      BY <2>1, <2>2, <2>3, Zenon
  <1>11. \A i \in 1..4 : Script[7 + i] = s200[i]
    <2>1. \A i \in 1..4 : 7 + i \in 1..11
      OBVIOUS
    <2> QED
      BY <1>3, <1>10a, <2>1
  <1>12. \A i \in 1..4 : Script[11 + i] = s100[i]
    <2>1. \A i \in 1..4 : 11 + i \in 1..15
      OBVIOUS
    <2> QED
      BY <1>4, <1>10a, <2>1
  <1>13. \A i \in 1..4 : Script[15 + i] = s80[i]
    <2>1. \A i \in 1..4 : 15 + i \in 1..19
      OBVIOUS
    <2> QED
      BY <1>5, <1>6, <2>1
  <1>15. /\ Script[8] = s200[1] /\ Script[9] = s200[2]
         /\ Script[10] = s200[3] /\ Script[11] = s200[4]
    BY <1>11
  <1>16. /\ Script[12] = s100[1] /\ Script[13] = s100[2]
         /\ Script[14] = s100[3] /\ Script[15] = s100[4]
    BY <1>12
  <1>17. /\ Script[16] = s80[1] /\ Script[17] = s80[2]
         /\ Script[18] = s80[3] /\ Script[19] = s80[4]
    BY <1>13
  <1>18. /\ Script[20] = e[1] /\ Script[21] = e[2] /\ Script[22] = e[3]
         /\ Script[23] = e[4] /\ Script[24] = e[5]
    BY <1>6
  <1> QED
    BY <1>1a, <1>6, <1>2c, <1>2d, <1>2e, <1>8, <1>9, <1>10, <1>15, <1>16,
       <1>17, <1>18 DEF Last, ReadSteps

WriteSteps == {6, 8, 10, 12, 14, 16, 18, 20, 23}

LEMMA OpTable ==
    ASSUME step \in 0..(Last + 1)
    PROVE  /\ Op = "mouse" => step \in WriteSteps
           /\ Op = "cmd" => step \in {1, 2, 4}
           /\ Op = "writeConfig" => step = 5
           /\ Op = "readConfig" => step = 3
           /\ Op = "readId" => step = 22
           /\ Op = "read" => step \in ReadSteps
  <1>1. Len(Script) = 24
    BY ScriptTable DEF Last
  <1>2. CASE step \in WriteSteps
    <2>1. \A v : Send(v).op = "mouse"
      BY DEF Send
    <2>2. ASSUME step = 6 PROVE Script[step].op = "mouse"
      BY <2>1, <2>2, ScriptTable
    <2>3. ASSUME step = 8 PROVE Script[step].op = "mouse"
      BY <2>1, <2>3, ScriptTable
    <2>4. ASSUME step = 10 PROVE Script[step].op = "mouse"
      BY <2>1, <2>4, ScriptTable
    <2>5. ASSUME step = 12 PROVE Script[step].op = "mouse"
      BY <2>1, <2>5, ScriptTable
    <2>6. ASSUME step = 14 PROVE Script[step].op = "mouse"
      BY <2>1, <2>6, ScriptTable
    <2>7. ASSUME step = 16 PROVE Script[step].op = "mouse"
      BY <2>1, <2>7, ScriptTable
    <2>8. ASSUME step = 18 PROVE Script[step].op = "mouse"
      BY <2>1, <2>8, ScriptTable
    <2>9. ASSUME step = 20 PROVE Script[step].op = "mouse"
      BY <2>1, <2>9, ScriptTable
    <2>10. ASSUME step = 23 PROVE Script[step].op = "mouse"
      BY <2>1, <2>10, ScriptTable
    <2>20. Script[step].op = "mouse"
      BY <1>2, <2>2, <2>3, <2>4, <2>5, <2>6, <2>7, <2>8, <2>9, <2>10 DEF WriteSteps
    <2> QED
      BY <1>1, <1>2, <2>20 DEF Op, WriteSteps
  <1>3. CASE step \in {1, 2, 4}
    <2>1. \A v : Cmd(v).op = "cmd"
      BY DEF Cmd
    <2>2. ASSUME step = 1 PROVE Script[step].op = "cmd"
      BY <2>1, <2>2, ScriptTable
    <2>3. ASSUME step = 2 PROVE Script[step].op = "cmd"
      BY <2>1, <2>3, ScriptTable
    <2>4. ASSUME step = 4 PROVE Script[step].op = "cmd"
      BY <2>1, <2>4, ScriptTable
    <2>20. Script[step].op = "cmd"
      BY <1>3, <2>2, <2>3, <2>4
    <2> QED
      BY <1>1, <1>3, <2>20 DEF Op
  <1>4. CASE step \in ReadSteps
    <2>1. Script[step] = Recv
      BY <1>4, ScriptTable
    <2>2. Script[step].op = "read"
      BY <2>1 DEF Recv
    <2> QED
      BY <1>1, <1>4, <2>2 DEF Op, ReadSteps
  <1>5. CASE step = 3
    BY <1>1, <1>5, ScriptTable DEF Op
  <1>6. CASE step = 5
    BY <1>1, <1>6, ScriptTable DEF Op
  <1>7. CASE step = 22
    BY <1>1, <1>7, ScriptTable DEF Op
  <1>8. CASE step \in {0, 25}
    BY <1>1, <1>8 DEF Op
  <1>9. step \in {0, 1, 2, 3, 4, 5, 22, 25} \cup WriteSteps \cup ReadSteps
    BY DEF Last, WriteSteps, ReadSteps
  <1> QED
    BY <1>2, <1>3, <1>4, <1>5, <1>6, <1>7, <1>8, <1>9

(* The bytes sent.                                                         *)
LEMMA ByteTable ==
    /\ Script[6].val = 246 /\ Script[8].val = 243 /\ Script[10].val = 200
    /\ Script[12].val = 243 /\ Script[14].val = 100 /\ Script[16].val = 243
    /\ Script[18].val = 80 /\ Script[20].val = 242 /\ Script[23].val = 244
    /\ Script[1].val = 168 /\ Script[2].val = 32 /\ Script[4].val = 96
  BY ScriptTable DEF Send, Cmd

-----------------------------------------------------------------------------
(* The bytes under way.                                                    *)

Byte == 0..255
Entries == {"kbd", "mouse", "controller"} \X Byte

TypeInv ==
    /\ step \in 0..(Last + 1) /\ drained \in 0..DrainMax
    /\ typed \in Nat /\ missed \in Nat
    /\ status \in Byte /\ config \in Byte
    /\ device \in {"none", "plain", "wheel"}
    /\ obuf \in Seq(Entries) /\ coming \in Seq(Entries)

(* The answers that the statements before the k-th have asked for and not  *)
(* read, if there is a mouse.                                              *)
Owed(k) ==
    IF k = 21 THEN 2
    ELSE IF k \in {3, 7, 9, 11, 13, 15, 17, 19, 22, 24} THEN 1 ELSE 0

(* Each key typed, and each read that gave up, leaves at most one byte     *)
(* more than the answers owed; the drain loop has enough rounds left for   *)
(* what the firmware left.                                                 *)
LengthInv ==
    IF step = 0
    THEN coming = <<>> /\ Len(obuf) <= (DrainMax - drained) + typed
    ELSE Len(obuf) + Len(coming) <= Owed(step) + typed + missed

LEMMA EnabledBits ==
    ASSUME NEW v \in Byte
    PROVE  MouseEnabled(v) \in Byte
  BY DEF MouseEnabled, HasBit, Byte

(* What stands first in a sequence of bytes, and what is left of it.       *)
LEMMA FirstEntry ==
    ASSUME NEW S, NEW s \in Seq(S)
    PROVE  /\ Len(s) \in Nat /\ (s = <<>> <=> Len(s) = 0)
           /\ s # <<>> => /\ Tail(s) \in Seq(S) /\ Len(Tail(s)) = Len(s) - 1
                          /\ Head(s) \in S /\ Head(s) = s[1]
                          /\ \A i \in 1..Len(Tail(s)) : Tail(s)[i] = s[i + 1]
  BY HeadTailProperties, EmptySeq, LenProperties

LEMMA HeadTail ==
    ASSUME obuf \in Seq(Entries)
    PROVE  /\ ReadByte \in Byte
           /\ obuf # <<>> => /\ Tail(obuf) \in Seq(Entries)
                             /\ Len(Tail(obuf)) = Len(obuf) - 1
           /\ obuf = <<>> <=> Len(obuf) = 0
           /\ Len(obuf) \in Nat
  <1>1. CASE obuf = <<>>
    BY <1>1 DEF ReadByte, Byte
  <1>2. CASE obuf # <<>>
    <2>1. Head(obuf) \in Entries
      BY <1>2
    <2>2. ReadByte \in Byte
      BY <1>2, <2>1 DEF ReadByte, Entries
    <2> QED
      BY <1>2, <2>2
  <1> QED
    BY <1>1, <1>2

LEMMA AnswerIs ==
    ASSUME NEW v
    PROVE  /\ Answer(v) \in Seq(Entries)
           /\ Len(Answer(v)) <= IF v = \hF2 THEN 2 ELSE 1
           /\ Len(Answer(v)) \in Nat
  <1> DEFINE ack == <<"mouse", ACK>>
             id == <<"mouse", IF device = "wheel" /\ rates = <<200, 100, 80>>
                              THEN 3 ELSE 0>>
  <1>1. ack \in Entries /\ id \in Entries
    BY DEF Entries, Byte, ACK
  <1>2. Answer(v) \in {<<>>, <<ack, id>>, <<ack>>} /\ (v # \hF2 => Answer(v) # <<ack, id>>)
    BY DEF Answer
  <1> HIDE DEF ack, id
  <1>3. /\ <<>> \in Seq(Entries) /\ <<ack, id>> \in Seq(Entries)
        /\ <<ack>> \in Seq(Entries)
        /\ Len(<<>>) = 0 /\ Len(<<ack, id>>) = 2 /\ Len(<<ack>>) = 1
    BY <1>1
  <1>4. CASE Answer(v) = <<ack, id>>
    BY <1>2, <1>3, <1>4
  <1>5. CASE Answer(v) # <<ack, id>>
    <2>1. Answer(v) = <<>> \/ Answer(v) = <<ack>>
      BY <1>2, <1>5
    <2>2. Answer(v) \in Seq(Entries)
      BY <1>3, <2>1
    <2>3. Len(Answer(v)) = 0 \/ Len(Answer(v)) = 1
      BY <1>3, <2>1
    <2> HIDE DEF Answer
    <2> DEFINE len == Len(Answer(v))
    <2> HIDE DEF len
    <2>4. len = 0 \/ len = 1
      BY <2>3 DEF len
    <2>5. len \in Nat /\ len <= IF v = \hF2 THEN 2 ELSE 1
      BY <2>4
    <2> QED
      BY <2>2, <2>5 DEF len
  <1> QED
    BY <1>4, <1>5

(* A write asks for what its answer holds, a read takes one byte.          *)
LEMMA OwedSteps ==
    /\ \A k \in ReadSteps \cup {3, 22} : Owed(k) = Owed(k + 1) + 1
    /\ \A k \in WriteSteps \cup {1, 2, 4, 5} : Owed(k) = 0
    /\ \A k \in WriteSteps \ {20} : Owed(k + 1) = 1
    /\ Owed(21) = 2 /\ Owed(3) = 1 /\ Owed(1) = 0
    /\ Owed(2) = 0 /\ Owed(5) = 0 /\ Owed(6) = 0 /\ Owed(Last + 1) = 0
    /\ \A k \in 0..(Last + 1) : Owed(k) \in Nat
  BY DEF Owed, ReadSteps, WriteSteps, Last

LEMMA TypeInit == PollInit => TypeInv /\ LengthInv
  <1> SUFFICES ASSUME PollInit PROVE TypeInv /\ LengthInv
    OBVIOUS
  <1>1. PICK s \in StaleBytes : obuf = [i \in DOMAIN s |-> <<"kbd", s[i]>>]
    BY DEF PollInit
  <1>2. s \in Seq(Byte) /\ Len(s) <= DrainMax /\ Len(s) \in Nat
    BY MouseInitAssumption DEF Byte
  <1>3. DOMAIN s = 1..Len(s) /\ \A i \in 1..Len(s) : <<"kbd", s[i]>> \in Entries
    BY <1>2 DEF Entries
  <1>4. obuf \in Seq(Entries) /\ Len(obuf) = Len(s)
    BY <1>1, <1>2, <1>3
  <1>5. coming \in Seq(Entries)
    BY EmptySeq DEF PollInit
  <1> QED
    BY <1>2, <1>4, <1>5, MouseInitAssumption
    DEF PollInit, TypeInv, LengthInv, Byte, Last

LEMMA WriteKeeps ==
    ASSUME TypeInv, LengthInv, mouse_write
    PROVE  TypeInv' /\ LengthInv'
  <1> DEFINE v == Script[step].val
             answer == Answer(v)
  <1>1. step \in WriteSteps
    BY OpTable DEF TypeInv, mouse_write
  <1>2. /\ answer \in Seq(Entries) /\ Len(answer) \in Nat
        /\ Len(answer) <= IF v = \hF2 THEN 2 ELSE 1
    BY AnswerIs
  <1>3. step # 20 => v # \hF2
    BY <1>1, ByteTable DEF WriteSteps
  <1>4. Owed(step) = 0 /\ Len(answer) <= Owed(step + 1)
    <2>1. CASE step = 20
      <3>1. Owed(step + 1) = 2 /\ Owed(step) = 0
        BY <1>1, <2>1, OwedSteps
      <3> HIDE DEF v, answer
      <3> QED
        BY <1>2, <3>1
    <2>2. CASE step # 20
      <3>1. Owed(step + 1) = 1 /\ Owed(step) = 0
        BY <1>1, <2>2, OwedSteps
      <3> HIDE DEF v, answer
      <3> QED
        BY <1>2, <1>3, <2>2, <3>1
    <2> QED
      BY <2>1, <2>2
  <1> HIDE DEF v, answer
  <1>5. coming' = coming \o answer
    BY DEF mouse_write, v, answer
  <1>6. /\ coming' \in Seq(Entries) /\ Len(coming') = Len(coming) + Len(answer)
        /\ Len(coming) \in Nat /\ Len(obuf) \in Nat
    BY <1>2, <1>5 DEF TypeInv
  <1>7. /\ TypeInv' /\ step' = step + 1 /\ step \in 1..Last
        /\ UNCHANGED <<obuf, typed, missed>>
    BY <1>1, <1>6 DEF TypeInv, mouse_write, WriteSteps, Last
  <1>8. LengthInv'
    <2>1. /\ Owed(step) \in Nat /\ Owed(step + 1) \in Nat
          /\ typed \in Nat /\ missed \in Nat
      BY <1>7, OwedSteps DEF TypeInv, Last
    <2>2. step' # 0 /\ step # 0
      BY <1>7 DEF Last
    <2> QED
      BY <1>2, <1>4, <1>6, <1>7, <2>1, <2>2 DEF LengthInv
  <1> QED
    BY <1>7, <1>8

LEMMA CommandKeeps ==
    ASSUME TypeInv, LengthInv, ControllerCommand
    PROVE  TypeInv' /\ LengthInv'
  <1>1. step \in {1, 2, 4}
    BY OpTable DEF TypeInv, ControllerCommand
  <1>2. coming' = IF step = 2 THEN Append(coming, <<"controller", config>>)
                              ELSE coming
    BY <1>1, ByteTable DEF ControllerCommand
  <1>3. <<"controller", config>> \in Entries
    BY DEF TypeInv, Entries
  <1>4. /\ coming' \in Seq(Entries) /\ Len(coming) \in Nat /\ Len(obuf) \in Nat
        /\ Len(coming') = IF step = 2 THEN Len(coming) + 1 ELSE Len(coming)
    BY <1>2, <1>3 DEF TypeInv
  <1>5. /\ TypeInv' /\ step' = step + 1
        /\ UNCHANGED <<config, obuf, typed, missed>>
    BY <1>1, <1>4 DEF TypeInv, ControllerCommand, devices, Last
  <1>6. LengthInv'
    <2>1. Owed(step) = 0 /\ Owed(step + 1) = IF step = 2 THEN 1 ELSE 0
      BY <1>1, OwedSteps
    <2> QED
      BY <1>1, <1>4, <1>5, <2>1 DEF LengthInv, TypeInv
  <1> QED
    BY <1>5, <1>6

LEMMA ConfigKeeps ==
    ASSUME TypeInv, LengthInv, WriteConfig
    PROVE  TypeInv' /\ LengthInv'
  <1>1. step = 5
    BY OpTable DEF TypeInv, WriteConfig
  <1>2. /\ config' = MouseEnabled(status) /\ status' = config' /\ step' = 6
        /\ UNCHANGED <<obuf, coming, typed, missed, drained, device>>
    BY <1>1 DEF WriteConfig, under
  <1>3. config' \in Byte
    BY <1>2, EnabledBits DEF TypeInv
  <1>4. TypeInv'
    BY <1>2, <1>3 DEF TypeInv, Last
  <1>5. LengthInv'
    BY <1>1, <1>2, OwedSteps DEF LengthInv
  <1> QED
    BY <1>4, <1>5

LEMMA ReadKeeps ==
    ASSUME TypeInv, LengthInv, mouse_read
    PROVE  TypeInv' /\ LengthInv'
  <1>1. step \in ReadSteps \cup {3, 22}
    BY OpTable DEF TypeInv, mouse_read
  <1>2. /\ obuf' = IF obuf # <<>> THEN Tail(obuf) ELSE obuf
        /\ missed' = IF GivesUp THEN missed + 1 ELSE missed
        /\ step' = step + 1
        /\ UNCHANGED <<config, device, drained, coming, typed>>
    BY DEF mouse_read, devices
  <1>3. status' \in Byte
    BY HeadTail DEF TypeInv, mouse_read
  <1>4. /\ obuf' \in Seq(Entries) /\ Len(obuf) \in Nat /\ Len(coming) \in Nat
        /\ Len(obuf') = IF Len(obuf) = 0 THEN 0 ELSE Len(obuf) - 1
        /\ GivesUp <=> Len(obuf) = 0 /\ Len(coming) # 0
    <2>1. /\ Len(obuf) \in Nat /\ Len(coming) \in Nat
          /\ obuf = <<>> <=> Len(obuf) = 0
          /\ coming = <<>> <=> Len(coming) = 0
      BY FirstEntry DEF TypeInv
    <2>2. CASE obuf = <<>>
      BY <1>2, <2>1, <2>2 DEF TypeInv, GivesUp
    <2>3. CASE obuf # <<>>
      BY <1>2, <2>1, <2>3, HeadTail DEF TypeInv, GivesUp
    <2> QED
      BY <2>2, <2>3
  <1>5. TypeInv' /\ step \in 1..Last
    BY <1>1, <1>2, <1>3, <1>4 DEF TypeInv, Last, ReadSteps
  <1>6. LengthInv'
    <2>1. /\ Owed(step) = Owed(step + 1) + 1
          /\ Owed(step) \in Nat /\ Owed(step + 1) \in Nat
      BY <1>1, <1>5, OwedSteps DEF Last
    <2>2. step # 0 /\ step' # 0 /\ typed \in Nat /\ missed \in Nat
      BY <1>2, <1>5 DEF Last, TypeInv
    <2> QED
      BY <1>2, <1>4, <2>1, <2>2 DEF LengthInv
  <1> QED
    BY <1>5, <1>6

LEMMA DrainKeeps ==
    ASSUME TypeInv, LengthInv, DrainByte \/ DrainEnd
    PROVE  TypeInv' /\ LengthInv'
  <1>1. CASE DrainByte
    <2>1. /\ obuf' = Tail(obuf) /\ obuf # <<>> /\ step = 0 /\ drained < DrainMax
          /\ drained' = drained + 1
          /\ UNCHANGED <<step, status, device, config, coming, typed, missed>>
      BY <1>1 DEF DrainByte, devices, under
    <2>2. obuf' \in Seq(Entries) /\ Len(obuf') = Len(obuf) - 1 /\ Len(obuf) \in Nat
      BY <2>1, HeadTail DEF TypeInv
    <2>3. TypeInv'
      BY <2>1, <2>2, MouseInitAssumption DEF TypeInv
    <2>4. LengthInv'
      BY <2>1, <2>2, MouseInitAssumption DEF LengthInv, TypeInv
    <2> QED
      BY <2>3, <2>4
  <1>2. CASE DrainEnd
    <2>1. /\ step = 0 /\ step' = 1 /\ (drained = DrainMax \/ obuf = <<>>)
          /\ UNCHANGED <<drained, status, device, config, typed, obuf, coming,
                         missed>>
      BY <1>2 DEF DrainEnd, devices, under
    <2>2. Len(obuf) <= typed /\ Len(coming) = 0
      BY <2>1, HeadTail, MouseInitAssumption DEF LengthInv, TypeInv
    <2>3. TypeInv'
      BY <2>1 DEF TypeInv, Last
    <2>4. LengthInv'
      BY <2>1, <2>2, OwedSteps DEF LengthInv, TypeInv
    <2> QED
      BY <2>3, <2>4
  <1> QED
    BY <1>1, <1>2

LEMMA ArrivalKeeps ==
    ASSUME TypeInv, LengthInv, AnswerArrives
    PROVE  TypeInv' /\ LengthInv' /\ step # 0
  <1>1. /\ coming # <<>> /\ coming' = Tail(coming)
        /\ obuf' = Append(obuf, Head(coming))
        /\ UNCHANGED <<step, drained, status, device, config, typed, missed>>
    BY DEF AnswerArrives, devices
  <1>2. /\ Head(coming) \in Entries /\ coming' \in Seq(Entries)
        /\ Len(coming) \in Nat /\ Len(coming') = Len(coming) - 1
    BY <1>1, FirstEntry DEF TypeInv
  <1>3. obuf' \in Seq(Entries) /\ Len(obuf') = Len(obuf) + 1 /\ Len(obuf) \in Nat
    BY <1>1, <1>2 DEF TypeInv
  <1> QED
    BY <1>1, <1>2, <1>3 DEF TypeInv, LengthInv

LEMMA KeyKeeps ==
    ASSUME TypeInv, LengthInv, NEW b \in KeyBytes, KeyTyped(b)
    PROVE  TypeInv' /\ LengthInv'
  <1>1. <<"kbd", b>> \in Entries
    BY MouseInitAssumption DEF Entries, Byte
  <1>2. /\ obuf' \in Seq(Entries) /\ Len(obuf') = Len(obuf) + 1
        /\ Len(obuf) \in Nat /\ Len(coming) \in Nat
    BY <1>1 DEF KeyTyped, TypeInv
  <1>3. TypeInv' /\ typed' = typed + 1 /\ UNCHANGED <<step, drained, coming, missed>>
    BY <1>2 DEF KeyTyped, TypeInv, devices
  <1>4. LengthInv'
    <2>1. Owed(step) \in Nat
      BY OwedSteps DEF TypeInv
    <2> QED
      BY <1>2, <1>3, <2>1, MouseInitAssumption DEF LengthInv, TypeInv
  <1> QED
    BY <1>3, <1>4

LEMMA BytesInvariant == PollSpec => [](TypeInv /\ LengthInv)
  <1>1. ASSUME TypeInv, LengthInv, [PollNext]_pollVars
        PROVE  TypeInv' /\ LengthInv'
    <2>1. CASE UNCHANGED pollVars
      BY <1>1, <2>1 DEF pollVars, devices, under, TypeInv, LengthInv
    <2> QED
      BY <1>1, <2>1, WriteKeeps, CommandKeeps, ConfigKeeps, ReadKeeps,
         DrainKeeps, ArrivalKeeps, KeyKeeps DEF PollNext, InitStep, Finished
  <1> QED
    BY <1>1, TypeInit, PTL DEF PollSpec

(* No more answers are left for the interrupt handler after mouse_init, in *)
(* the controller or under way, than keys were typed and reads gave up     *)
(* while it ran: none when neither happened.                               *)
THEOREM FewStrayAnswers == PollSpec => []StrayAnswersBounded
  <1> DEFINE all == obuf \o coming
             strays == {i \in 1..Len(all) : all[i][1] # "kbd"}
  <1>1. ASSUME TypeInv, LengthInv, Done
        PROVE  Cardinality(strays) <= typed + missed
    <2>1. step = 25 /\ Owed(25) = 0
      BY <1>1, ScriptTable, OwedSteps DEF Done, Last
    <2>2. Len(all) = Len(obuf) + Len(coming) /\ Len(all) \in Nat
      BY <1>1 DEF TypeInv
    <2>3. typed \in Nat /\ missed \in Nat /\ Len(all) <= typed + missed
      BY <1>1, <2>1, <2>2 DEF TypeInv, LengthInv
    <2>4. strays \subseteq 1..Len(all)
      OBVIOUS
    <2>5. IsFiniteSet(1..Len(all)) /\ Cardinality(1..Len(all)) = Len(all)
      <3> DEFINE n == Len(all)
      <3>1. n \in Nat
        BY <2>2
      <3> HIDE DEF n
      <3>2. IsFiniteSet(1..n) /\ Cardinality(1..n) = n
        BY <3>1, FS_Interval
      <3> QED
        BY <3>2 DEF n
    <2> HIDE DEF strays, all
    <2>6. IsFiniteSet(strays) /\ Cardinality(strays) <= Cardinality(1..Len(all))
      BY <2>4, <2>5, FS_Subset
    <2>7. Cardinality(strays) \in Nat
      BY <2>6, FS_CardinalityType
    <2> QED
      BY <2>2, <2>3, <2>5, <2>6, <2>7
  <1>2. TypeInv /\ LengthInv => StrayAnswersBounded
    BY <1>1 DEF StrayAnswersBounded
  <1> QED
    BY <1>2, BytesInvariant, PTL

-----------------------------------------------------------------------------
(* Where the byte taken for the configuration comes from.                  *)

Expected(s) == \A i \in 1..Len(s) : s[i][2] \in ConfigBytes

(* While the loop drains, the bytes behind as many as it will still read   *)
(* are keys typed meanwhile; after it there is nothing but those and the   *)
(* controller's answer, until the read has taken one of them.              *)
SourceInv ==
    /\ step = 0 => \A i \in 1..Len(obuf) :
                      i > DrainMax - drained => obuf[i][2] \in ConfigBytes
    /\ step \in 1..3 => Expected(obuf) /\ Expected(coming)
    /\ step = 3 => obuf # <<>> \/ coming # <<>>
    /\ step <= 5 => config = Config0
    /\ step \in {4, 5} => status \in ConfigBytes
    /\ step >= 6 => \E v \in ConfigBytes : config = MouseEnabled(v)

(* Keys typed and reads given up only add to what the byte may have been.  *)
LEMMA MoreBytes ==
    ASSUME typed \in Nat, missed \in Nat, typed' \in {typed, typed + 1},
           missed' \in {missed, missed + 1}
    PROVE  /\ \A v \in ConfigBytes : v \in ConfigBytes'
           /\ Config0 \in ConfigBytes
           /\ typed' = typed + 1 => \A b \in KeyBytes : b \in ConfigBytes'
           /\ missed' = missed + 1 => 0 \in ConfigBytes'
  <1>1. /\ typed > 0 => typed' > 0
        /\ missed > 0 => missed' > 0
        /\ typed' = typed + 1 => typed' > 0
        /\ missed' = missed + 1 => missed' > 0
    OBVIOUS
  <1> QED
    BY <1>1, Zenon DEF ConfigBytes

LEMMA SourceDrain ==
    ASSUME TypeInv, LengthInv, SourceInv, DrainByte \/ DrainEnd
    PROVE  SourceInv'
  <1>1. ConfigBytes' = ConfigBytes /\ config' = config /\ status' = status
    BY DEF DrainByte, DrainEnd, devices, under, ConfigBytes
  <1>2. CASE DrainByte
    <2>1. /\ obuf' = Tail(obuf) /\ obuf # <<>> /\ step = 0 /\ step' = 0
          /\ drained' = drained + 1 /\ drained \in Nat /\ DrainMax \in Nat
      BY <1>2, MouseInitAssumption DEF DrainByte, TypeInv
    <2>2. /\ Len(obuf') = Len(obuf) - 1 /\ Len(obuf) \in Nat
          /\ \A i \in 1..Len(obuf') : obuf'[i] = obuf[i + 1]
      BY <2>1, FirstEntry DEF TypeInv
    <2>3. ASSUME NEW i \in 1..Len(obuf'), i > DrainMax - drained'
          PROVE  obuf'[i][2] \in ConfigBytes
      <3>1. i + 1 \in 1..Len(obuf) /\ i + 1 > DrainMax - drained
        BY <2>1, <2>2, <2>3
      <3> QED
        BY <2>1, <2>2, <3>1 DEF SourceInv
    <2> QED
      BY <1>1, <2>1, <2>3 DEF SourceInv
  <1>3. CASE DrainEnd
    <2>1. /\ step = 0 /\ step' = 1 /\ obuf' = obuf /\ coming' = coming
          /\ (drained = DrainMax \/ obuf = <<>>)
      BY <1>3 DEF DrainEnd, under
    <2>2. Len(coming) = 0
      BY <2>1, FirstEntry DEF LengthInv, TypeInv
    <2>3. ASSUME NEW i \in 1..Len(obuf) PROVE obuf[i][2] \in ConfigBytes
      <3>1. obuf # <<>> /\ Len(obuf) \in Nat
        BY <2>3, FirstEntry DEF TypeInv
      <3>2. i > DrainMax - drained
        BY <2>1, <3>1, MouseInitAssumption
      <3> QED
        BY <2>1, <3>2 DEF SourceInv
    <2> QED
      BY <1>1, <2>1, <2>2, <2>3 DEF SourceInv, Expected
  <1> QED
    BY <1>2, <1>3

LEMMA SourceCommand ==
    ASSUME TypeInv, LengthInv, SourceInv, ControllerCommand
    PROVE  SourceInv'
  <1>1. step \in {1, 2, 4}
    BY OpTable DEF TypeInv, ControllerCommand
  <1>2. /\ coming' = IF step = 2 THEN Append(coming, <<"controller", config>>)
                                 ELSE coming
        /\ step' = step + 1 /\ ConfigBytes' = ConfigBytes
        /\ UNCHANGED <<obuf, config, status>>
    BY <1>1, ByteTable DEF ControllerCommand, devices, ConfigBytes
  <1>3. config = Config0 /\ Config0 \in ConfigBytes
    BY <1>1 DEF SourceInv, ConfigBytes
  <1>4. CASE step = 2
    <2>1. <<"controller", config>> \in Entries
      BY DEF TypeInv, Entries
    <2>2. /\ Len(coming') = Len(coming) + 1 /\ Len(coming) \in Nat
          /\ \A i \in 1..Len(coming) : coming'[i] = coming[i]
          /\ coming'[Len(coming) + 1] = <<"controller", config>>
      BY <1>2, <1>4, <2>1 DEF TypeInv
    <2>3. ASSUME NEW i \in 1..Len(coming') PROVE coming'[i][2] \in ConfigBytes
      <3>1. CASE i = Len(coming) + 1
        BY <1>3, <2>2, <3>1
      <3>2. CASE i # Len(coming) + 1
        <4>1. i \in 1..Len(coming)
          BY <2>2, <3>2
        <4> QED
          BY <1>4, <2>2, <4>1 DEF SourceInv, Expected
      <3> QED
        BY <3>1, <3>2
    <2>4. coming' # <<>>
      BY <2>2
    <2> QED
      BY <1>2, <1>3, <1>4, <2>3, <2>4 DEF SourceInv, Expected
  <1>5. CASE step # 2
    BY <1>1, <1>2, <1>5 DEF SourceInv, Expected
  <1> QED
    BY <1>4, <1>5

LEMMA SourceRead ==
    ASSUME TypeInv, LengthInv, SourceInv, mouse_read
    PROVE  SourceInv'
  <1>1. step \in ReadSteps \cup {3, 22}
    BY OpTable DEF TypeInv, mouse_read
  <1>2. /\ step' = step + 1 /\ config' = config
        /\ missed' = IF GivesUp THEN missed + 1 ELSE missed
        /\ typed' = typed
        /\ step = 3 => status' = ReadByte
    <2>1. Op \in {"read", "readConfig", "readId"}
      BY DEF mouse_read
    <2>2. step = 3 => Op = "readConfig"
      BY <2>1, OpTable DEF TypeInv, ReadSteps
    <2> QED
      BY <2>2 DEF mouse_read, devices
  <1>3. /\ \A v \in ConfigBytes : v \in ConfigBytes'
        /\ missed' = missed + 1 => 0 \in ConfigBytes'
    BY <1>2, MoreBytes DEF TypeInv
  <1>4. CASE step = 3
    <2>1. CASE obuf # <<>>
      <3>1. Head(obuf) = obuf[1] /\ 1 \in 1..Len(obuf)
        BY <2>1, FirstEntry DEF TypeInv
      <3>2. ReadByte \in ConfigBytes
        BY <1>4, <2>1, <3>1 DEF SourceInv, Expected, ReadByte
      <3> QED
        BY <1>2, <1>3, <1>4, <3>2 DEF SourceInv
    <2>2. CASE obuf = <<>>
      <3>1. GivesUp /\ ReadByte = 0
        BY <1>4, <2>2 DEF SourceInv, GivesUp, ReadByte
      <3> QED
        BY <1>2, <1>3, <1>4, <3>1 DEF SourceInv
    <2> QED
      BY <2>1, <2>2
  <1>5. CASE step # 3
    <2>1. /\ step >= 6 /\ step' >= 6 /\ ~(step' = 0) /\ ~(step' <= 5)
          /\ step' \notin 1..3 /\ step' \notin {4, 5}
      BY <1>1, <1>2, <1>5 DEF ReadSteps
    <2>2. PICK v \in ConfigBytes : config = MouseEnabled(v)
      BY <2>1 DEF SourceInv
    <2>3. v \in ConfigBytes' /\ config' = MouseEnabled(v)
      BY <1>2, <1>3, <2>2
    <2> QED
      BY <2>1, <2>3 DEF SourceInv, MouseEnabled, HasBit
  <1> QED
    BY <1>4, <1>5

LEMMA SourceArrival ==
    ASSUME TypeInv, LengthInv, SourceInv, AnswerArrives
    PROVE  SourceInv'
  <1>1. step # 0
    BY ArrivalKeeps
  <1>2. /\ coming # <<>> /\ coming' = Tail(coming)
        /\ obuf' = Append(obuf, Head(coming)) /\ ConfigBytes' = ConfigBytes
        /\ UNCHANGED <<step, config, status>>
    BY DEF AnswerArrives, devices, ConfigBytes
  <1>3. /\ Head(coming) \in Entries /\ Head(coming) = coming[1]
        /\ Len(coming) \in Nat \ {0} /\ Len(coming') = Len(coming) - 1
        /\ \A i \in 1..Len(coming') : coming'[i] = coming[i + 1]
    BY <1>2, FirstEntry DEF TypeInv
  <1>4. /\ Len(obuf) \in Nat /\ Len(obuf') = Len(obuf) + 1
        /\ \A i \in 1..Len(obuf) : obuf'[i] = obuf[i]
        /\ obuf'[Len(obuf) + 1] = coming[1]
    BY <1>2, <1>3 DEF TypeInv
  <1>5. ASSUME step \in 1..3 PROVE Expected(obuf)' /\ Expected(coming)'
    <2>1. \A i \in 1..Len(coming') : coming'[i][2] \in ConfigBytes
      <3> TAKE i \in 1..Len(coming')
      <3>1. i + 1 \in 1..Len(coming)
        BY <1>3
      <3> QED
        BY <1>3, <1>5, <3>1 DEF SourceInv, Expected
    <2>2. \A i \in 1..Len(obuf') : obuf'[i][2] \in ConfigBytes
      <3> TAKE i \in 1..Len(obuf')
      <3>1. CASE i = Len(obuf) + 1
        <4>1. 1 \in 1..Len(coming)
          BY <1>3
        <4> QED
          BY <1>4, <1>5, <3>1, <4>1 DEF SourceInv, Expected
      <3>2. CASE i # Len(obuf) + 1
        <4>1. i \in 1..Len(obuf)
          BY <1>4, <3>2
        <4> QED
          BY <1>4, <1>5, <4>1 DEF SourceInv, Expected
      <3> QED
        BY <3>1, <3>2
    <2> QED
      BY <1>2, <2>1, <2>2 DEF Expected
  <1>6. obuf' # <<>>
    BY <1>4
  <1> QED
    BY <1>1, <1>2, <1>5, <1>6 DEF SourceInv

LEMMA SourceKey ==
    ASSUME TypeInv, LengthInv, SourceInv, NEW b \in KeyBytes, KeyTyped(b)
    PROVE  SourceInv'
  <1>1. /\ obuf' = Append(obuf, <<"kbd", b>>) /\ typed' = typed + 1
        /\ UNCHANGED <<step, drained, config, status, coming, missed>>
    BY DEF KeyTyped, devices
  <1>2. /\ \A v \in ConfigBytes : v \in ConfigBytes'
        /\ b \in ConfigBytes'
    BY <1>1, MoreBytes DEF TypeInv
  <1>3. <<"kbd", b>> \in Entries
    BY MouseInitAssumption DEF Entries, Byte
  <1>4. /\ Len(obuf) \in Nat /\ Len(obuf') = Len(obuf) + 1 /\ obuf' # <<>>
        /\ \A i \in 1..Len(obuf) : obuf'[i] = obuf[i]
        /\ obuf'[Len(obuf) + 1] = <<"kbd", b>>
    <2> DEFINE key == <<"kbd", b>>
    <2>1. key \in Entries /\ obuf' = Append(obuf, key) /\ obuf \in Seq(Entries)
      BY <1>1, <1>3 DEF TypeInv
    <2> HIDE DEF key
    <2>2. /\ Len(obuf) \in Nat /\ Len(obuf') = Len(obuf) + 1
          /\ \A i \in 1..Len(obuf) : obuf'[i] = obuf[i]
          /\ obuf'[Len(obuf) + 1] = key /\ obuf' \in Seq(Entries)
      BY <2>1
    <2>3. obuf' # <<>>
      BY <2>2, EmptySeq
    <2> QED
      BY <2>2, <2>3 DEF key
  <1>5. ASSUME NEW i \in 1..Len(obuf'),
               i \in 1..Len(obuf) => obuf[i][2] \in ConfigBytes
        PROVE  obuf'[i][2] \in ConfigBytes'
    <2>1. CASE i = Len(obuf) + 1
      BY <1>2, <1>4, <2>1
    <2>2. CASE i # Len(obuf) + 1
      <3>1. i \in 1..Len(obuf)
        BY <1>4, <2>2
      <3> QED
        BY <1>2, <1>4, <1>5, <3>1
    <2> QED
      BY <2>1, <2>2
  <1>6. step = 0 => \A i \in 1..Len(obuf') :
                       i > DrainMax - drained => obuf'[i][2] \in ConfigBytes'
    BY <1>5 DEF SourceInv
  <1>7. step \in 1..3 => Expected(obuf)' /\ Expected(coming)'
    <2> SUFFICES ASSUME step \in 1..3 PROVE Expected(obuf)' /\ Expected(coming)'
      OBVIOUS
    <2>1. \A i \in 1..Len(obuf') : obuf'[i][2] \in ConfigBytes'
      BY <1>5 DEF SourceInv, Expected
    <2>2. \A i \in 1..Len(coming) : coming[i][2] \in ConfigBytes'
      BY <1>2 DEF SourceInv, Expected
    <2> QED
      BY <1>1, <2>1, <2>2 DEF Expected
  <1> QED
    BY <1>1, <1>2, <1>4, <1>6, <1>7 DEF SourceInv

(* The byte that mouse_init writes back as the configuration is that of    *)
(* the controller, or of a key typed meanwhile, or the 0 of a read that    *)
(* gave up, for every firmware, keyboard and mouse and however they are    *)
(* interleaved with the drain loop and the commands.                       *)
THEOREM ConfigurationKnown == PollSpec => []ConfigByteSource
  <1>1. ASSUME PollInit PROVE SourceInv
    <2>1. PICK s \in StaleBytes : obuf = [i \in DOMAIN s |-> <<"kbd", s[i]>>]
      BY <1>1 DEF PollInit
    <2>2. s \in Seq(Byte) /\ Len(s) <= DrainMax /\ Len(s) \in Nat
      BY MouseInitAssumption DEF Byte
    <2>3. Len(obuf) = Len(s)
      <3>1. DOMAIN s = 1..Len(s)
        BY <2>2
      <3> QED
        BY <2>1, <2>2, <3>1
    <2> QED
      BY <1>1, <2>2, <2>3, MouseInitAssumption DEF PollInit, SourceInv
  <1>2. ASSUME TypeInv, LengthInv, SourceInv, [PollNext]_pollVars
        PROVE  SourceInv'
    <2>1. CASE UNCHANGED pollVars
      BY <1>2, <2>1 DEF pollVars, devices, under, SourceInv, Expected, ConfigBytes
    <2>2. CASE mouse_write
      <3>1. step \in WriteSteps
        BY <1>2, <2>2, OpTable DEF TypeInv, mouse_write
      <3>2. step >= 6 /\ step' >= 6 /\ config' = config /\ ConfigBytes' = ConfigBytes
        BY <2>2, <3>1 DEF WriteSteps, mouse_write, ConfigBytes
      <3>3. \E v \in ConfigBytes : config = MouseEnabled(v)
        BY <1>2, <3>2 DEF SourceInv
      <3>4. ~(step' = 0) /\ ~(step' <= 5) /\ step' \notin 1..3 /\ step' \notin {4, 5}
        BY <2>2, <3>1 DEF WriteSteps, mouse_write
      <3> QED
        BY <3>2, <3>3, <3>4 DEF SourceInv, MouseEnabled, HasBit
    <2>3. CASE WriteConfig
      <3>1. step = 5
        BY <1>2, <2>3, OpTable DEF TypeInv, WriteConfig
      <3>2. config' = MouseEnabled(status) /\ step' = 6 /\ ConfigBytes' = ConfigBytes
        BY <2>3, <3>1 DEF WriteConfig, under, ConfigBytes
      <3> QED
        BY <1>2, <3>1, <3>2 DEF SourceInv
    <2> QED
      BY <1>2, <2>1, <2>2, <2>3, SourceDrain, SourceCommand, SourceRead,
         SourceArrival, SourceKey DEF PollNext, InitStep, Finished
  <1>3. SourceInv => ConfigByteSource
    <2>1. Done => step = 25
      BY ScriptTable DEF Done, Last
    <2> QED
      BY <2>1 DEF SourceInv, ConfigByteSource
  <1> QED
    BY <1>1, <1>2, <1>3, BytesInvariant, PTL DEF PollSpec

-----------------------------------------------------------------------------
(* The conversation while nobody types and no answer is late.              *)

Ack == <<"mouse", ACK>>
Id(dev) == <<"mouse", IF dev = "wheel" THEN 3 ELSE 0>>

Quiet == typed = 0 /\ missed = 0

(* The answers that wait or are under way before the k-th statement.       *)
Pending(k, dev) ==
    IF k = 3 THEN <<<<"controller", Config0>>>>
    ELSE IF dev = "none" THEN <<>>
    ELSE IF k = 21 THEN <<Ack, Id(dev)>>
    ELSE IF k = 22 THEN <<Id(dev)>>
    ELSE IF Owed(k) = 1 THEN <<Ack>> ELSE <<>>

RatesAt(k) ==
    IF k <= 10 THEN <<>>
    ELSE IF k <= 14 THEN <<200>>
    ELSE IF k <= 18 THEN <<200, 100>>
    ELSE <<200, 100, 80>>

QuietInv ==
    Quiet =>
        /\ step # 0 => obuf \o coming = Pending(step, device)
        /\ rates = RatesAt(step)
        /\ config = IF step <= 5 THEN Config0 ELSE MouseEnabled(Config0)
        /\ step \in {4, 5} => status = Config0
        /\ step >= 23 => has_wheel = (device = "wheel")

(* A byte that asks for nothing but an acknowledgement, and the question   *)
(* for the identifier.                                                     *)
LEMMA AnswerExact ==
    ASSUME NEW v
    PROVE  /\ device = "none" => Answer(v) = <<>>
           /\ device # "none" /\ v # \hF2 => Answer(v) = <<Ack>>
           /\ device # "none" /\ rates = <<200, 100, 80>> => Answer(\hF2) = <<Ack, Id(device)>>
  BY DEF Answer, Ack, Id

LEMMA RatesAppended ==
    /\ Append(<<200>>, 100) = <<200, 100>>
    /\ Append(<<200, 100>>, 80) = <<200, 100, 80>>
  <1>1. /\ <<200>> \in Seq(Nat) /\ <<200, 100>> \in Seq(Nat)
        /\ <<200, 100, 80>> \in Seq(Nat)
    OBVIOUS
  <1>2. Append(<<200>>, 100) = <<200, 100>>
    <2> DEFINE s == Append(<<200>>, 100)
               t == <<200, 100>>
    <2>1. /\ s \in Seq(Nat) /\ Len(s) = 2
          /\ s[1] = 200 /\ s[2] = 100
      BY <1>1
    <2>2. t \in Seq(Nat) /\ Len(t) = 2 /\ \A i \in 1..2 : s[i] = t[i]
      BY <1>1, <2>1
    <2> HIDE DEF s, t
    <2>3. /\ s \in Seq(Nat) /\ t \in Seq(Nat) /\ Len(s) = Len(t)
          /\ \A i \in 1..Len(s) : s[i] = t[i]
      BY <2>1, <2>2
    <2>4. s = t
      BY <2>3, SeqEqual, Zenon
    <2> QED
      BY <2>4 DEF s, t
  <1>3. Append(<<200, 100>>, 80) = <<200, 100, 80>>
    <2> DEFINE s == Append(<<200, 100>>, 80)
               t == <<200, 100, 80>>
    <2>1. /\ s \in Seq(Nat) /\ Len(s) = 3
          /\ s[1] = 200 /\ s[2] = 100 /\ s[3] = 80
      BY <1>1
    <2>2. t \in Seq(Nat) /\ Len(t) = 3 /\ \A i \in 1..3 : s[i] = t[i]
      BY <1>1, <2>1
    <2> HIDE DEF s, t
    <2>3. /\ s \in Seq(Nat) /\ t \in Seq(Nat) /\ Len(s) = Len(t)
          /\ \A i \in 1..Len(s) : s[i] = t[i]
      BY <2>1, <2>2
    <2>4. s = t
      BY <2>3, SeqEqual, Zenon
    <2> QED
      BY <2>4 DEF s, t
  <1> QED
    BY <1>2, <1>3

(* The bytes in the register and those behind them, as one sequence: what  *)
(* arrives stays in its place, and what is read is the first.              *)
LEMMA OneSequence ==
    ASSUME NEW S, NEW s \in Seq(S), NEW t \in Seq(S)
    PROVE  /\ s \o t = <<>> <=> s = <<>> /\ t = <<>>
           /\ t # <<>> => Append(s, Head(t)) \o Tail(t) = s \o t
           /\ s # <<>> => /\ s \o t # <<>> /\ Head(s \o t) = Head(s)
                          /\ Tail(s) \o t = Tail(s \o t)
  <1> DEFINE whole == s \o t
  <1>1. PICK m \in Nat, n \in Nat : m = Len(s) /\ n = Len(t)
    BY LenProperties
  <1>2. /\ whole \in Seq(S) /\ Len(whole) = m + n
        /\ \A i \in 1..m : whole[i] = s[i]
        /\ \A i \in 1..n : whole[m + i] = t[i]
    BY <1>1, Joined DEF Joins
  <1>3. /\ s = <<>> <=> m = 0
        /\ t = <<>> <=> n = 0
        /\ whole = <<>> <=> m + n = 0
    BY <1>1, <1>2, FirstEntry
  <1> HIDE DEF whole
  <1>4. whole = <<>> <=> s = <<>> /\ t = <<>>
    BY <1>3
  <1>5. ASSUME t # <<>>
        PROVE  Append(s, Head(t)) \o Tail(t) = whole
    <2> DEFINE front == Append(s, Head(t))
               back == Tail(t)
               other == front \o back
    <2>1. /\ back \in Seq(S) /\ Len(back) = n - 1 /\ n > 0
          /\ Head(t) \in S /\ Head(t) = t[1]
          /\ \A i \in 1..(n - 1) : back[i] = t[i + 1]
      BY <1>1, <1>3, <1>5, FirstEntry
    <2>2. /\ front \in Seq(S) /\ Len(front) = m + 1 /\ front[m + 1] = t[1]
          /\ \A i \in 1..m : front[i] = s[i]
      BY <1>1, <2>1
    <2> HIDE DEF front, back
    <2>3. /\ other \in Seq(S) /\ Len(other) = (m + 1) + (n - 1)
          /\ \A i \in 1..(m + 1) : other[i] = front[i]
          /\ \A i \in 1..(n - 1) : other[(m + 1) + i] = back[i]
      <3>1. Joins(S, front \o back, front, m + 1, back, n - 1)
        BY <2>1, <2>2, Joined
      <3> QED
        BY <3>1 DEF Joins
    <2> HIDE DEF other
    <2>4. ASSUME NEW i \in 1..Len(other) PROVE other[i] = whole[i]
      <3>1. i \in 1..(m + n)
        BY <2>1, <2>3
      <3>2. CASE i <= m
        BY <1>2, <2>2, <2>3, <3>1, <3>2
      <3>3. CASE i = m + 1
        <4>1. 1 \in 1..n /\ m + 1 \in 1..(m + 1)
          BY <2>1
        <4>2. other[m + 1] = t[1]
          BY <2>2, <2>3, <4>1
        <4> QED
          BY <1>2, <3>3, <4>1, <4>2
      <3>4. CASE i > m + 1
        <4>1. PICK k \in 1..(n - 1) : i = (m + 1) + k
          <5>1. i - (m + 1) \in 1..(n - 1) /\ i = (m + 1) + (i - (m + 1))
            BY <2>1, <3>1, <3>4
          <5> QED
            BY <5>1
        <4>2. k + 1 \in 1..n /\ i = m + (k + 1)
          BY <2>1, <4>1
        <4>3. other[i] = back[k] /\ back[k] = t[k + 1]
          BY <2>1, <2>3, <4>1
        <4>4. whole[i] = t[k + 1]
          BY <1>2, <4>2
        <4> QED
          BY <4>3, <4>4
      <3> QED
        BY <3>1, <3>2, <3>3, <3>4
    <2>5. Len(other) = Len(whole)
      BY <1>2, <2>1, <2>3
    <2>6. other = whole
      BY <1>2, <2>3, <2>4, <2>5, SeqEqual, Zenon
    <2> QED
      BY <2>6 DEF other, front, back
  <1>6. ASSUME s # <<>>
        PROVE  /\ whole # <<>> /\ Head(whole) = Head(s)
               /\ Tail(s) \o t = Tail(whole)
    <2> DEFINE rest == Tail(s)
               other == rest \o t
               tail == Tail(whole)
    <2>1. /\ rest \in Seq(S) /\ Len(rest) = m - 1 /\ m > 0
          /\ Head(s) = s[1]
          /\ \A i \in 1..(m - 1) : rest[i] = s[i + 1]
      BY <1>1, <1>3, <1>6, FirstEntry
    <2>2. whole # <<>>
      BY <1>4, <1>6
    <2>3. /\ tail \in Seq(S) /\ Len(tail) = (m + n) - 1
          /\ Head(whole) = whole[1]
          /\ \A i \in 1..((m + n) - 1) : tail[i] = whole[i + 1]
      BY <1>2, <2>2, FirstEntry
    <2> HIDE DEF rest, tail
    <2>4. /\ other \in Seq(S) /\ Len(other) = (m - 1) + n
          /\ \A i \in 1..(m - 1) : other[i] = rest[i]
          /\ \A i \in 1..n : other[(m - 1) + i] = t[i]
      <3>1. Joins(S, rest \o t, rest, m - 1, t, n)
        BY <1>1, <2>1, Joined
      <3> QED
        BY <3>1 DEF Joins
    <2> HIDE DEF other
    <2>5. ASSUME NEW i \in 1..Len(other) PROVE other[i] = tail[i]
      <3>1. i \in 1..((m + n) - 1)
        BY <2>1, <2>4
      <3>2. CASE i <= m - 1
        <4>1. i \in 1..(m - 1) /\ i + 1 \in 1..m
          BY <3>1, <3>2
        <4> QED
          BY <1>2, <2>1, <2>3, <2>4, <3>1, <4>1
      <3>3. CASE i > m - 1
        <4>1. PICK k \in 1..n : i = (m - 1) + k
          <5>1. i - (m - 1) \in 1..n /\ i = (m - 1) + (i - (m - 1))
            BY <2>1, <3>1, <3>3
          <5> QED
            BY <5>1
        <4>2. i + 1 = m + k
          BY <4>1
        <4> QED
          BY <1>2, <2>3, <2>4, <3>1, <4>1, <4>2
      <3> QED
        BY <3>1, <3>2, <3>3
    <2>6. Len(other) = Len(tail)
      BY <2>3, <2>4
    <2>7. other = tail
      BY <2>3, <2>4, <2>5, <2>6, SeqEqual, Zenon
    <2>8. Head(whole) = Head(s)
      <3>1. 1 \in 1..m
        BY <2>1
      <3> QED
        BY <1>2, <2>1, <2>3, <3>1
    <2> QED
      BY <2>2, <2>7, <2>8 DEF other, rest, tail
  <1> QED
    BY <1>4, <1>5, <1>6 DEF whole

LEMMA QuietWrite ==
    ASSUME TypeInv, QuietInv, mouse_write, Quiet
    PROVE  QuietInv'
  <1>1. step \in WriteSteps
    BY OpTable DEF TypeInv, mouse_write
  <1>2. /\ step' = step + 1 /\ coming' = coming \o Answer(Script[step].val)
        /\ rates' = IF Script[step].val \in {200, 100, 80}
                    THEN Append(rates, Script[step].val) ELSE rates
        /\ UNCHANGED <<has_wheel, status, device, config, obuf>>
    BY DEF mouse_write
  <1>3. /\ obuf \o coming = Pending(step, device) /\ rates = RatesAt(step)
        /\ config = IF step <= 5 THEN Config0 ELSE MouseEnabled(Config0)
        /\ step >= 23 => has_wheel = (device = "wheel")
    BY <1>1 DEF QuietInv, WriteSteps
  <1>4. obuf = <<>> /\ coming = <<>>
    <2>1. Owed(step) = 0 /\ step \notin {3, 21, 22}
      BY <1>1, OwedSteps DEF WriteSteps
    <2>2. obuf \o coming = <<>>
      BY <1>3, <2>1 DEF Pending
    <2> QED
      BY <2>2, OneSequence DEF TypeInv
  <1>5. rates' = RatesAt(step + 1)
    <2>1. CASE step \in {6, 8, 12, 16, 20, 23}
      <3>1. Script[step].val \notin {200, 100, 80}
        BY <2>1, ByteTable
      <3>2. RatesAt(step + 1) = RatesAt(step)
        BY <2>1 DEF RatesAt
      <3> QED
        BY <1>2, <1>3, <3>1, <3>2
    <2>2. CASE step = 10
      <3>1. rates = <<>> /\ Script[step].val = 200
        BY <1>3, <2>2, ByteTable DEF RatesAt
      <3>2. rates' = <<200>>
        BY <1>2, <3>1
      <3> QED
        BY <2>2, <3>2 DEF RatesAt
    <2>3. CASE step = 14
      <3>1. rates = <<200>> /\ Script[step].val = 100
        BY <1>3, <2>3, ByteTable DEF RatesAt
      <3>2. rates' = <<200, 100>>
        BY <1>2, <3>1, RatesAppended
      <3> QED
        BY <2>3, <3>2 DEF RatesAt
    <2>4. CASE step = 18
      <3>1. rates = <<200, 100>> /\ Script[step].val = 80
        BY <1>3, <2>4, ByteTable DEF RatesAt
      <3>2. rates' = <<200, 100, 80>>
        BY <1>2, <3>1, RatesAppended
      <3> QED
        BY <2>4, <3>2 DEF RatesAt
    <2> QED
      BY <1>1, <2>1, <2>2, <2>3, <2>4 DEF WriteSteps
  <1>6. obuf' \o coming' = Pending(step + 1, device)
    <2> DEFINE answer == Answer(Script[step].val)
    <2>1. answer \in Seq(Entries)
      BY AnswerIs
    <2>2. obuf' \o coming' = answer
      <3>1. coming' = coming \o answer
        BY <1>2
      <3> HIDE DEF answer
      <3>2. <<>> \o answer = answer
        BY <2>1, ConcatEmptySeq
      <3> QED
        BY <1>2, <1>4, <3>1, <3>2
    <2>4. CASE device = "none"
      <3>1. answer = <<>>
        BY <2>4, AnswerExact
      <3>2. Pending(step + 1, device) = <<>>
        BY <1>1, <2>4 DEF Pending, WriteSteps
      <3> QED
        BY <2>2, <3>1, <3>2
    <2>5. CASE device # "none" /\ step = 20
      <3>1. rates = <<200, 100, 80>>
        BY <1>3, <2>5 DEF RatesAt
      <3>2. answer = <<Ack, Id(device)>>
        BY <2>5, <3>1, ByteTable, AnswerExact
      <3>3. Pending(step + 1, device) = <<Ack, Id(device)>>
        BY <2>5 DEF Pending
      <3> QED
        BY <2>2, <3>2, <3>3
    <2>6. CASE device # "none" /\ step # 20
      <3>1. Script[step].val # \hF2
        BY <1>1, <2>6, ByteTable DEF WriteSteps
      <3>2. answer = <<Ack>>
        BY <2>6, <3>1, AnswerExact
      <3>3. Owed(step + 1) = 1 /\ step + 1 \notin {3, 21, 22}
        BY <1>1, <2>6, OwedSteps DEF WriteSteps
      <3>4. Pending(step + 1, device) = <<Ack>>
        BY <2>6, <3>3 DEF Pending
      <3> QED
        BY <2>2, <3>2, <3>4
    <2> QED
      BY <2>4, <2>5, <2>6
  <1>7. /\ config' = IF step' <= 5 THEN Config0 ELSE MouseEnabled(Config0)
        /\ step' \notin {4, 5}
        /\ step' >= 23 => has_wheel' = (device' = "wheel")
    BY <1>1, <1>2, <1>3 DEF WriteSteps
  <1> QED
    BY <1>1, <1>2, <1>5, <1>6, <1>7 DEF QuietInv, WriteSteps

LEMMA QuietCommand ==
    ASSUME TypeInv, QuietInv, ControllerCommand, Quiet
    PROVE  QuietInv'
  <1>1. step \in {1, 2, 4}
    BY OpTable DEF TypeInv, ControllerCommand
  <1>2. /\ coming' = IF step = 2 THEN Append(coming, <<"controller", config>>)
                                 ELSE coming
        /\ step' = step + 1
        /\ UNCHANGED <<rates, has_wheel, status, device, config, obuf>>
    BY <1>1, ByteTable DEF ControllerCommand, devices
  <1>3. /\ obuf \o coming = Pending(step, device) /\ rates = RatesAt(step)
        /\ config = Config0 /\ (step = 4 => status = Config0)
    BY <1>1 DEF QuietInv
  <1>4. obuf = <<>> /\ coming = <<>>
    <2>1. Owed(step) = 0 /\ step \notin {3, 21, 22}
      BY <1>1, OwedSteps
    <2>2. obuf \o coming = <<>>
      BY <1>3, <2>1 DEF Pending
    <2> QED
      BY <2>2, OneSequence DEF TypeInv
  <1>5. obuf' \o coming' = Pending(step + 1, device)
    <2>1. CASE step = 2
      <3>1. coming' = <<<<"controller", Config0>>>>
        BY <1>2, <1>3, <1>4, <2>1
      <3>2. <<<<"controller", Config0>>>> \in Seq(Entries)
        <4>1. <<"controller", Config0>> \in Entries
          BY MouseInitAssumption DEF Entries, Byte
        <4> QED
          BY <4>1
      <3>3. <<>> \o coming' = coming'
        BY <3>1, <3>2, ConcatEmptySeq
      <3> QED
        BY <1>2, <1>4, <2>1, <3>1, <3>3 DEF Pending
    <2>2. CASE step # 2
      <3>1. Owed(step + 1) = 0 /\ step + 1 \notin {3, 21, 22}
        BY <1>1, <2>2, OwedSteps DEF Owed
      <3>2. Pending(step + 1, device) = <<>>
        BY <3>1 DEF Pending
      <3>3. <<>> \o <<>> = <<>>
        BY OneSequence, EmptySeq
      <3> QED
        BY <1>2, <1>4, <2>2, <3>2, <3>3
    <2> QED
      BY <2>1, <2>2
  <1>6. RatesAt(step + 1) = RatesAt(step)
    BY <1>1 DEF RatesAt
  <1> QED
    <2>1. step' \in {2, 3, 5} /\ (step' = 5 => step = 4)
      BY <1>1, <1>2
    <2>2. obuf' \o coming' = Pending(step', device') /\ rates' = RatesAt(step')
      BY <1>2, <1>3, <1>5, <1>6
    <2>3. config' = Config0 /\ (step' = 5 => status' = Config0)
      BY <1>2, <1>3, <2>1
    <2> QED
      BY <2>1, <2>2, <2>3 DEF QuietInv

LEMMA QuietConfig ==
    ASSUME TypeInv, QuietInv, WriteConfig, Quiet
    PROVE  QuietInv'
  <1>1. step = 5
    BY OpTable DEF TypeInv, WriteConfig
  <1>2. /\ config' = MouseEnabled(status) /\ step' = 6
        /\ UNCHANGED <<obuf, coming, rates, has_wheel, device>>
    BY <1>1 DEF WriteConfig, under
  <1>3. obuf \o coming = Pending(5, device) /\ rates = RatesAt(5) /\ status = Config0
    BY <1>1 DEF QuietInv
  <1>4. Pending(6, device) = Pending(5, device) /\ RatesAt(6) = RatesAt(5)
    BY DEF Pending, Owed, RatesAt
  <1> QED
    BY <1>2, <1>3, <1>4 DEF QuietInv

(* A read takes the first of the answers that wait.                        *)
LEMMA PendingTail ==
    ASSUME NEW k \in ReadSteps \cup {3, 22}, NEW dev
    PROVE  Pending(k + 1, dev) = IF Pending(k, dev) # <<>>
                                 THEN Tail(Pending(k, dev)) ELSE Pending(k, dev)
  <1>1. Owed(k) = Owed(k + 1) + 1 /\ Owed(k + 1) \in Nat
    BY OwedSteps DEF ReadSteps, Last
  <1>2. k + 1 \notin {3, 21}
    BY DEF ReadSteps
  <1>3. CASE dev = "none"
    <2>1. Pending(k + 1, dev) = <<>>
      BY <1>2, <1>3 DEF Pending
    <2>2. CASE k = 3
      <3>1. Pending(k, dev) = <<<<"controller", Config0>>>>
        BY <2>2 DEF Pending
      <3>2. Pending(k, dev) # <<>> /\ Tail(Pending(k, dev)) = <<>>
        BY <3>1
      <3> QED
        BY <2>1, <3>2
    <2>3. CASE k # 3
      <3>1. Pending(k, dev) = <<>>
        BY <1>3, <2>3 DEF Pending
      <3> QED
        BY <2>1, <3>1
    <2> QED
      BY <2>2, <2>3
  <1>4. CASE dev # "none" /\ k = 21
    <2>1. Pending(k, dev) = <<Ack, Id(dev)>> /\ Pending(k + 1, dev) = <<Id(dev)>>
      BY <1>4 DEF Pending
    <2>2. <<Ack, Id(dev)>> # <<>> /\ Tail(<<Ack, Id(dev)>>) = <<Id(dev)>>
      OBVIOUS
    <2> QED
      BY <2>1, <2>2
  <1>5. CASE dev # "none" /\ k # 21
    <2>1. Owed(k) = 1 /\ Owed(k + 1) = 0 /\ k + 1 # 22
      BY <1>1, <1>5 DEF Owed
    <2>2. Pending(k + 1, dev) = <<>>
      BY <1>2, <1>5, <2>1 DEF Pending
    <2>3. \E e : Pending(k, dev) = <<e>>
      BY <1>5, <2>1 DEF Pending
    <2>4. PICK e : Pending(k, dev) = <<e>>
      BY <2>3
    <2>5. Pending(k, dev) # <<>> /\ Tail(Pending(k, dev)) = <<>>
      BY <2>4
    <2> QED
      BY <2>2, <2>5
  <1> QED
    BY <1>3, <1>4, <1>5

LEMMA QuietRead ==
    ASSUME TypeInv, QuietInv, mouse_read, Quiet, ~GivesUp
    PROVE  QuietInv'
  <1>1. step \in ReadSteps \cup {3, 22}
    BY OpTable DEF TypeInv, mouse_read
  <1>2. /\ obuf' = IF obuf # <<>> THEN Tail(obuf) ELSE obuf
        /\ step' = step + 1
        /\ step = 3 => status' = ReadByte
        /\ step = 22 => has_wheel' = (ReadByte \in {3, 4})
        /\ UNCHANGED <<rates, device, config, coming>>
    <2>1. Op \in {"read", "readConfig", "readId"}
      BY DEF mouse_read
    <2>2. step = 3 => Op = "readConfig"
      BY <2>1, OpTable DEF TypeInv, ReadSteps
    <2>3. step = 22 => Op = "readId"
      BY <2>1, OpTable DEF TypeInv, ReadSteps
    <2> QED
      BY <2>2, <2>3 DEF mouse_read, devices
  <1>3. /\ obuf \o coming = Pending(step, device) /\ rates = RatesAt(step)
        /\ config = IF step <= 5 THEN Config0 ELSE MouseEnabled(Config0)
        /\ step >= 23 => has_wheel = (device = "wheel")
    BY <1>1 DEF QuietInv, ReadSteps
  <1>4. /\ obuf' \o coming' = Pending(step + 1, device)
        /\ ReadByte = IF Pending(step, device) # <<>>
                      THEN Head(Pending(step, device))[2] ELSE 0
    <2>1. CASE obuf # <<>>
      <3>1. /\ obuf \o coming # <<>> /\ Head(obuf \o coming) = Head(obuf)
            /\ Tail(obuf) \o coming = Tail(obuf \o coming)
        BY <2>1, OneSequence DEF TypeInv
      <3> QED
        BY <1>1, <1>2, <1>3, <2>1, <3>1, PendingTail DEF ReadByte
    <2>2. CASE obuf = <<>>
      <3>1. coming = <<>>
        BY <2>2 DEF GivesUp
      <3>2. obuf \o coming = <<>>
        BY <2>2, <3>1, OneSequence DEF TypeInv
      <3> QED
        BY <1>1, <1>2, <1>3, <2>2, <3>2, PendingTail DEF ReadByte
    <2> QED
      BY <2>1, <2>2
  <1>5. rates' = RatesAt(step + 1)
    <2>1. RatesAt(step + 1) = RatesAt(step)
      BY <1>1 DEF RatesAt, ReadSteps
    <2> QED
      BY <1>2, <1>3, <2>1
  <1>6. config' = IF step' <= 5 THEN Config0 ELSE MouseEnabled(Config0)
    BY <1>1, <1>2, <1>3 DEF ReadSteps
  <1>7. step' \in {4, 5} => status' = Config0
    <2> SUFFICES ASSUME step' \in {4, 5} PROVE status' = Config0
      OBVIOUS
    <2>1. step = 3
      BY <1>1, <1>2 DEF ReadSteps
    <2>2. Pending(step, device) = <<<<"controller", Config0>>>>
      BY <2>1 DEF Pending
    <2>3. ReadByte = Config0
      BY <1>4, <2>2
    <2> QED
      BY <1>2, <2>1, <2>3
  <1>8. step' >= 23 => has_wheel' = (device' = "wheel")
    <2> SUFFICES ASSUME step' >= 23 PROVE has_wheel' = (device = "wheel")
      BY <1>2
    <2>1. CASE step = 22
      <3>1. CASE device = "none"
        <4>1. Pending(step, device) = <<>>
          BY <2>1, <3>1 DEF Pending
        <4>2. ReadByte = 0
          BY <1>4, <4>1
        <4> QED
          BY <1>2, <2>1, <3>1, <4>2
      <3>2. CASE device # "none"
        <4>1. Pending(step, device) = <<Id(device)>>
          BY <2>1, <3>2 DEF Pending
        <4>2. ReadByte = IF device = "wheel" THEN 3 ELSE 0
          BY <1>4, <4>1 DEF Id
        <4> QED
          BY <1>2, <2>1, <4>2
      <3> QED
        BY <3>1, <3>2
    <2>2. CASE step # 22
      <3>1. step = 24
        BY <1>1, <1>2, <2>2 DEF ReadSteps
      <3>2. Op = "read"
        BY <1>1, <3>1, OpTable DEF mouse_read, TypeInv
      <3>3. has_wheel' = has_wheel
        BY <3>2 DEF mouse_read
      <3> QED
        BY <1>3, <3>1, <3>3
    <2> QED
      BY <2>1, <2>2
  <1> QED
    BY <1>2, <1>4, <1>5, <1>6, <1>7, <1>8 DEF QuietInv

LEMMA QuietDrain ==
    ASSUME TypeInv, LengthInv, QuietInv, DrainByte \/ DrainEnd, Quiet
    PROVE  QuietInv'
  <1>1. CASE DrainByte
    BY <1>1 DEF DrainByte, QuietInv, devices, under
  <1>2. CASE DrainEnd
    <2>1. /\ step = 0 /\ step' = 1 /\ (drained = DrainMax \/ obuf = <<>>)
          /\ UNCHANGED <<has_wheel, status, device, rates, config, obuf, coming>>
      BY <1>2 DEF DrainEnd, devices, under
    <2>2. obuf = <<>> /\ coming = <<>>
      BY <2>1, HeadTail, MouseInitAssumption DEF LengthInv, TypeInv, Quiet
    <2>3. Pending(1, device) = <<>>
      BY OwedSteps DEF Pending
    <2>4. RatesAt(1) = RatesAt(0)
      BY DEF RatesAt
    <2>5. obuf \o coming = <<>>
      BY <2>2, OneSequence DEF TypeInv
    <2> QED
      BY <2>1, <2>3, <2>4, <2>5 DEF QuietInv, Quiet
  <1> QED
    BY <1>1, <1>2

LEMMA QuietArrival ==
    ASSUME TypeInv, LengthInv, QuietInv, AnswerArrives, Quiet
    PROVE  QuietInv'
  <1>1. /\ coming # <<>> /\ coming' = Tail(coming)
        /\ obuf' = Append(obuf, Head(coming))
        /\ UNCHANGED <<step, has_wheel, status, device, rates, config>>
    BY DEF AnswerArrives, devices
  <1>2. obuf' \o coming' = obuf \o coming
    BY <1>1, OneSequence DEF TypeInv
  <1> QED
    BY <1>1, <1>2 DEF QuietInv

(* While nobody types and no answer is late, the bytes that wait are the   *)
(* answers to what was asked, so every read gets the answer it is meant    *)
(* for: a wheel mouse is recognised, no other is, and of the configuration *)
(* byte only the two mouse bits change, whatever the firmware left unread. *)
THEOREM QuietConversation == PollSpec => []QuietInitExact
  <1> DEFINE Inv == TypeInv /\ LengthInv
  <1>1. PollInit => QuietInv
    BY DEF PollInit, QuietInv, RatesAt
  <1>2. ASSUME Inv, QuietInv, [PollNext]_pollVars
        PROVE  QuietInv'
    <2>1. CASE UNCHANGED pollVars
      BY <1>2, <2>1 DEF pollVars, devices, under, QuietInv, Quiet
    <2>2. typed \in Nat /\ missed \in Nat
      BY <1>2 DEF TypeInv
    <2>3. CASE \E b \in KeyBytes : KeyTyped(b)
      <3>1. typed' = typed + 1
        BY <2>3 DEF KeyTyped
      <3>2. typed' # 0
        BY <2>2, <3>1
      <3> QED
        BY <3>2 DEF QuietInv, Quiet
    <2>4. CASE mouse_read /\ GivesUp
      <3>1. missed' = missed + 1
        BY <2>4 DEF mouse_read
      <3>2. missed' # 0
        BY <2>2, <3>1
      <3> QED
        BY <3>2 DEF QuietInv, Quiet
    <2>5. CASE (InitStep /\ ~(mouse_read /\ GivesUp)) \/ AnswerArrives
      <3>1. typed' = typed /\ missed' = missed
        BY <2>5 DEF InitStep, DrainByte, DrainEnd, mouse_write, under,
                    ControllerCommand, WriteConfig, mouse_read, AnswerArrives
      <3>2. CASE ~Quiet
        BY <3>1, <3>2 DEF QuietInv, Quiet
      <3>3. CASE Quiet
        BY <1>2, <2>5, <3>3, QuietWrite, QuietCommand, QuietConfig, QuietRead,
           QuietDrain, QuietArrival DEF InitStep
      <3> QED
        BY <3>2, <3>3
    <2> QED
      BY <1>2, <2>1, <2>3, <2>4, <2>5 DEF PollNext, Finished
  <1>3. QuietInv => QuietInitExact
    <2>1. Done => step = 25
      BY ScriptTable DEF Done, Last
    <2> QED
      BY <2>1 DEF QuietInv, QuietInitExact, Quiet
  <1>4. PollSpec => []Inv
    BY BytesInvariant
  <1> HIDE DEF Inv
  <1> QED
    BY <1>1, <1>2, <1>3, <1>4, PTL DEF PollSpec
=============================================================================
