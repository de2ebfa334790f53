------------------------------ MODULE KeyQueue ------------------------------
(***************************************************************************)
(* What the input path of dismasmOS promises its readers (the shell, the   *)
(* em editor and the wdid pager): a bounded first-in first-out queue of    *)
(* key codes.  The interrupt handlers offer codes, kbd_getchar takes them. *)
(* A code offered to a full queue is dropped; no code is ever duplicated,  *)
(* reordered, corrupted or invented.                                       *)
(***************************************************************************)
EXTENDS Integers, Sequences

CONSTANTS Capacity,   \* how many codes may wait
          Codes       \* the key codes

VARIABLES queue,   \* codes offered and not yet taken, oldest first
          got      \* the code the last Get returned

vars == <<queue, got>>

Init == queue = <<>> /\ got = 0

Offer(k) ==
    /\ Len(queue) < Capacity
    /\ queue' = Append(queue, k)
    /\ UNCHANGED got

Get ==
    /\ queue # <<>>
    /\ got' = Head(queue)
    /\ queue' = Tail(queue)

Next == Get \/ \E k \in Codes : Offer(k)

Spec == Init /\ [][Next]_vars
=============================================================================
