----------------------------- MODULE TextBuffer -----------------------------
(***************************************************************************)
(* What an editor promises of its text: the text left of the cursor and    *)
(* the text right of it, key by key.  Opening shows the text of the file;  *)
(* typing adds the character at the end of the left part, deleting takes   *)
(* the character next to the cursor, moving takes neither away.  While     *)
(* a command is typed the text stays as it is; Enter, which runs the       *)
(* command, may move the cursor.                                           *)
(***************************************************************************)
EXTENDS Naturals, Sequences, SequencesExt

CONSTANTS Chars,      \* the characters
          Blanks,     \* what Tab inserts
          Enter,      \* the key that runs a command
          Capacity    \* the longest text

VARIABLES place,      \* "closed", "edit" or "command"
          key,        \* the key read last
          left, right,
          stored      \* the text of the file that is edited

Init == place = "closed" /\ left = <<>> /\ right = <<>>

(* As much of s as there is room for.                                      *)
Fitting(s, room) == IF Len(s) <= room THEN s ELSE SubSeq(s, 1, room)

Open ==
    /\ place = "closed"
    /\ place' = "edit"
    /\ left' = <<>>
    /\ right' = Fitting(stored', Capacity)
    /\ UNCHANGED key

Insert(s) ==
    /\ left' = left \o Fitting(s, Capacity - (Len(left) + Len(right)))
    /\ UNCHANGED right

Type == key' \in Chars /\ Insert(<<key'>>)

Tab == key' = "tab" /\ Insert(Blanks)

Backspace ==
    /\ key' = "backspace"
    /\ left' = IF left = <<>> THEN <<>> ELSE Front(left)
    /\ UNCHANGED right

Delete ==
    /\ key' = "delete"
    /\ right' = IF right = <<>> THEN <<>> ELSE Tail(right)
    /\ UNCHANGED left

Move ==
    /\ key' \in {"up", "down", "left", "right", "home", "end"}
    /\ left' \o right' = left \o right

Edit ==
    /\ place = "edit"
    /\ UNCHANGED place
    /\ Type \/ Tab \/ Backspace \/ Delete \/ Move

StartCommand ==
    /\ place = "edit"
    /\ place' = "command"
    /\ key' = "alt"
    /\ UNCHANGED <<left, right>>

Command ==
    /\ place = "command"
    /\ left' \o right' = left \o right
    /\ key' # Enter => UNCHANGED <<left, right>>

Next == Open \/ Edit \/ StartCommand \/ Command

Spec == Init /\ [][Next]_<<place, key, left, right>>
=============================================================================
