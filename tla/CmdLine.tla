------------------------------ MODULE CmdLine -------------------------------
(***************************************************************************)
(* What the shell makes of a typed line (src/src/shell/shell.c): the       *)
(* commands between the &&, the redirection of an echo, the arguments, and *)
(* the machine code behind asm.                                            *)
(*                                                                         *)
(* A line is a sequence of characters; the name of a command counts as one *)
(* character, since no property looks inside it.                           *)
(***************************************************************************)
EXTENDS Calc

CONSTANTS MAX_ARGS,    \* 16 in the program
          ASM_SIZE     \* 256: sizeof(asm_payload)

ASSUME CmdLineAssumption ==
    /\ MAX_ARGS \in Nat /\ MAX_ARGS >= 2
    /\ ASM_SIZE \in Nat /\ ASM_SIZE > 2

Quotes == {"'", "dquote"}

(* The line without the blanks at both ends.                               *)
Trim(s) ==
    LET first == calc_skip(s, 1)
        lasts == {k \in 1..Len(s) : s[k] \notin Blanks}
    IN  SubSeq(s, first, CHOOSE k \in lasts \cup {0} : \A j \in lasts : j <= k)

(* strstr(p, "&&"): the first place from p on, or 0.                       *)
AndFrom(s, p) ==
    LET places == {k \in p..(Len(s) - 1) : s[k] = "&" /\ s[k + 1] = "&"}
    IN  IF places = {} THEN 0
                       ELSE CHOOSE k \in places : \A j \in places : k <= j

(* Mutant: one character of the separator is left in front of the rest.    *)
SplitShort(line) ==
    LET split[p \in 1..(Len(line) + 1)] ==
          IF p > Len(line) THEN <<>>
          ELSE LET sep == AndFrom(line, p)
                   sub == Trim(SubSeq(line, p, IF sep = 0 THEN Len(line)
                                                          ELSE sep - 1))
                   rest == IF sep = 0 THEN <<>> ELSE split[sep + 1]
               IN  IF sub = <<>> THEN rest ELSE <<sub>> \o rest
    IN  split[1]

(* handle_line: the commands it will run, in order, if none of them fails. *)
handle_line(line) ==
    LET split[p \in 1..(Len(line) + 1)] ==
          IF p > Len(line) THEN <<>>
          ELSE LET sep == AndFrom(line, p)
                   sub == Trim(SubSeq(line, p, IF sep = 0 THEN Len(line)
                                                          ELSE sep - 1))
                   rest == IF sep = 0 THEN <<>> ELSE split[sep + 2]
               IN  IF sub = <<>> THEN rest ELSE <<sub>> \o rest
    IN  split[1]

(* tokenize writes zeros over the blanks in front of an argument, so the   *)
(* last argument there is room for goes on to the end of the line.         *)
TakeCharacter(acc, ch) ==
    IF Len(acc.argv) = MAX_ARGS \/ (acc.inside /\ ch \notin Blanks)
         THEN [acc EXCEPT !.argv = ReplaceAt(@, Len(@), Append(Last(@), ch))]
    ELSE IF ch \in Blanks THEN [acc EXCEPT !.inside = FALSE]
    ELSE [argv |-> Append(acc.argv, <<ch>>), inside |-> TRUE]
tokenize(cmd) ==
    LET scan[n \in 0..Len(cmd)] ==
          IF n = 0 THEN [argv |-> <<>>, inside |-> FALSE]
                   ELSE TakeCharacter(scan[n - 1], cmd[n])
    IN  scan[Len(cmd)].argv

(* A quotation mark in front is dropped, and the same one at the end.      *)
Unquote(text) ==
    IF text = <<>> \/ text[1] \notin Quotes THEN text
    ELSE LET rest == Tail(text)
         IN  IF rest # <<>> /\ Last(rest) = text[1] THEN Front(rest) ELSE rest

(* Mutant: the last '>' is taken.                                          *)
RedirLast(cmd) == SelectLastInSeq(cmd, LAMBDA ch : ch = ">")

(* strchr(cmd, '>'): the first place, or 0.                                *)
Redir(cmd) == SelectInSeq(cmd, LAMBDA ch : ch = ">")

(* handle_single_command.  The '>' cuts the command in two; only echo      *)
(* looks at what is behind it.                                             *)
handle_single_command(cmd) ==
    LET redir == Redir(cmd)
        left == Trim(SubSeq(cmd, 1, redir - 1))
        target == Trim(SubSeq(cmd, redir + 1, Len(cmd)))
    IN  IF redir = 0 THEN [kind |-> "run", argv |-> tokenize(cmd)]
        ELSE IF target = <<>> THEN [kind |-> "syntax error"]
        ELSE IF left # <<>> /\ left[1] = "echo" /\ (Len(left) = 1 \/ left[2] \in Blanks)
             THEN [kind |-> "redirect", target |-> target,
                   text |-> Unquote(Trim(Tail(left)))]
        ELSE [kind |-> "run", argv |-> tokenize(left)]

-----------------------------------------------------------------------------
(* cmd_asm with bytes: every argument gives pairs of characters, each read *)
(* by parse_num, while there is room for two more bytes.                   *)
Pairs(tok) ==
    LET digits == IF HexPrefix(tok, 1) THEN SubSeq(tok, 3, Len(tok)) ELSE tok
    IN  [k \in 1..((Len(digits) + 1) \div 2) |->
            SubSeq(digits, 2 * k - 1, IF 2 * k <= Len(digits) THEN 2 * k
                                                              ELSE 2 * k - 1)]

TypedBytes(args) ==
    LET bytes[n \in 0..Len(args)] ==
          IF n = 0 THEN <<>> ELSE bytes[n - 1] \o Pairs(args[n])
    IN  bytes[Len(args)]

RET == \hC3

(* As many of them as there is room for, and a return instruction behind.  *)
Payload(bytes, room) ==
    LET code == [k \in 1..(IF Len(bytes) > room THEN room ELSE Len(bytes))
                   |-> parse_num(bytes[k]) % 256]
    IN  IF code # <<>> /\ Last(code) # RET THEN Append(code, RET) ELSE code

(* Mutant: the room for the return instruction is not kept free.           *)
AsmPayloadFull(args) == Payload(TypedBytes(args), ASM_SIZE)

asm_payload(args) == Payload(TypedBytes(args), ASM_SIZE - 2)
=============================================================================
