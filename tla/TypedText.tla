----------------------------- MODULE TypedText ------------------------------
(***************************************************************************)
(* Everything the shell reads from a typed text, one kind in each          *)
(* behaviour: a walk through the tree by relative and absolute paths; a    *)
(* line, an expression for calc or bytes for asm, typed character by       *)
(* character; and the pages of the manual, turned one line at a time.      *)
(***************************************************************************)
EXTENDS FsPath, CmdLine, Wdid

CONSTANTS Modes,       \* the kinds explored
          Args,        \* the paths typed
          Alphabet,    \* the characters of a line, of bytes, of an expression
          MAX_TYPED    \* the characters typed in each (bound)

ASSUME TypedTextAssumption ==
    /\ Args \subseteq [abs : BOOLEAN, comps : Seq(Component)]
    /\ DOMAIN Alphabet = {"line", "asm", "calc"}
    /\ \A kind \in DOMAIN Alphabet : Alphabet[kind] \subseteq STRING

VARIABLES mode, cwd, arg, out, typed, page, top

vars == <<mode, cwd, arg, out, typed, page, top>>

Init ==
    /\ mode \in Modes
    /\ cwd = Root /\ arg = [abs |-> TRUE, comps |-> <<Dot>>] /\ out = Root
    /\ typed = <<>>
    /\ page \in IF mode = "page" THEN DOMAIN wdid_entries ELSE {1}
    /\ top = 0

(* A command resolves a path; a cd makes it the working directory.         *)
Resolve ==
    /\ mode = "path"
    /\ \E a \in Args :
        /\ arg' = a
        /\ out' = fs_resolve_path(cwd, a)
    /\ UNCHANGED <<mode, cwd, typed, page, top>>

Cd ==
    /\ mode = "path"
    /\ cwd' = out
    /\ UNCHANGED <<mode, arg, out, typed, page, top>>

Type ==
    /\ mode \in DOMAIN Alphabet
    /\ Len(typed) < MAX_TYPED[mode]
    /\ \E ch \in Alphabet[mode] : typed' = Append(typed, ch)
    /\ UNCHANGED <<mode, cwd, arg, out, page, top>>

Enter ==
    /\ mode \in DOMAIN Alphabet
    /\ typed' = <<>>
    /\ UNCHANGED <<mode, cwd, arg, out, page, top>>

(* One line down, or Home.                                                 *)
TurnPage ==
    /\ mode = "page"
    /\ top' \in {0, Least(top + 1, MaxTop(wdid_entries[page].line_count))}
    /\ UNCHANGED <<mode, cwd, arg, out, typed, page>>

Next == Resolve \/ Cd \/ Type \/ Enter \/ TurnPage

Spec == Init /\ [][Next]_vars

-----------------------------------------------------------------------------
(* What fs_resolve_path yields is canonical: it fits its buffer with the   *)
(* terminating zero, holds no dots and resolves to itself.                 *)
Canonical ==
    /\ IsCanonical(out)
    /\ fs_resolve_path(cwd, [abs |-> TRUE, comps |-> out]) = out

(* Where no buffer is too small the resolved path is the reference's: "."  *)
(* and ".." are resolved and the root is never left.                       *)
MatchesReference ==
    [][\A a \in {arg'} :
         mode = "path" /\ WithinLimits(Full(cwd, a)) /\ cwd' = cwd
           => out' = Reference(Full(cwd, a))]_vars

-----------------------------------------------------------------------------
Inked(s) == {k \in DOMAIN s : s[k] \notin Blanks}

(* The && of a line from left to right: of a run of &, every second one    *)
(* is the second half of a pair.                                           *)
RunBefore(s, k) == k - 1 - Max({0} \cup {j \in 1..(k - 1) : s[j] # "&"})
Separators(s) ==
    {k \in 1..(Len(s) - 1) : /\ s[k] = "&" /\ s[k + 1] = "&"
                             /\ RunBefore(s, k) % 2 = 0}

(* Where its pieces begin, and the places of one that are not blank.       *)
Beginnings(s) == {1} \cup {k + 2 : k \in Separators(s)}
PieceInk(s, p) ==
    {k \in Inked(s) : k >= p /\ \A q \in Separators(s) : q >= p => k < q}

(* at lists the places of the set in their order.                          *)
Lists(at, places) ==
    /\ \A m, n \in DOMAIN at : m < n => at[m] < at[n]
    /\ \A p \in places : \E n \in DOMAIN at : at[n] = p

(* The commands of a line are its pieces, in order, without the blanks     *)
(* around them and without the blank ones.                                 *)
CommandsAsTyped(s) ==
    LET commands == handle_line(s)
        pieces == {p \in Beginnings(s) : PieceInk(s, p) # {}}
    IN  \E at \in [DOMAIN commands -> pieces] :
          /\ Lists(at, pieces)
          /\ \A n \in DOMAIN commands :
               commands[n] = SubSeq(s, Min(PieceInk(s, at[n])),
                                       Max(PieceInk(s, at[n])))

(* The words of a text are its runs of characters that are not blank; the  *)
(* last one there is room for goes on to the end.                          *)
WordsAre(argv, s) ==
    LET begins == {k \in Inked(s) : k - 1 \notin Inked(s)}
        taken(at) == {p \in begins : Len(argv) = MAX_ARGS => p <= at[MAX_ARGS]}
        end(at, n) == at[n] + Len(argv[n]) - 1
    IN  /\ Len(argv) <= MAX_ARGS
        /\ \E at \in [DOMAIN argv -> begins] :
             /\ Lists(at, taken(at))
             /\ \A n \in DOMAIN argv :
                  /\ argv[n] = SubSeq(s, at[n], end(at, n))
                  /\ IF n = MAX_ARGS THEN end(at, n) = Len(s)
                     ELSE /\ at[n]..end(at, n) \subseteq Inked(s)
                          /\ end(at, n) + 1 \notin Inked(s)

(* The text from the first to the last of its places that are given.       *)
Spanned(s, places) ==
    IF places = {} THEN <<>> ELSE SubSeq(s, Min(places), Max(places))

(* The first > of a command cuts it in two.  With nothing behind it the    *)
(* command is an error.  An echo in front of it writes what it is given to *)
(* the file named behind; of any other command the words in front are run, *)
(* and what is behind is lost.  Without a > all its words are run.         *)
RunAsTyped(c) ==
    LET run == handle_single_command(c)
        cuts == {k \in DOMAIN c : c[k] = ">"}
        cut == Min(cuts \cup {Len(c) + 1})
        front == {k \in Inked(c) : k < cut}
        behind == {k \in Inked(c) : k > cut}
        first == Min(front \cup {cut})
        echoes == /\ cuts # {} /\ front # {}
                  /\ c[first] = "echo" /\ first + 1 \notin front
        echoed == front \ {first}
    IN  IF cuts # {} /\ behind = {} THEN run = [kind |-> "syntax error"]
        ELSE IF echoes
             THEN /\ run.kind = "redirect"
                  /\ run.target = Spanned(c, behind)
                  /\ echoed = {} \/ c[Min(echoed)] \notin Quotes
                       => run.text = Spanned(c, echoed)
        ELSE /\ run.kind = "run"
             /\ WordsAre(run.argv, IF cuts = {} THEN c ELSE Spanned(c, front))

(* Whatever text stands between quotation marks is written to the file as  *)
(* it is, quotation marks and blanks in it included, unless an && or a >   *)
(* in it cuts the line.                                                    *)
EchoAsTyped(text) ==
    LET s == <<"echo", " ", "'">> \o text \o <<"'", " ", ">", " ", "f">>
    IN  Separators(s) = {} /\ (\A k \in DOMAIN text : text[k] # ">") =>
          /\ handle_line(s) = <<s>>
          /\ handle_single_command(s)
               = [kind |-> "redirect", target |-> <<"f">>, text |-> text]

(* How many pairs of characters the first n arguments of asm are.          *)
PairsTyped(args, n) ==
    LET count[k \in 0..Len(args)] ==
          IF k = 0 THEN 0 ELSE count[k - 1] + Len(Pairs(args[k]))
    IN  count[n]

(* What a character and the one behind it, if there is one, come to when   *)
(* they are read as a decimal number that ends at the first character that *)
(* is no digit: c3 is 0, 90 is ninety.                                     *)
DecimalPair(tok, k) ==
    LET tens == DigitValue(tok[k])
    IN  IF ~IsDigit(tok[k]) THEN 0
        ELSE IF ~IsDigit(At(tok, k + 1)) THEN tens
        ELSE (10 * tens + DigitValue(tok[k + 1])) % 2^CALC_BITS

(* The characters typed behind asm are called pair by pair, in their       *)
(* order, as many as there is room for, with a return instruction behind   *)
(* the last one, all inside asm_payload.  Each pair is the byte it denotes *)
(* in decimal (parse_num), not in hexadecimal as the manual has it.        *)
AsmAsTyped(args) ==
    LET payload == asm_payload(args)
        all == PairsTyped(args, Len(args))
        prefix(n) == IF HexPrefix(args[n], 1) THEN 2 ELSE 0
    IN  /\ Len(payload) <= ASM_SIZE
        /\ all > 0 => Last(payload) = RET
        /\ Len(payload) \in {Least(all, ASM_SIZE - 2), Least(all, ASM_SIZE - 2) + 1}
        /\ \A n \in DOMAIN args : \A j \in 1..Len(Pairs(args[n])) :
             LET place == PairsTyped(args, n - 1) + j
             IN  place <= ASM_SIZE - 2
                   => payload[place] = DecimalPair(args[n], prefix(n) + 2 * j - 1)

(* What is typed is what is run: the commands of a line, the words of a    *)
(* command, the text and the file of an echo, the bytes of asm as decimal  *)
(* pairs.                                                                  *)
LineAsTyped ==
    /\ mode = "line" =>
         /\ CommandsAsTyped(typed)
         /\ RunAsTyped(typed)
         /\ \A n \in DOMAIN handle_line(typed) : RunAsTyped(handle_line(typed)[n])
         /\ EchoAsTyped(typed)
    /\ mode = "asm" => AsmAsTyped(tokenize(typed))

-----------------------------------------------------------------------------
(* Every page is opened by a line that can be typed, its name or its alias *)
(* behind wdid, though && cuts a line in two; and at every place in it the *)
(* status line fits status[80] with its terminating zero.                  *)
Opens(name) ==
    LET commands == handle_line(<<"wdid", " ">> \o name)
        argv == tokenize(commands[1])
    IN  IF Len(argv) > 1 THEN wdid_find(argv[2]) ELSE 1
PageServed ==
    mode = "page" =>
      LET entry == wdid_entries[page]
      IN  /\ \E name \in {entry.name, entry.alias} : Opens(name) = page
          /\ StatusLength(entry.name_len, entry.line_count, top) < 80
=============================================================================
