-------------------------------- MODULE Wdid --------------------------------
(***************************************************************************)
(* The manual reader, src/src/shell/wdid.c, and its table of pages:        *)
(* finding a page by its name, and the pager's arithmetic.                 *)
(*                                                                         *)
(* A page is its name and alias as they are typed (a word counts as one    *)
(* character, an alias is empty where the code has NULL), the length of    *)
(* its name and the number of its lines.  What the pages say, their        *)
(* colours and the wording of the status line are left out; the length of  *)
(* the status line is kept, because it has to fit status[].                *)
(***************************************************************************)
EXTENDS Integers, Sequences, SequencesExt

CONSTANTS PAGER_TEXT_ROWS,   \* 24 in the program
          WHEEL_LINES,       \* 3
          PAGE_LINES         \* 20

ASSUME WdidAssumption ==
    /\ PAGER_TEXT_ROWS \in Nat \ {0}
    /\ WHEEL_LINES \in Nat \ {0}
    /\ PAGE_LINES \in Nat \ {0}

Page(name, alias, name_len, line_count) ==
    [name |-> name, alias |-> alias, name_len |-> name_len,
     line_count |-> line_count]

wdid_entries == <<
    Page(<<"wdid">>, <<"man">>, 4, 101),
    Page(<<"help">>, <<>>, 4, 34),
    Page(<<"clear">>, <<"cls">>, 5, 31),
    Page(<<"colr">>, <<"color">>, 4, 48),
    Page(<<"lang">>, <<"keyboard">>, 4, 43),
    Page(<<"uname">>, <<>>, 5, 25),
    Page(<<"MemRep">>, <<"memrep">>, 6, 35),
    Page(<<"shutdown">>, <<"poweroff">>, 8, 30),
    Page(<<"reboot">>, <<"restart">>, 6, 23),
    Page(<<"heap">>, <<"malloc">>, 4, 53),
    Page(<<"calc">>, <<"math">>, 4, 44),
    Page(<<"dump">>, <<"hexdump">>, 4, 38),
    Page(<<"reg">>, <<"registers">>, 3, 39),
    Page(<<"asm">>, <<"bytecode">>, 3, 51),
    Page(<<"pr">>, <<"ps">>, 2, 45),
    Page(<<"lsf">>, <<"ls">>, 3, 36),
    Page(<<"cd">>, <<>>, 2, 39),
    Page(<<"makedir">>, <<"mkdir">>, 7, 29),
    Page(<<"changes">>, <<"audit">>, 7, 26),
    Page(<<"em">>, <<"edit">>, 2, 49),
    Page(<<"cat">>, <<>>, 3, 30),
    Page(<<"echo">>, <<>>, 4, 31),
    Page(<<"touch">>, <<>>, 5, 27),
    Page(<<"rm">>, <<"del">>, 2, 30),
    Page(<<"grep">>, <<"find">>, 4, 30),
    Page(<<"&", "&">>, <<"chain">>, 2, 26) >>

(* Mutant: the alias is not looked at.                                     *)
FindByNameOnly(name) ==
    IF name = <<>> THEN 0
    ELSE SelectInSeq(wdid_entries, LAMBDA e : e.name = name)

(* The first page of that name or alias, or 0.                             *)
wdid_find(name) ==
    IF name = <<>> THEN 0
    ELSE SelectInSeq(wdid_entries, LAMBDA e : e.name = name \/ e.alias = name)

Least(a, b) == IF a < b THEN a ELSE b

Below(top, n) == IF top >= n THEN top - n ELSE 0

MaxTop(count) == Below(count, PAGER_TEXT_ROWS)

(* The numbers the status line shows: the first and the last line on the   *)
(* screen, and how much of the page is above the lower edge.               *)
render_status_bar(count, top) ==
    LET bottom == Least(top + PAGER_TEXT_ROWS, count)
    IN  [first |-> top + 1, last |-> bottom,
         percent |-> IF count > 0 THEN (bottom * 100) \div count ELSE 0]

(* Of a number with at most four digits, as all of them are.               *)
NumberLength(n) ==
    IF n < 10 THEN 1 ELSE IF n < 100 THEN 2 ELSE IF n < 1000 THEN 3 ELSE 4

(* The characters of " [WDID] name(1) | Line first-last/count (percent%)   *)
(* | Wheel/PgUp/PgDn/Arrows | 'q' Exit".                                   *)
StatusLength(name_len, count, top) ==
    LET bar == render_status_bar(count, top)
    IN  61 + name_len + NumberLength(bar.first) + NumberLength(bar.last)
          + NumberLength(count) + NumberLength(bar.percent)

(* What a row of the screen shows: its line, cut or filled up to the       *)
(* width, and '~' behind the end.                                          *)
Row(lines, k, width, blank) ==
    [c \in 0..(width - 1) |->
       IF k > Len(lines) THEN IF c = 0 THEN "~" ELSE blank
       ELSE IF c < Len(lines[k]) THEN lines[k][c + 1] ELSE blank]

(* render_page; the row of the status line is left blank here.             *)
render_page(lines, top, width, blank) ==
    [r \in 0..PAGER_TEXT_ROWS |->
       IF r < PAGER_TEXT_ROWS THEN Row(lines, top + r + 1, width, blank)
                              ELSE [c \in 0..(width - 1) |-> blank]]
=============================================================================
