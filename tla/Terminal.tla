------------------------------ MODULE Terminal ------------------------------
(***************************************************************************)
(* The line the shell reads (shell_run of src/src/shell/shell.c): the      *)
(* command buffer, the ring of the last commands and what the console      *)
(* shows of them.  One action per key.                                     *)
(*                                                                         *)
(* What a command prints is any of Outputs, or the screen is cleared first *)
(* (clear and em do that), or it opens a page of the manual: run_pager of  *)
(* src/src/shell/wdid.c then takes the keys and draws over the cells until *)
(* it is left.  pager is the page that is open, its top line and the       *)
(* numbers drawn into the status row; NoPage otherwise.                    *)
(*                                                                         *)
(* history is a ghost: every command that hist_add stored, oldest first.   *)
(***************************************************************************)
EXTENDS Vga, Wdid

CONSTANTS HIST_MAX,       \* 32 in the program
          CMD_MAX_LEN,    \* 128
          Letters,        \* the characters typed
          Prompt,         \* what print_prompt prints
          Outputs,        \* what commands print
          Docs,           \* the pages: sequences of lines of characters
          MaxHistory      \* the most commands stored (bound)

ASSUME TerminalAssumption == HIST_MAX \in Nat \ {0}

(* What is printed are strings; the letters typed and those of the prompt  *)
(* move no cursor, and what a command prints ends its last row.  No page   *)
(* is empty, and its lines are strings.                                    *)
ASSUME TextAssumption ==
    /\ Prompt \in Seq(STRING) /\ Outputs \subseteq Seq(STRING)
    /\ Letters \cap Controls = {}
    /\ \A k \in 1..Len(Prompt) : Prompt[k] \notin Controls
    /\ \A out \in Outputs : out = <<>> \/ out[Len(out)] = Newline
    /\ \A doc \in Docs : /\ Len(doc) \in Nat \ {0}
                         /\ \A n \in 1..Len(doc) : Len(doc[n]) \in Nat

(* The prompt and the longest line fit on the screen.                      *)
ASSUME LengthAssumption ==
    /\ CMD_MAX_LEN \in Nat \ {0}
    /\ Len(Prompt) + CMD_MAX_LEN <= VGA_WIDTH * VGA_HEIGHT

VARIABLES cmd_buf, hist_entries, hist_total, hist_index,
          vga, pager, history

line == <<cmd_buf, hist_entries, hist_total, hist_index, history>>
vars == <<line, vga, pager>>

NoPage == [open |-> FALSE]
Paging == pager.open

(* The page is drawn from its top line on, over whatever the screen shows. *)
Draw(v, doc, top) ==
    /\ vga' = Console(v.row, v.col, render_page(doc, top, VGA_WIDTH, Blank))
    /\ pager' = [open |-> TRUE, doc |-> doc, top |-> top,
                 bar |-> render_status_bar(Len(doc), top)]

Init ==
    /\ cmd_buf = <<>>
    /\ hist_entries = [i \in 0..(HIST_MAX - 1) |-> <<>>]
    /\ hist_total = 0
    /\ hist_index = -1
    /\ vga = vga_puts(vga_clear, Prompt)
    /\ pager = NoPage
    /\ history = <<>>

(* An empty line and a repetition of the last command are not stored.      *)
Stores(cmd) ==
    /\ cmd # <<>>
    /\ hist_total > 0 => hist_entries[(hist_total - 1) % HIST_MAX] # cmd

hist_add(cmd) ==
    IF Stores(cmd)
    THEN /\ hist_entries' = [hist_entries EXCEPT ![hist_total % HIST_MAX] = cmd]
         /\ hist_total' = hist_total + 1
         /\ history' = Append(history, cmd)
    ELSE UNCHANGED <<hist_entries, hist_total, history>>

(* The line, or what is left of it behind a page, runs over the screen v:  *)
(* it prints, or clears the screen and prints, and then the prompt returns *)
(* or the next page is opened.                                             *)
Runs(v) ==
    \E clear \in BOOLEAN, out \in Outputs :
        LET w == vga_puts(IF clear THEN vga_clear ELSE v, out)
        IN  \/ vga' = vga_puts(w, Prompt) /\ pager' = NoPage
            \/ \E doc \in Docs : Draw(w, doc, 0)

(* Enter: the line is stored and run.                                      *)
KeyEnter ==
    /\ ~Paging
    /\ Stores(cmd_buf) => hist_total < MaxHistory
    /\ hist_add(cmd_buf)
    /\ hist_index' = -1
    /\ cmd_buf' = <<>>
    /\ Runs(vga_putchar(vga, Newline))

KeyBackspace ==
    /\ ~Paging
    /\ IF cmd_buf # <<>>
       THEN cmd_buf' = Front(cmd_buf) /\ vga' = vga_backspace(vga)
       ELSE UNCHANGED <<cmd_buf, vga>>
    /\ UNCHANGED <<hist_entries, hist_total, hist_index, pager, history>>

(* The line on the screen is rubbed out and a stored command takes its     *)
(* place.                                                                  *)
Recall(index) ==
    LET entry == hist_entries[index % HIST_MAX]
    IN  /\ hist_index' = index
        /\ cmd_buf' = entry
        /\ vga' = vga_puts(Backspaces(vga, Len(cmd_buf)), entry)

Window == IF hist_total > HIST_MAX THEN HIST_MAX ELSE hist_total

(* Mutant: Up goes on to an entry that has been overwritten.               *)
KeyUpPastEnd ==
    /\ ~Paging
    /\ hist_total > 0
    /\ Recall(IF hist_index = -1 THEN hist_total - 1
              ELSE IF hist_index > 0 THEN hist_index - 1
              ELSE hist_index)
    /\ UNCHANGED <<hist_entries, hist_total, pager, history>>

KeyUp ==
    /\ ~Paging
    /\ hist_total > 0
    /\ Recall(IF hist_index = -1 THEN hist_total - 1
              ELSE IF hist_index > hist_total - Window THEN hist_index - 1
              ELSE hist_index)
    /\ UNCHANGED <<hist_entries, hist_total, pager, history>>

(* Mutant: the line is emptied and stays on the screen.                    *)
KeyDownNoErase ==
    /\ ~Paging
    /\ hist_index # -1
    /\ IF hist_index < hist_total - 1
       THEN Recall(hist_index + 1)
       ELSE /\ hist_index' = -1
            /\ cmd_buf' = <<>>
            /\ UNCHANGED vga
    /\ UNCHANGED <<hist_entries, hist_total, pager, history>>

KeyDown ==
    /\ ~Paging
    /\ hist_index # -1
    /\ IF hist_index < hist_total - 1
       THEN Recall(hist_index + 1)
       ELSE /\ hist_index' = -1
            /\ cmd_buf' = <<>>
            /\ vga' = Backspaces(vga, Len(cmd_buf))
    /\ UNCHANGED <<hist_entries, hist_total, pager, history>>

KeyLetter ==
    /\ ~Paging
    /\ Len(cmd_buf) < CMD_MAX_LEN - 1
    /\ \E ch \in Letters :
         /\ cmd_buf' = Append(cmd_buf, ch)
         /\ vga' = vga_putchar(vga, ch)
    /\ UNCHANGED <<hist_entries, hist_total, hist_index, pager, history>>

-----------------------------------------------------------------------------
(* run_pager: wheel, line, page, Home and End keys.                        *)
Turn(top) == Paging /\ Draw(vga, pager.doc, top) /\ UNCHANGED line

(* Mutant: the step down is not stopped at the last page.                  *)
ForwardUnbounded(n) == Least(pager.top + n, Len(pager.doc))

Forward(n) == Least(pager.top + n, MaxTop(Len(pager.doc)))

PagerWheel == \/ Turn(Below(pager.top, WHEEL_LINES))
              \/ Turn(Forward(WHEEL_LINES))

PagerLine == \/ Paging /\ pager.top > 0 /\ Turn(pager.top - 1)
             \/ Paging /\ pager.top < MaxTop(Len(pager.doc)) /\ Turn(pager.top + 1)

PagerPage == \/ Turn(Below(pager.top, PAGE_LINES))
             \/ Turn(Forward(PAGE_LINES))

PagerHomeEnd == Turn(0) \/ Turn(MaxTop(Len(pager.doc)))

(* The screen is cleared and the rest of the line runs.                    *)
PagerQuit ==
    /\ Paging
    /\ Runs(vga_clear)
    /\ UNCHANGED line

Next ==
    \/ KeyEnter \/ KeyBackspace \/ KeyUp \/ KeyDown \/ KeyLetter
    \/ PagerWheel \/ PagerLine \/ PagerPage \/ PagerHomeEnd \/ PagerQuit

Spec == Init /\ [][Next]_vars

-----------------------------------------------------------------------------
(* What Up and Down bring back is the command they are counted at: the     *)
(* newest first, one older with every Up, never one that has been          *)
(* overwritten.                                                            *)
RecallsTheRightOne ==
    [][hist_index' # -1 /\ hist_index' # hist_index
         => /\ cmd_buf' = history[hist_index' + 1]
            /\ IF hist_index = -1 THEN hist_index' = hist_total - 1
               ELSE hist_index' \in {hist_index - 1, hist_index + 1}]_vars

(* The screen shows the line that Enter will run: the cursor is on the     *)
(* screen, where vga_putchar stores without a test, the cells before it    *)
(* read the prompt and the buffer, and nothing is left behind it of an     *)
(* earlier line or of a page.                                              *)
CursorOnScreen == vga.row \in Rows /\ vga.col \in Cols
Position == vga.row * VGA_WIDTH + vga.col
Cell(n) == vga.cells[n \div VGA_WIDTH][n % VGA_WIDTH]
ScreenShowsLine ==
    LET shown == Prompt \o cmd_buf
    IN  ~Paging =>
        /\ CursorOnScreen
        /\ Position >= Len(shown)
        /\ \A k \in 1..Len(shown) : Cell(Position - Len(shown) + k - 1) = shown[k]
        /\ \A n \in Position..(VGA_WIDTH * VGA_HEIGHT - 1) : Cell(n) = Blank

(* What the pager shows is the page: the status row counts the lines that  *)
(* are on the screen, in their rows and cut to the width; there is nothing *)
(* between or behind them, a line never starts above the first one, and    *)
(* rows are left over only when the whole page is shown.                   *)
OnRow(r, text) ==
    \A c \in Cols : vga.cells[r][c] = IF c < Len(text) THEN text[c + 1] ELSE Blank
PageOnScreen ==
    Paging =>
      LET doc == pager.doc
          bar == pager.bar
      IN  /\ 1 <= bar.first /\ bar.first <= bar.last /\ bar.last <= Len(doc)
          /\ \A n \in bar.first..bar.last : OnRow(n - bar.first, doc[n])
          /\ \A r \in Rows : r \in (bar.last - bar.first + 1)..(PAGER_TEXT_ROWS - 1)
               => bar.first = 1 /\ bar.last = Len(doc) /\ OnRow(r, <<"~">>)
          /\ bar.percent = 100 <=> bar.last = Len(doc)

(* What the README says of Up and Down: the display is updated to match    *)
(* the line that was recalled.                                             *)
RecallShowsLine ==
    [][ScreenShowsLine /\ hist_index' # hist_index /\ cmd_buf' # <<>>
         => ScreenShowsLine']_vars
=============================================================================
