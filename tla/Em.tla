--------------------------------- MODULE Em ---------------------------------
(***************************************************************************)
(* The text editor of src/src/em/em.c over the file system of Fs: the      *)
(* dialog before a system file, the text buffer and its cursor, the two    *)
(* modes and the commands.                                                 *)
(*                                                                         *)
(* buffer[] is an array with the terminating zero in its place, so that    *)
(* the loops which shift it can be modelled cell by cell.  A word          *)
(* character is any member of Letters.  Of the command line only what      *)
(* tells the commands apart is kept: "q", "s", "wq" (or wsc) and "-m" are  *)
(* typed as one member of CmdChars each.  The screen is drawn anew after   *)
(* every key from the rest of the state, so it is an operator and no       *)
(* variable: the text rows with their typos in red, and the cursor.  The   *)
(* status row and the messages are left out.                               *)
(***************************************************************************)
EXTENDS Fs

CONSTANTS EM_BUF_SIZE,    \* 2048 in the program
          CMD_SIZE,       \* 32: sizeof(cmd_buf)
          CmdChars,       \* the command characters typed
          Letters,        \* characters for which is_word_char holds
          Nl, Sp, Nul,    \* newline, space and the terminating zero
          Dictionary,     \* the words of the active dictionaries
          WORD_MIN,       \* 2: shorter words are never typos
          WORD_MAX,       \* 32: nor are words of this length and longer
          VGA_WIDTH,      \* 80
          EM_TEXT_ROWS,   \* 23
          Paths,          \* the files em is started with
          InitTree        \* the boot tree

(* The keys of em_run that are no characters.                              *)
KeyNames == {"up", "down", "left", "right", "home", "end", "delete",
             "backspace", "tab", "alt", "esc"}

(* A text that fits into buffer[] fits into its file; files hold texts.     *)
ASSUME EmAssumption ==
    /\ EM_BUF_SIZE \in Nat \ {0}
    /\ EM_BUF_SIZE <= FS_MAX_FILESIZE
    /\ VGA_WIDTH \in Nat \ {0} /\ EM_TEXT_ROWS \in Nat \ {0}
    /\ Nul \notin Letters \cup {Nl, Sp}
    /\ KeyNames \cap (Letters \cup {Nl, Sp}) = {}
    /\ Len(InitTree) \in Nat
    /\ \A n \in 1..Len(InitTree) : InitTree[n].data \in Seq(Letters \cup {Nl, Sp})

VARIABLES files, change_log,
          buffer, buf_len, cursor_pos, mode, cmd_buf, cur_filename,
          key,            \* the key em_run read last, its int c
          selected        \* the button of the dialog: 0 is OK, 1 is EXIT

fsvars == <<files, change_log>>
text == <<buffer, buf_len, cursor_pos>>
vars == <<fsvars, text, mode, cmd_buf, cur_filename, key, selected>>

CharSet == Letters \cup {Nl, Sp}
Cells == 0..(EM_BUF_SIZE - 1)

Init ==
    /\ files = fs_init(InitTree)
    /\ change_log = <<>>
    /\ buffer = [k \in Cells |-> Nul]
    /\ buf_len = 0
    /\ cursor_pos = 0
    /\ mode = "shell"
    /\ cmd_buf = <<>>
    /\ cur_filename = Root
    /\ key = Nul
    /\ selected = 1

-----------------------------------------------------------------------------
(* em_run: the file is loaded and the editor opens in direct writing mode. *)
Open(path) ==
    LET data == IF Exists(files, path) THEN files[fs_find(files, path)].data
                                       ELSE <<>>
        len == IF Len(data) >= EM_BUF_SIZE THEN EM_BUF_SIZE - 1 ELSE Len(data)
    IN  /\ cur_filename' = path
        /\ change_log' = fs_log_change(change_log, "VIEW", path)
        /\ buffer' = [k \in Cells |-> IF k < len THEN data[k + 1]
                                      ELSE IF k = len THEN Nul ELSE buffer[k]]
        /\ buf_len' = len
        /\ cursor_pos' = 0
        /\ mode' = "edit"
        /\ cmd_buf' = <<>>
        /\ UNCHANGED files

em_run ==
    /\ mode = "shell"
    /\ selected' = 1
    /\ UNCHANGED key
    /\ \E path \in Paths :
         IF fs_is_system(files, path)
         THEN /\ mode' = "dialog"
              /\ cur_filename' = path
              /\ UNCHANGED <<fsvars, text, cmd_buf>>
         ELSE Open(path)

(* em_confirm_system_file: Left chooses OK, Right EXIT, Tab, Up and Down   *)
(* the other button; Enter takes the button, Escape leaves.                *)
DialogMove ==
    /\ mode = "dialog"
    /\ selected' \in {0, 1}
    /\ UNCHANGED <<fsvars, text, mode, cmd_buf, cur_filename, key>>

DialogEnter ==
    /\ mode = "dialog"
    /\ IF selected = 0
       THEN Open(cur_filename)
       ELSE mode' = "shell" /\ UNCHANGED <<fsvars, text, cmd_buf, cur_filename>>
    /\ UNCHANGED <<key, selected>>

DialogEscape ==
    /\ mode = "dialog"
    /\ mode' = "shell"
    /\ UNCHANGED <<fsvars, text, cmd_buf, cur_filename, key, selected>>

-----------------------------------------------------------------------------
(* The line a position is on: its first position and the one of its end.   *)
LineStart(p) == CHOOSE q \in 0..p :
                    /\ q = 0 \/ buffer[q - 1] = Nl
                    /\ \A k \in q..(p - 1) : buffer[k] # Nl
LineEnd(p) == CHOOSE q \in p..buf_len :
                  /\ q = buf_len \/ buffer[q] = Nl
                  /\ \A k \in p..(q - 1) : buffer[k] # Nl

AtMost(n, max) == IF n > max THEN max ELSE n

MoveTo(p) == cursor_pos' = p /\ UNCHANGED <<buffer, buf_len>>

em_move_left == MoveTo(IF cursor_pos > 0 THEN cursor_pos - 1 ELSE cursor_pos)
em_move_right ==
    MoveTo(IF cursor_pos < buf_len THEN cursor_pos + 1 ELSE cursor_pos)
em_move_home == MoveTo(LineStart(cursor_pos))
em_move_end == MoveTo(LineEnd(cursor_pos))

(* Mutant: the column is not cut to the length of the line above.          *)
MoveUpNoClamp ==
    LET p == LineStart(cursor_pos)
    IN  IF p = 0 THEN MoveTo(cursor_pos)
        ELSE MoveTo(AtMost(LineStart(p - 1) + cursor_pos - p, buf_len))

em_move_up ==
    LET p == LineStart(cursor_pos)
        start == LineStart(p - 1)
    IN  IF p = 0 THEN MoveTo(cursor_pos)
        ELSE MoveTo(start + AtMost(cursor_pos - p, p - 1 - start))

em_move_down ==
    LET p == LineEnd(cursor_pos)
        col == cursor_pos - LineStart(cursor_pos)
    IN  IF p = buf_len THEN MoveTo(cursor_pos)
        ELSE MoveTo(p + 1 + AtMost(col, LineEnd(p + 1) - (p + 1)))

(* The character at position k is taken out and the rest moves left.       *)
CloseGap(at) ==
    /\ buffer' = [k \in Cells |->
                    IF k >= at /\ k < buf_len - 1 THEN buffer[k + 1]
                    ELSE IF k = buf_len - 1 THEN Nul ELSE buffer[k]]
    /\ buf_len' = buf_len - 1

em_delete_char ==
    IF cursor_pos < buf_len
    THEN CloseGap(cursor_pos) /\ UNCHANGED cursor_pos
    ELSE UNCHANGED text

(* Mutant: the character under the cursor goes, not the one before it.     *)
BackspaceUnderCursor ==
    IF cursor_pos > 0
    THEN CloseGap(cursor_pos) /\ cursor_pos' = cursor_pos - 1
    ELSE UNCHANGED text

em_backspace ==
    IF cursor_pos > 0
    THEN CloseGap(cursor_pos - 1) /\ cursor_pos' = cursor_pos - 1
    ELSE UNCHANGED text

(* em_insert_char, n times: what does not fit is dropped.  The rest of the *)
(* text moves right by as many cells.                                      *)
em_insert_char(n, c) ==
    LET fit == AtMost(n, EM_BUF_SIZE - 1 - buf_len)
    IN  /\ buffer' = [k \in Cells |->
                        IF k < cursor_pos THEN buffer[k]
                        ELSE IF k < cursor_pos + fit THEN c
                        ELSE IF k < buf_len + fit THEN buffer[k - fit]
                        ELSE IF fit > 0 /\ k = buf_len + fit THEN Nul
                        ELSE buffer[k]]
        /\ buf_len' = buf_len + fit
        /\ cursor_pos' = cursor_pos + fit

Edit ==
    /\ mode = "edit"
    /\ \/ key' = "up" /\ em_move_up
       \/ key' = "down" /\ em_move_down
       \/ key' = "left" /\ em_move_left
       \/ key' = "right" /\ em_move_right
       \/ key' = "home" /\ em_move_home
       \/ key' = "end" /\ em_move_end
       \/ key' = "delete" /\ em_delete_char
       \/ key' = "backspace" /\ em_backspace
       \/ \E c \in CharSet : key' = c /\ em_insert_char(1, c)
       \/ key' = "tab" /\ em_insert_char(4, Sp)
    /\ UNCHANGED <<fsvars, mode, cmd_buf, cur_filename, selected>>

-----------------------------------------------------------------------------
Text == [k \in 1..buf_len |-> buffer[k - 1]]

(* Mutant: the file is written without the character at the end.           *)
SaveShort ==
    LET made == fs_create(files, cur_filename)
    IN  IF Exists(files, cur_filename) \/ CanCreate(files, cur_filename)
        THEN /\ files' = fs_write(made, cur_filename,
                                  SubSeq(Text, 1, buf_len - 1))
             /\ change_log' = fs_log_change(change_log, "EDITED", cur_filename)
        ELSE UNCHANGED fsvars

em_save ==
    LET made == fs_create(files, cur_filename)
    IN  IF Exists(files, cur_filename) \/ CanCreate(files, cur_filename)
        THEN /\ files' = fs_write(made, cur_filename, Text)
             /\ change_log' = fs_log_change(change_log, "EDITED", cur_filename)
        ELSE UNCHANGED fsvars

(* The words of buffer[lo..hi-1], each as its first position and its end.  *)
Words(lo, hi) ==
    {w \in (lo..hi) \X (lo..hi) :
       /\ w[1] < w[2]
       /\ \A k \in w[1]..(w[2] - 1) : buffer[k] \in Letters
       /\ w[1] = lo \/ buffer[w[1] - 1] \notin Letters
       /\ w[2] = hi \/ buffer[w[2]] \notin Letters}

is_typo(w) ==
    LET len == w[2] - w[1]
    IN  /\ len >= WORD_MIN /\ len < WORD_MAX
        /\ SubSeq(Text, w[1] + 1, w[2]) \notin Dictionary

Typos(lo, hi) == {w[1] : w \in {v \in Words(lo, hi) : is_typo(v)}}

(* Mutant: the search starts at the cursor, inside the current word.       *)
HopFromCursor ==
    LET ahead == Typos(cursor_pos, buf_len)
        behind == Typos(0, cursor_pos)
    IN  IF ahead # {} THEN First(ahead)
        ELSE IF behind # {} THEN First(behind)
        ELSE cursor_pos

(* Where ;-m moves the cursor: behind the current word to the end, then    *)
(* from the beginning up to there.                                         *)
em_hop_error ==
    LET start == CHOOSE q \in cursor_pos..buf_len :
                   /\ q = buf_len \/ buffer[q] \notin Letters
                   /\ \A k \in cursor_pos..(q - 1) : buffer[k] \in Letters
        ahead == Typos(start, buf_len)
        behind == Typos(0, start)
    IN  IF ahead # {} THEN First(ahead)
        ELSE IF behind # {} THEN First(behind)
        ELSE cursor_pos

-----------------------------------------------------------------------------
(* The screen.  A cell is a character and whether it is red; both walks    *)
(* over the text start a new row behind the last column and at a newline.  *)
EmptyCell == [ch |-> Sp, typo |-> FALSE]
InTypo(p) == \E w \in Words(0, buf_len) : is_typo(w) /\ p \in w[1]..(w[2] - 1)

At(row, col) == [row |-> row, col |-> col]
NextRow(at) == At(at.row + 1, 0)
NextCell(at) == IF at.col + 1 >= VGA_WIDTH THEN At(at.row + 1, 0)
                                           ELSE At(at.row, at.col + 1)

(* Mutant: the cursor is not carried over to the next row.                 *)
CursorNoWrap ==
    LET at[n \in 0..cursor_pos] ==
          IF n = 0 THEN At(0, 0)
          ELSE IF buffer[n - 1] = Nl THEN NextRow(at[n - 1])
          ELSE At(at[n - 1].row, at[n - 1].col + 1)
    IN  at[cursor_pos]

(* Behind the first n characters.                                          *)
Passed(at, p) == IF buffer[p] = Nl THEN NextRow(at) ELSE NextCell(at)
get_cursor_row_col ==
    LET at[n \in 0..cursor_pos] ==
          IF n = 0 THEN At(0, 0) ELSE Passed(at[n - 1], n - 1)
    IN  at[cursor_pos]

(* em_render, a character at a time: what is below the last text row is    *)
(* not drawn.                                                              *)
BlankRows == [r \in 0..(EM_TEXT_ROWS - 1) |->
                [c \in 0..(VGA_WIDTH - 1) |-> EmptyCell]]
draw_cell(cells, at, p) ==
    [cells EXCEPT ![at.row][at.col] = [ch |-> buffer[p], typo |-> InTypo(p)]]
Drawn(v, p) ==
    IF v.at.row >= EM_TEXT_ROWS THEN v
    ELSE IF buffer[p] = Nl THEN [at |-> NextRow(v.at), cells |-> v.cells]
    ELSE [at |-> NextCell(v.at), cells |-> draw_cell(v.cells, v.at, p)]
em_render ==
    LET screen[n \in 0..buf_len] ==
          IF n = 0 THEN [at |-> At(0, 0), cells |-> BlankRows]
                   ELSE Drawn(screen[n - 1], n - 1)
    IN  screen[buf_len].cells

(* The hardware cursor in writing mode; below the last text row it is      *)
(* parked.                                                                 *)
HardwareCursor ==
    LET at == get_cursor_row_col
    IN  IF at.row < EM_TEXT_ROWS THEN at ELSE At(EM_TEXT_ROWS - 1, 0)

-----------------------------------------------------------------------------
EnterCommandMode ==
    /\ mode = "edit"
    /\ key' = "alt"
    /\ mode' = "command"
    /\ cmd_buf' = <<>>
    /\ UNCHANGED <<fsvars, text, cur_filename, selected>>

(* Escape or Alt.                                                          *)
LeaveCommandMode ==
    /\ mode = "command"
    /\ key' \in {"alt", "esc"}
    /\ mode' = "edit"
    /\ cmd_buf' = <<>>
    /\ UNCHANGED <<fsvars, text, cur_filename, selected>>

CommandBackspace ==
    /\ mode = "command"
    /\ key' = "backspace"
    /\ IF cmd_buf # <<>>
       THEN cmd_buf' = Front(cmd_buf) /\ UNCHANGED mode
       ELSE mode' = "edit" /\ UNCHANGED cmd_buf
    /\ UNCHANGED <<fsvars, text, cur_filename, selected>>

CommandType ==
    /\ mode = "command"
    /\ Len(cmd_buf) < CMD_SIZE - 1
    /\ key' \in CmdChars
    /\ cmd_buf' = Append(cmd_buf, key')
    /\ UNCHANGED <<fsvars, text, mode, cur_filename, selected>>

(* ;q and ;wsc leave the editor; every other line returns to writing.      *)
execute_em_command ==
    /\ mode = "command"
    /\ key' = Nl
    /\ IF cmd_buf \in {<<"s">>, <<"wq">>} THEN em_save ELSE UNCHANGED fsvars
    /\ IF cmd_buf = <<"-m">> THEN MoveTo(em_hop_error) ELSE UNCHANGED text
    /\ mode' = IF cmd_buf \in {<<"q">>, <<"wq">>} THEN "shell" ELSE "edit"
    /\ cmd_buf' = IF mode' = "edit" THEN <<>> ELSE cmd_buf
    /\ UNCHANGED <<cur_filename, selected>>

Next ==
    \/ em_run
    \/ DialogMove \/ DialogEnter \/ DialogEscape
    \/ Edit
    \/ EnterCommandMode \/ LeaveCommandMode \/ CommandBackspace \/ CommandType
    \/ execute_em_command

Spec == Init /\ [][Next]_vars

-----------------------------------------------------------------------------
(* The array with its shifting loops implements the text left and right of *)
(* the cursor: em_run alone loads a text, the one of the file; a character *)
(* key adds itself at the cursor, Tab four blanks, as far as there is      *)
(* room; Delete and Backspace take the character next to it; and no other  *)
(* key, in neither mode, loses, doubles or reorders a character.           *)
(* The text is what rendering and saving read, the string in buffer[] up   *)
(* to the first zero; without one it would be longer than there is room.   *)
String ==
    LET zeros == {k \in Cells : buffer[k] = Nul}
        strlen == IF zeros = {} THEN EM_BUF_SIZE ELSE First(zeros)
    IN  [k \in 1..strlen |-> buffer[k - 1]]
Stored == IF Exists(files, cur_filename)
          THEN files[fs_find(files, cur_filename)].data ELSE <<>>
TB == INSTANCE TextBuffer WITH
        Chars <- CharSet, Capacity <- EM_BUF_SIZE - 1,
        Blanks <- [k \in 1..4 |-> Sp], Enter <- Nl,
        place <- IF mode \in {"edit", "command"} THEN mode ELSE "closed",
        left <- SubSeq(String, 1, cursor_pos),
        right <- SubSeq(String, cursor_pos + 1, Len(String)),
        stored <- Stored
EditsAtCursor == TB!Spec

(* The cursor in lines and columns: Up and Down go to the next line, at    *)
(* the same column or at the end of a shorter line, and stay on the first  *)
(* and the last one.                                                       *)
Row(p) == Cardinality({k \in 0..(p - 1) : buffer[k] = Nl})
Column(p) == Cardinality({k \in 0..(p - 1) : Row(k) = Row(p)})
Width(r) == Cardinality({k \in 0..(buf_len - 1) : Row(k) = r /\ buffer[k] # Nl})
Lands(r, p) ==
    IF r \in 0..Row(buf_len)
    THEN Row(p) = r /\ Column(p) = AtMost(Column(cursor_pos), Width(r))
    ELSE p = cursor_pos
MovesByLine ==
    [][mode = "edit" =>
         /\ key' = "up" => Lands(Row(cursor_pos) - 1, cursor_pos')
         /\ key' = "down" => Lands(Row(cursor_pos) + 1, cursor_pos')]_vars

(* ;-m finds the next unknown word: if the text holds one, the cursor goes *)
(* to the start of one, and no other one starts between, going round.      *)
After(p, q) == IF q > p THEN q - p ELSE q + buf_len + 1 - p
HopFindsNext ==
    Typos(0, buf_len) # {} =>
        /\ em_hop_error \in Typos(0, buf_len)
        /\ \A t \in Typos(0, buf_len) :
             After(cursor_pos, em_hop_error) <= After(cursor_pos, t)

(* The screen shows the text: a line of n characters takes n div VGA_WIDTH *)
(* rows and one more, so the place of every character is known in closed   *)
(* form; there its cell shows it, red when its word is a typo, and every   *)
(* other cell is empty.  The cursor stands on the character it is at, or,  *)
(* when that is below the last row, in the last row.                       *)
RowsAbove(r) ==
    LET rows[k \in 0..r] ==
          IF k = 0 THEN 0 ELSE (rows[k - 1] + Width(k - 1) \div VGA_WIDTH) + 1
    IN  rows[r]
Place(p) == At(RowsAbove(Row(p)) + Column(p) \div VGA_WIDTH,
               Column(p) % VGA_WIDTH)
Shown == {p \in 0..(buf_len - 1) :
            buffer[p] # Nl /\ Place(p).row < EM_TEXT_ROWS}
ScreenShowsText ==
    mode = "edit" =>
      LET cells == em_render
      IN  /\ \A p \in Shown :
               cells[Place(p).row][Place(p).col]
                 = [ch |-> buffer[p], typo |-> InTypo(p)]
          /\ \A r \in DOMAIN cells : \A c \in DOMAIN cells[r] :
               \/ \E p \in Shown : Place(p) = At(r, c)
               \/ cells[r][c] = EmptyCell
          /\ IF Place(cursor_pos).row < EM_TEXT_ROWS
             THEN HardwareCursor = Place(cursor_pos)
             ELSE HardwareCursor.row = EM_TEXT_ROWS - 1

(* A file holds what the editor showed when it was saved: whenever a step  *)
(* of an editor session changes the table, the file being edited then      *)
(* holds the text on the screen, to its last character.                    *)
SaveKeepsText ==
    [][files' # files =>
         IsFile(files', cur_filename)
         /\ files'[fs_find(files', cur_filename)].data = Text]_vars
=============================================================================
