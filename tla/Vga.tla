-------------------------------- MODULE Vga --------------------------------
(***************************************************************************)
(* The text console of src/src/drivers/vga.c: the cells of the screen and  *)
(* the place the next character goes to, as functions from console to      *)
(* console.  Colours are left out; the hardware cursor is always set to    *)
(* vga_row, vga_col and is left out too.                                   *)
(***************************************************************************)
EXTENDS Integers, Sequences

CONSTANTS VGA_WIDTH, VGA_HEIGHT,   \* 80 and 25 in the program
          Blank                    \* the space

ASSUME VgaAssumption ==
    VGA_WIDTH \in Nat \ {0} /\ VGA_HEIGHT \in Nat \ {0}

Rows == 0..(VGA_HEIGHT - 1)
Cols == 0..(VGA_WIDTH - 1)

Newline == "newline"
Return == "return"
Tabulator == "tab"
Rubout == "backspace"
Controls == {Newline, Return, Tabulator, Rubout}

Console(row, col, cells) == [row |-> row, col |-> col, cells |-> cells]

vga_clear == Console(0, 0, [r \in Rows |-> [c \in Cols |-> Blank]])

vga_scroll(v) ==
    IF v.row >= VGA_HEIGHT
    THEN Console(VGA_HEIGHT - 1, v.col,
                 [r \in Rows |-> IF r < VGA_HEIGHT - 1 THEN v.cells[r + 1]
                                 ELSE [c \in Cols |-> Blank]])
    ELSE v

(* The cell left of the cursor is blanked; at column 0 nothing happens.    *)
vga_backspace(v) ==
    IF v.col > 0
    THEN Console(v.row, v.col - 1, [v.cells EXCEPT ![v.row][v.col - 1] = Blank])
    ELSE v

Wrap(v) == IF v.col >= VGA_WIDTH THEN Console(v.row + 1, 0, v.cells) ELSE v

(* A newline, a return and a tab move the cursor; "(col + 4) & ~3" is the  *)
(* next multiple of four.  Every other character is written.               *)
vga_putchar(v, ch) ==
    IF ch = Rubout THEN vga_backspace(v)
    ELSE LET moved ==
               CASE ch = Newline   -> Console(v.row + 1, 0, v.cells)
                 [] ch = Return    -> Console(v.row, 0, v.cells)
                 [] ch = Tabulator -> Console(v.row, ((v.col + 4) \div 4) * 4,
                                              v.cells)
                 [] OTHER          -> Console(v.row, v.col + 1,
                                              [v.cells EXCEPT ![v.row][v.col] = ch])
         IN  vga_scroll(Wrap(moved))

vga_puts(v, s) ==
    LET put[n \in 0..Len(s)] == IF n = 0 THEN v ELSE vga_putchar(put[n - 1], s[n])
    IN  put[Len(s)]

(* n calls of vga_backspace, which is what vga_putchar does with '\b'.      *)
Backspaces(v, n) == vga_puts(v, [k \in 1..n |-> Rubout])
=============================================================================
