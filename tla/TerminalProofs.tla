--------------------------- MODULE TerminalProofs ---------------------------
(***************************************************************************)
(* Theorems about the line the shell reads, for every size of the ring and *)
(* of the screen and any number of commands: the ring holds the last       *)
(* commands in their slots, Up and Down recall the one they are counted    *)
(* at, the cursor stays on the screen, the pager shows its page, and the   *)
(* screen shows the line that Enter will run.                              *)
(***************************************************************************)
EXTENDS Terminal, WellFoundedInduction, TLAPS

(* The lines that cmd_buf and a slot of the ring have room for.            *)
Typed == {s \in Seq(Letters) : Len(s) < CMD_MAX_LEN}

(* The numbers of the commands that have not been overwritten yet.         *)
Held == {k \in 0..(hist_total - 1) : k >= hist_total - HIST_MAX}

HistoryType ==
    /\ cmd_buf \in Typed
    /\ hist_total \in Nat
    /\ history \in Seq(Typed)
    /\ Len(history) = hist_total
    /\ hist_entries \in [0..(HIST_MAX - 1) -> Typed]

(* Every one of them is in its slot.                                       *)
RingHoldsLast ==
    \A k \in Held : hist_entries[k % HIST_MAX] = history[k + 1]

(* hist_index never names a command that has been overwritten.             *)
IndexHeld == hist_index \in Held \cup {-1}

HistoryInv == HistoryType /\ RingHoldsLast /\ IndexHeld

-----------------------------------------------------------------------------
(* A slot of the ring.                                                     *)
LEMMA SlotInRing ==
    ASSUME NEW k \in Nat
    PROVE  k % HIST_MAX \in 0..(HIST_MAX - 1)
  BY TerminalAssumption

(* Numbers less than the size of the ring apart have different slots.      *)
LEMMA SlotsDiffer ==
    ASSUME NEW i \in Nat, NEW j \in Nat, i < j, j - i < HIST_MAX
    PROVE  i % HIST_MAX # j % HIST_MAX
  <1> DEFINE n == HIST_MAX
             a == i \div n
             b == j \div n
  <1>1. n \in Nat /\ n > 0 /\ a \in Int /\ b \in Int
    BY TerminalAssumption
  <1>2. i = n * a + (i % n) /\ j = n * b + (j % n)
    BY <1>1
  <1>3. SUFFICES ASSUME i % n = j % n PROVE FALSE
    OBVIOUS
  <1>4. j - i = n * b - n * a
    BY <1>1, <1>2, <1>3
  <1>5. CASE b <= a
    BY <1>1, <1>4, <1>5
  <1>6. CASE b >= a + 1
    <2>1. n * b >= n * (a + 1)
      BY <1>1, <1>6
    <2>2. n * (a + 1) = n * a + n
      BY <1>1
    <2>3. n * a \in Int /\ n * b \in Int
      BY <1>1
    <2> QED
      BY <1>1, <1>4, <2>1, <2>2, <2>3
  <1> QED
    BY <1>1, <1>5, <1>6

-----------------------------------------------------------------------------
LEMMA NothingTyped == <<>> \in Typed
  BY LengthAssumption DEF Typed

HistoryKept == UNCHANGED <<hist_entries, hist_total, history>>

(* The history is what the keys of the line editor change; the pager's     *)
(* keys leave the whole line alone.                                        *)
LEMMA PagerKeepsLine ==
    ASSUME PagerWheel \/ PagerLine \/ PagerPage \/ PagerHomeEnd \/ PagerQuit
    PROVE  UNCHANGED line
  BY DEF PagerWheel, PagerLine, PagerPage, PagerHomeEnd, PagerQuit, Turn

(* Enter stores at most one command, in the slot of the oldest one.        *)
LEMMA EnterKeepsHistory ==
    ASSUME HistoryInv, KeyEnter
    PROVE  HistoryInv' /\ hist_index' = -1
  <1>1. cmd_buf' = <<>> /\ hist_index' = -1 /\ hist_add(cmd_buf)
    BY DEF KeyEnter
  <1>2. <<>> \in Typed
    BY NothingTyped
  <1>3. CASE ~Stores(cmd_buf)
    <2>1. HistoryKept
      BY <1>1, <1>3 DEF hist_add, HistoryKept
    <2> QED
      BY <1>1, <1>2, <2>1 DEF HistoryKept, HistoryInv, HistoryType,
                              RingHoldsLast, IndexHeld, Held
  <1>4. CASE Stores(cmd_buf)
    <2>1. /\ hist_entries' = [hist_entries EXCEPT ![hist_total % HIST_MAX] = cmd_buf]
          /\ hist_total' = hist_total + 1
          /\ history' = Append(history, cmd_buf)
      BY <1>1, <1>4 DEF hist_add
    <2>2. hist_total % HIST_MAX \in 0..(HIST_MAX - 1)
      BY SlotInRing DEF HistoryInv, HistoryType
    <2>3. HistoryType'
      BY <1>1, <1>2, <2>1, <2>2 DEF HistoryInv, HistoryType
    <2>4. RingHoldsLast'
      <3> SUFFICES ASSUME NEW k \in Held'
                   PROVE  hist_entries'[k % HIST_MAX] = history'[k + 1]
        BY DEF RingHoldsLast
      <3>0. hist_total \in Nat /\ HIST_MAX \in Nat
        BY TerminalAssumption DEF HistoryInv, HistoryType
      <3>1. /\ k \in Nat /\ k <= hist_total
            /\ k >= hist_total + 1 - HIST_MAX
            /\ k % HIST_MAX \in 0..(HIST_MAX - 1)
        <4>1. k \in 0..hist_total /\ k >= hist_total + 1 - HIST_MAX
          BY <2>1, <3>0 DEF Held
        <4> QED
          BY <3>0, <4>1, SlotInRing
      <3>2. CASE k = hist_total
        BY <2>1, <2>2, <3>2 DEF HistoryInv, HistoryType
      <3>3. CASE k < hist_total
        <4>1. k % HIST_MAX # hist_total % HIST_MAX
          BY <3>1, <3>3, SlotsDiffer, TerminalAssumption
             DEF HistoryInv, HistoryType
        <4>2. hist_entries'[k % HIST_MAX] = hist_entries[k % HIST_MAX]
          BY <2>1, <3>1, <4>1 DEF HistoryInv, HistoryType
        <4>3. history'[k + 1] = history[k + 1]
          BY <2>1, <3>1, <3>3 DEF HistoryInv, HistoryType
        <4>4. k \in Held
          BY <3>1, <3>3, TerminalAssumption DEF Held, HistoryInv, HistoryType
        <4> QED
          BY <4>2, <4>3, <4>4 DEF HistoryInv, RingHoldsLast
      <3> QED
        BY <3>1, <3>2, <3>3 DEF HistoryInv, HistoryType
    <2> QED
      BY <1>1, <2>3, <2>4 DEF HistoryInv, IndexHeld
  <1> QED
    BY <1>3, <1>4

(* A recall brings back the command of its number, when that is held.      *)
LEMMA RecallBrings ==
    ASSUME HistoryInv, NEW k \in Held, Recall(k), HistoryKept
    PROVE  /\ HistoryInv'
           /\ hist_index' = k
           /\ cmd_buf' = history[k + 1]
  <1>1. hist_index' = k /\ cmd_buf' = hist_entries[k % HIST_MAX]
    BY DEF Recall
  <1>2. cmd_buf' \in Typed
    BY <1>1, SlotInRing DEF Held, HistoryInv, HistoryType
  <1> QED
    BY <1>1, <1>2 DEF HistoryKept, HistoryInv, HistoryType, RingHoldsLast,
                      IndexHeld, Held

(* What a step does to the number of the recalled command.                 *)
Recalls ==
    hist_index' # -1 /\ hist_index' # hist_index
      => /\ cmd_buf' = history[hist_index' + 1]
         /\ IF hist_index = -1 THEN hist_index' = hist_total - 1
            ELSE hist_index' \in {hist_index - 1, hist_index + 1}

LEMMA UpRecalls ==
    ASSUME HistoryInv, KeyUp
    PROVE  HistoryInv' /\ Recalls
  <1> DEFINE k == IF hist_index = -1 THEN hist_total - 1
                  ELSE IF hist_index > hist_total - Window THEN hist_index - 1
                  ELSE hist_index
  <1>1. Recall(k) /\ HistoryKept /\ hist_total > 0
    BY DEF KeyUp, HistoryKept
  <1>2. k \in Held
    BY <1>1, TerminalAssumption
       DEF Held, Window, HistoryInv, HistoryType, IndexHeld
  <1>3. k \in {hist_total - 1, hist_index - 1, hist_index}
        /\ (hist_index = -1 => k = hist_total - 1)
    OBVIOUS
  <1> HIDE DEF k
  <1>4. HistoryInv' /\ hist_index' = k /\ cmd_buf' = history[k + 1]
    BY <1>1, <1>2, RecallBrings
  <1> QED
    BY <1>4 DEF Recalls, k

LEMMA DownRecalls ==
    ASSUME HistoryInv, KeyDown
    PROVE  HistoryInv' /\ Recalls
  <1>1. HistoryKept /\ hist_index # -1
    BY DEF KeyDown, HistoryKept
  <1>2. CASE hist_index < hist_total - 1
    <2>1. Recall(hist_index + 1)
      BY <1>2 DEF KeyDown
    <2>2. hist_index + 1 \in Held
      <3>1. hist_index \in Held /\ hist_total \in Nat
        BY <1>1 DEF HistoryInv, HistoryType, IndexHeld
      <3> QED
        BY <1>2, <3>1, TerminalAssumption DEF Held
    <2> QED
      BY <1>1, <2>1, <2>2, RecallBrings DEF Recalls
  <1>3. CASE ~(hist_index < hist_total - 1)
    <2>1. hist_index' = -1 /\ cmd_buf' = <<>>
      BY <1>3 DEF KeyDown
    <2> QED
      BY <1>1, <2>1, NothingTyped
         DEF HistoryKept, HistoryInv, HistoryType, RingHoldsLast, IndexHeld,
             Held, Recalls
  <1> QED
    BY <1>2, <1>3

LEMMA StepKeepsHistory ==
    ASSUME HistoryInv, [Next]_vars
    PROVE  HistoryInv' /\ Recalls
  <1>1. CASE KeyEnter
    BY <1>1, EnterKeepsHistory DEF Recalls
  <1>2. CASE KeyBackspace
    <2>1. HistoryKept /\ hist_index' = hist_index
      BY <1>2 DEF KeyBackspace, HistoryKept
    <2>2. cmd_buf' \in Typed
      <3>1. cmd_buf' = cmd_buf \/ (cmd_buf # <<>> /\ cmd_buf' = Front(cmd_buf))
        BY <1>2 DEF KeyBackspace
      <3>2. cmd_buf \in Seq(Letters)
        BY DEF HistoryInv, HistoryType, Typed
      <3>3. cmd_buf # <<>> =>
              /\ SubSeq(cmd_buf, 1, Len(cmd_buf) - 1) \in Seq(Letters)
              /\ Len(SubSeq(cmd_buf, 1, Len(cmd_buf) - 1)) = Len(cmd_buf) - 1
        BY <3>2
      <3>4. Len(cmd_buf) \in Nat /\ Len(cmd_buf) < CMD_MAX_LEN /\ CMD_MAX_LEN \in Nat
        BY <3>2, LengthAssumption DEF HistoryInv, HistoryType, Typed
      <3> QED
        BY <3>1, <3>2, <3>3, <3>4 DEF Typed, Front
    <2> QED
      BY <2>1, <2>2 DEF HistoryKept, HistoryInv, HistoryType, RingHoldsLast,
                        IndexHeld, Held, Recalls
  <1>3. CASE KeyUp
    BY <1>3, UpRecalls
  <1>4. CASE KeyDown
    BY <1>4, DownRecalls
  <1>5. CASE KeyLetter
    <2>1. HistoryKept /\ hist_index' = hist_index
      BY <1>5 DEF KeyLetter, HistoryKept
    <2>2. cmd_buf' \in Typed
      <3>1. PICK ch \in Letters : cmd_buf' = Append(cmd_buf, ch)
        BY <1>5 DEF KeyLetter
      <3>2. /\ cmd_buf \in Seq(Letters) /\ Len(cmd_buf) < CMD_MAX_LEN - 1
            /\ CMD_MAX_LEN \in Nat
        BY <1>5, LengthAssumption DEF KeyLetter, HistoryInv, HistoryType, Typed
      <3>3. cmd_buf' \in Seq(Letters) /\ Len(cmd_buf') = Len(cmd_buf) + 1
        BY <3>1, <3>2
      <3>4. Len(cmd_buf) \in Nat
        BY <3>2
      <3> QED
        BY <3>2, <3>3, <3>4 DEF Typed
    <2> QED
      BY <2>1, <2>2 DEF HistoryKept, HistoryInv, HistoryType, RingHoldsLast,
                        IndexHeld, Held, Recalls
  <1>6. CASE UNCHANGED line
    BY <1>6 DEF line, HistoryInv, HistoryType, RingHoldsLast, IndexHeld,
                Held, Recalls
  <1> QED
    BY <1>1, <1>2, <1>3, <1>4, <1>5, <1>6, PagerKeepsLine DEF Next, vars

-----------------------------------------------------------------------------
(* The last HIST_MAX commands are in the ring, each in its slot, and       *)
(* hist_index names one of them or none, however often the ring wraps.     *)
THEOREM HistoryHoldsLast == Spec => []HistoryInv
  <1>1. Init => HistoryInv
    BY SMT, TerminalAssumption, NothingTyped
       DEF Init, HistoryInv, HistoryType, RingHoldsLast, IndexHeld, Held
  <1>2. HistoryInv /\ [Next]_vars => HistoryInv'
    BY StepKeepsHistory
  <1> QED
    BY <1>1, <1>2, PTL DEF Spec

(* Up and Down bring back the command they are counted at, the newest      *)
(* first and one at a time, and never one that has been overwritten.       *)
THEOREM HistoryRecalls == Spec => RecallsTheRightOne
  <1>1. HistoryInv /\ [Next]_vars => [Recalls]_vars
    BY StepKeepsHistory
  <1>2. Spec => [][Recalls]_vars
    BY <1>1, HistoryHoldsLast, PTL DEF Spec
  <1> QED
    BY <1>2 DEF RecallsTheRightOne, Recalls

-----------------------------------------------------------------------------
(* The screen                                                              *)

(* Counting up: what holds of 0 and of the next number holds of all.       *)
LEMMA CountUp ==
    ASSUME NEW last \in Nat, NEW Good, 0 \in Good,
           \A n \in 0..(last - 1) : n \in Good => n + 1 \in Good
    PROVE  \A n \in 0..last : n \in Good
  <1> DEFINE Bad == {n \in 0..last : n \notin Good}
             R == {ss \in Nat \X Nat : ss[1] < ss[2]}
  <1> SUFFICES ASSUME Bad # {} PROVE FALSE
    OBVIOUS
  <1>1. Bad \subseteq Nat
    OBVIOUS
  <1>2. IsWellFoundedOn(R, Nat)
    BY NatLessThanWellFounded DEF OpToRel
  <1>3. PICK m \in Bad : \A n \in Bad : ~ (<<n, m>> \in R)
    BY <1>1, <1>2, WFMin
  <1>4. m \in 0..last /\ m \notin Good /\ m # 0
    OBVIOUS
  <1>5. m - 1 \in 0..(last - 1) /\ (m - 1) + 1 = m
    BY <1>4
  <1>6. <<m - 1, m>> \in R
    BY <1>4, <1>5
  <1>7. m - 1 \notin Bad
    <2> HIDE DEF Bad, R
    <2> QED
      BY <1>3, <1>6
  <1>8. m - 1 \in Good
    BY <1>5, <1>7
  <1> QED
    BY <1>4, <1>5, <1>8

(* A console with its cursor on the screen.                                *)
IsScreen(v) ==
    /\ v = [row |-> v.row, col |-> v.col, cells |-> v.cells]
    /\ v.row \in Rows /\ v.col \in Cols

LEMMA ClearIsScreen == IsScreen(vga_clear)
  BY VgaAssumption DEF vga_clear, Console, IsScreen, Rows, Cols

LEMMA BackspaceIsScreen ==
    ASSUME NEW v, IsScreen(v)
    PROVE  IsScreen(vga_backspace(v))
  <1>1. CASE v.col > 0
    <2> DEFINE cells == [v.cells EXCEPT ![v.row][v.col - 1] = Blank]
    <2>1. vga_backspace(v) = Console(v.row, v.col - 1, cells)
      BY <1>1 DEF vga_backspace
    <2> HIDE DEF cells
    <2> QED
      BY <1>1, <2>1, VgaAssumption DEF Console, IsScreen, Cols
  <1>2. CASE ~(v.col > 0)
    BY <1>2 DEF vga_backspace
  <1> QED
    BY <1>1, <1>2 DEF IsScreen, Cols

(* The cursor may leave the screen by one row or a tab's columns; Wrap and *)
(* vga_scroll bring it back.                                               *)
LEMMA WrapAndScroll ==
    ASSUME NEW row \in Rows \cup {VGA_HEIGHT}, NEW col \in Nat, NEW cells,
           row = VGA_HEIGHT => col = 0
    PROVE  IsScreen(vga_scroll(Wrap(Console(row, col, cells))))
  <1> DEFINE w == Wrap(Console(row, col, cells))
             low == [r \in Rows |-> IF r < VGA_HEIGHT - 1 THEN w.cells[r + 1]
                                    ELSE [c \in Cols |-> Blank]]
  <1>1. PICK r \in Rows \cup {VGA_HEIGHT}, c \in Cols : w = Console(r, c, cells)
    <2>1. CASE col >= VGA_WIDTH
      <3>1. w = Console(row + 1, 0, cells)
        BY <2>1 DEF Wrap, Console
      <3>2. row + 1 \in Rows \cup {VGA_HEIGHT} /\ 0 \in Cols
        BY <2>1, VgaAssumption DEF Rows, Cols
      <3> QED
        BY <3>1, <3>2
    <2>2. CASE ~(col >= VGA_WIDTH)
      <3>1. w = Console(row, col, cells) /\ col \in Cols
        BY <2>2, VgaAssumption DEF Wrap, Console, Cols
      <3> QED
        BY <3>1
    <2> QED
      BY <2>1, <2>2
  <1> HIDE DEF w
  <1>2. CASE r = VGA_HEIGHT
    <2>1. vga_scroll(w) = Console(VGA_HEIGHT - 1, c, low)
      BY <1>1, <1>2, VgaAssumption DEF vga_scroll, Console
    <2> HIDE DEF low
    <2> QED
      BY <2>1, VgaAssumption DEF IsScreen, Rows, Console, w
  <1>3. CASE r \in Rows
    <2>1. vga_scroll(w) = w
      BY <1>1, <1>3, VgaAssumption DEF vga_scroll, Rows, Console
    <2> QED
      BY <1>1, <1>3, <2>1 DEF IsScreen, Console, w
  <1> QED
    BY <1>2, <1>3

LEMMA PutcharIsScreen ==
    ASSUME NEW v, NEW ch, IsScreen(v)
    PROVE  IsScreen(vga_putchar(v, ch))
  <1>1. CASE ch = Rubout
    BY <1>1, BackspaceIsScreen DEF vga_putchar
  <1>2. CASE ch # Rubout
    <2> DEFINE cells == [v.cells EXCEPT ![v.row][v.col] = ch]
    <2>1. vga_putchar(v, ch) \in
             {vga_scroll(Wrap(Console(v.row + 1, 0, v.cells))),
              vga_scroll(Wrap(Console(v.row, 0, v.cells))),
              vga_scroll(Wrap(Console(v.row, ((v.col + 4) \div 4) * 4, v.cells))),
              vga_scroll(Wrap(Console(v.row, v.col + 1, cells)))}
      BY <1>2 DEF vga_putchar
    <2> HIDE DEF cells
    <2>2. /\ v.row \in Rows /\ v.row + 1 \in Rows \cup {VGA_HEIGHT}
          /\ v.row # VGA_HEIGHT /\ v.col + 1 \in Nat
          /\ ((v.col + 4) \div 4) * 4 \in Nat
      BY VgaAssumption DEF IsScreen, Rows, Cols
    <2>3. IsScreen(vga_scroll(Wrap(Console(v.row + 1, 0, v.cells))))
      BY <2>2, WrapAndScroll
    <2>4. IsScreen(vga_scroll(Wrap(Console(v.row, 0, v.cells))))
      BY <2>2, WrapAndScroll
    <2>5. IsScreen(vga_scroll(Wrap(Console(v.row, ((v.col + 4) \div 4) * 4, v.cells))))
      BY <2>2, WrapAndScroll
    <2>6. IsScreen(vga_scroll(Wrap(Console(v.row, v.col + 1, cells))))
      BY <2>2, WrapAndScroll
    <2> QED
      BY <2>1, <2>3, <2>4, <2>5, <2>6
  <1> QED
    BY <1>1, <1>2

(* m holds the consoles after the first n characters of s.                 *)
Puts(m, v, s, n) ==
    m = [k \in 0..n |-> IF k = 0 THEN v ELSE vga_putchar(m[k - 1], s[k])]

LEMMA PutsExists ==
    ASSUME NEW v, NEW s, Len(s) \in Nat
    PROVE  \E m : /\ m[0] = v
                  /\ \A n \in 1..Len(s) : m[n] = vga_putchar(m[n - 1], s[n])
                  /\ vga_puts(v, s) = m[Len(s)]
  <1> DEFINE L == Len(s)
             Good == {n \in 0..L : \E m : Puts(m, v, s, n)}
             made == CHOOSE m : Puts(m, v, s, L)
  <1>1. 0 \in Good
    <2>1. Puts([k \in 0..0 |-> v], v, s, 0)
      BY DEF Puts
    <2> QED
      BY <2>1
  <1>2. ASSUME NEW n \in 0..(L - 1), n \in Good
        PROVE  n + 1 \in Good
    <2>1. PICK m : Puts(m, v, s, n)
      BY <1>2
    <2> DEFINE new == [k \in 0..(n + 1) |-> IF k = n + 1
                                            THEN vga_putchar(m[n], s[n + 1])
                                            ELSE m[k]]
    <2>2. \A k \in 0..n : m[k] = IF k = 0 THEN v ELSE vga_putchar(m[k - 1], s[k])
      BY <2>1 DEF Puts
    <2>3. ASSUME NEW k \in 0..(n + 1)
          PROVE  new[k] = IF k = 0 THEN v ELSE vga_putchar(new[k - 1], s[k])
      <3>1. CASE k = n + 1
        <4>1. k # 0 /\ k - 1 = n /\ n \in 0..(n + 1) /\ n # n + 1
          BY <3>1
        <4>2. new[k - 1] = m[n] /\ new[k] = vga_putchar(m[n], s[k])
          BY <3>1, <4>1
        <4> QED
          BY <4>1, <4>2
      <3>2. CASE k # n + 1
        <4>1. k \in 0..n /\ (k # 0 => k - 1 \in 0..(n + 1) /\ k - 1 # n + 1)
          BY <3>2
        <4>2. new[k] = m[k] /\ (k # 0 => new[k - 1] = m[k - 1])
          BY <3>2, <4>1
        <4> QED
          BY <2>2, <4>1, <4>2
      <3> QED
        BY <3>1, <3>2
    <2>4. Puts(new, v, s, n + 1)
      <3>1. new = [k \in 0..(n + 1) |-> new[k]]
        OBVIOUS
      <3> HIDE DEF new
      <3> QED
        BY <2>3, <3>1 DEF Puts
    <2>5. n + 1 \in 0..L
      OBVIOUS
    <2> QED
      BY <2>4, <2>5
  <1>3. L \in Good
    <2> HIDE DEF Good
    <2>1. \A n \in 0..L : n \in Good
      BY <1>1, <1>2, CountUp
    <2> QED
      BY <2>1
  <1>4. Puts(made, v, s, L)
    BY <1>3
  <1>5. vga_puts(v, s) = made[L]
    BY DEF vga_puts, Puts
  <1> HIDE DEF made
  <1>6. \A k \in 0..L : made[k] = IF k = 0 THEN v
                                   ELSE vga_putchar(made[k - 1], s[k])
    BY <1>4 DEF Puts
  <1> QED
    BY <1>5, <1>6

(* A string of any length leaves the cursor on the screen.                 *)
LEMMA PutsIsScreen ==
    ASSUME NEW v, IsScreen(v), NEW s, Len(s) \in Nat
    PROVE  IsScreen(vga_puts(v, s))
  <1>1. PICK m : /\ m[0] = v
                 /\ \A n \in 1..Len(s) : m[n] = vga_putchar(m[n - 1], s[n])
                 /\ vga_puts(v, s) = m[Len(s)]
    BY PutsExists
  <1> DEFINE Good == {n \in 0..Len(s) : IsScreen(m[n])}
  <1>2. 0 \in Good
    BY <1>1
  <1>3. ASSUME NEW n \in 0..(Len(s) - 1), n \in Good
        PROVE  n + 1 \in Good
    <2>1. n + 1 \in 1..Len(s) /\ (n + 1) - 1 = n
      OBVIOUS
    <2>2. m[n + 1] = vga_putchar(m[n], s[n + 1]) /\ IsScreen(m[n])
      BY <1>1, <1>3, <2>1
    <2>3. IsScreen(m[n + 1])
      BY <2>2, PutcharIsScreen
    <2> QED
      BY <2>1, <2>3
  <1>4. Len(s) \in Good
    <2> HIDE DEF Good
    <2>1. \A n \in 0..Len(s) : n \in Good
      BY <1>2, <1>3, CountUp
    <2> QED
      BY <2>1
  <1> QED
    BY <1>1, <1>4

LEMMA RubbedIsScreen ==
    ASSUME NEW v, IsScreen(v), NEW n \in Nat
    PROVE  IsScreen(Backspaces(v, n))
  <1>1. Len([k \in 1..n |-> Rubout]) = n
    <2>1. [k \in 1..n |-> Rubout] \in Seq({Rubout})
      OBVIOUS
    <2> QED
      BY <2>1
  <1> QED
    BY <1>1, PutsIsScreen DEF Backspaces

-----------------------------------------------------------------------------
(* The pager                                                               *)

(* The status row counts the whole page as 100% and nothing less.          *)
LEMMA PercentIsExact ==
    ASSUME NEW n \in Nat \ {0}, NEW m \in 0..n
    PROVE  (m * 100) \div n = 100 <=> m = n
  <1> DEFINE q == (m * 100) \div n
  <1>1. q \in Int /\ n * q <= m * 100 /\ m * 100 < n * q + n
    <2> DEFINE a == m * 100
    <2>1. a \in Nat
      OBVIOUS
    <2> HIDE DEF a
    <2>2. /\ a \div n \in Int /\ a % n \in 0..(n - 1)
          /\ a = n * (a \div n) + (a % n)
      BY <2>1
    <2>3. n * (a \div n) \in Int
      BY <2>2
    <2>4. n * (a \div n) <= a /\ a < n * (a \div n) + n
      BY <2>1, <2>2, <2>3
    <2> QED
      BY <2>2, <2>4 DEF a
  <1> HIDE DEF q
  <1>2. ASSUME q = 100 PROVE m = n
    BY <1>1, <1>2
  <1>3. ASSUME m = n PROVE q = 100
    <2>1. CASE q <= 99
      <3>1. n * q <= n * 99
        BY <1>1, <2>1
      <3>2. n * q \in Int
        BY <1>1
      <3> QED
        BY <1>1, <1>3, <3>1, <3>2
    <2>2. CASE q >= 101
      <3>1. n * q >= n * 101
        BY <1>1, <2>2
      <3>2. n * q \in Int
        BY <1>1
      <3> QED
        BY <1>1, <1>3, <3>1, <3>2
    <2> QED
      BY <1>1, <2>1, <2>2
  <1> QED
    BY <1>2, <1>3 DEF q

PageAt(doc, top) == [open |-> TRUE, doc |-> doc, top |-> top,
                     bar |-> render_status_bar(Len(doc), top)]
Shows(doc, top) ==
    /\ pager = PageAt(doc, top)
    /\ vga.cells = render_page(doc, top, VGA_WIDTH, Blank)

(* The open page is drawn from a line on that leaves no row unused which   *)
(* the page could fill.                                                    *)
PagerInv ==
    \/ pager = NoPage
    \/ \E doc \in Docs : \E top \in 0..MaxTop(Len(doc)) : Shows(doc, top)

ScreenInv == IsScreen(vga) /\ PagerInv

LEMMA PageSize ==
    ASSUME NEW doc \in Docs
    PROVE  /\ Len(doc) \in Nat /\ Len(doc) >= 1
           /\ MaxTop(Len(doc)) \in Nat
           /\ MaxTop(Len(doc)) = IF Len(doc) >= PAGER_TEXT_ROWS
                                 THEN Len(doc) - PAGER_TEXT_ROWS ELSE 0
  BY TextAssumption, WdidAssumption DEF MaxTop, Below

LEMMA DrawShows ==
    ASSUME NEW v, IsScreen(v), NEW doc \in Docs,
           NEW top \in 0..MaxTop(Len(doc)), Draw(v, doc, top)
    PROVE  ScreenInv'
  <1> DEFINE cells == render_page(doc, top, VGA_WIDTH, Blank)
  <1>1. vga' = Console(v.row, v.col, cells) /\ pager' = PageAt(doc, top)
    BY DEF Draw, PageAt
  <1>2. vga'.cells = cells /\ IsScreen(vga)'
    <2> HIDE DEF cells
    <2> QED
      BY <1>1 DEF Console, IsScreen
  <1> QED
    BY <1>1, <1>2 DEF ScreenInv, PagerInv, Shows

(* The keys of the pager keep the top line between the first one and the   *)
(* one with which the page ends on the last row.                           *)
LEMMA TurnShows ==
    ASSUME ScreenInv,
           PagerWheel \/ PagerLine \/ PagerPage \/ PagerHomeEnd
    PROVE  ScreenInv'
  <1>1. Paging
    BY DEF PagerWheel, PagerLine, PagerPage, PagerHomeEnd, Turn
  <1>2a. PICK doc \in Docs : \E top \in 0..MaxTop(Len(doc)) : Shows(doc, top)
    BY <1>1 DEF ScreenInv, PagerInv, Paging, NoPage
  <1>2. PICK top \in 0..MaxTop(Len(doc)) : Shows(doc, top)
    BY <1>2a
  <1>3. pager.doc = doc /\ pager.top = top
    BY <1>2 DEF Shows, PageAt
  <1> DEFINE max == MaxTop(Len(doc))
  <1>4. max \in Nat /\ top \in 0..max
    BY PageSize
  <1> DEFINE Reached(t) ==
               \/ t \in {Below(top, WHEEL_LINES), Below(top, PAGE_LINES)}
               \/ t \in {Least(top + WHEEL_LINES, max), Least(top + PAGE_LINES, max)}
               \/ t \in {0, max}
               \/ t = top - 1 /\ top > 0
               \/ t = top + 1 /\ top < max
  <1>5. \E t : Turn(t) /\ Reached(t)
    BY <1>3 DEF PagerWheel, PagerLine, PagerPage, PagerHomeEnd, Forward
  <1>6. PICK t : Turn(t) /\ Reached(t)
    BY <1>5
  <1>7. t \in 0..max
    <2> HIDE DEF max
    <2>1. \A n \in Nat : Below(top, n) \in 0..max /\ Least(top + n, max) \in 0..max
      BY <1>4 DEF Below, Least
    <2>2. /\ Below(top, WHEEL_LINES) \in 0..max /\ Below(top, PAGE_LINES) \in 0..max
          /\ Least(top + WHEEL_LINES, max) \in 0..max
          /\ Least(top + PAGE_LINES, max) \in 0..max
      BY <2>1, WdidAssumption
    <2>3. CASE t = top - 1 /\ top > 0
      BY <1>4, <2>3
    <2>4. CASE t = top + 1 /\ top < max
      BY <1>4, <2>4
    <2>5. CASE t \in {0, max}
      BY <1>4, <2>5
    <2> QED
      BY <1>6, <2>2, <2>3, <2>4, <2>5
  <1>8. Draw(vga, doc, t)
    BY <1>3, <1>6 DEF Turn
  <1> QED
    BY <1>7, <1>8, DrawShows DEF ScreenInv

(* Whatever the rest of a line prints over a screen, a screen is left, with *)
(* the prompt or with a page from its first line on.                       *)
LEMMA RunsShows ==
    ASSUME NEW before, IsScreen(before), Runs(before)
    PROVE  ScreenInv'
  <1>1. PICK clear \in BOOLEAN, out \in Outputs :
           LET v == vga_puts(IF clear THEN vga_clear ELSE before, out)
           IN  \/ vga' = vga_puts(v, Prompt) /\ pager' = NoPage
               \/ \E doc \in Docs : Draw(v, doc, 0)
    BY DEF Runs
  <1> DEFINE from == IF clear THEN vga_clear ELSE before
             v == vga_puts(from, out)
  <1>2. Len(out) \in Nat /\ Len(Prompt) \in Nat
    <2>1. out \in Seq(STRING) /\ Prompt \in Seq(STRING)
      BY TextAssumption
    <2> QED
      BY <2>1
  <1>3. IsScreen(from)
    BY ClearIsScreen
  <1> HIDE DEF from
  <1>4. IsScreen(v)
    BY <1>2, <1>3, PutsIsScreen
  <1>5. \/ vga' = vga_puts(v, Prompt) /\ pager' = NoPage
        \/ \E doc \in Docs : Draw(v, doc, 0)
    BY <1>1 DEF from
  <1> HIDE DEF v
  <1>6. CASE vga' = vga_puts(v, Prompt) /\ pager' = NoPage
    <2>1. IsScreen(vga')
      BY <1>2, <1>4, <1>6, PutsIsScreen
    <2> QED
      BY <1>6, <2>1 DEF ScreenInv, PagerInv, IsScreen
  <1>7. ASSUME NEW doc \in Docs, Draw(v, doc, 0)
        PROVE  ScreenInv'
    <2>1. 0 \in 0..MaxTop(Len(doc))
      BY PageSize
    <2> QED
      BY <1>4, <1>7, <2>1, DrawShows
  <1> QED
    BY <1>5, <1>6, <1>7

LEMMA EnterShows ==
    ASSUME ScreenInv, KeyEnter
    PROVE  ScreenInv'
  <1>1. IsScreen(vga_putchar(vga, Newline)) /\ Runs(vga_putchar(vga, Newline))
    BY PutcharIsScreen DEF ScreenInv, KeyEnter
  <1> QED
    BY <1>1, RunsShows

(* The keys of the line editor draw with the calls of Vga and open no page. *)
LEMMA LineShows ==
    ASSUME HistoryInv, HistoryInv', ScreenInv,
           KeyBackspace \/ KeyUp \/ KeyDown \/ KeyLetter
    PROVE  ScreenInv'
  <1>1. Len(cmd_buf) \in Nat /\ Len(cmd_buf') \in Nat
    <2>1. cmd_buf \in Seq(Letters) /\ cmd_buf' \in Seq(Letters)
      BY DEF HistoryInv, HistoryType, Typed
    <2> QED
      BY <2>1
  <1> DEFINE rubbed == Backspaces(vga, Len(cmd_buf))
  <1>2. IsScreen(vga) /\ IsScreen(rubbed)
    BY <1>1, RubbedIsScreen DEF ScreenInv
  <1>3. IsScreen(vga_puts(rubbed, cmd_buf'))
    <2> HIDE DEF rubbed
    <2> QED
      BY <1>1, <1>2, PutsIsScreen
  <1>4. /\ ~Paging /\ pager' = pager
        /\ \/ vga' \in {vga, vga_backspace(vga), rubbed, vga_puts(rubbed, cmd_buf')}
           \/ \E ch \in Letters : vga' = vga_putchar(vga, ch)
    BY DEF KeyBackspace, KeyUp, KeyDown, KeyLetter, Recall
  <1> HIDE DEF rubbed
  <1>5. IsScreen(vga')
    BY <1>2, <1>3, <1>4, BackspaceIsScreen, PutcharIsScreen
  <1>6. pager' = NoPage
    BY <1>4 DEF Paging, ScreenInv, PagerInv, Shows, PageAt
  <1> QED
    BY <1>5, <1>6 DEF ScreenInv, PagerInv, IsScreen

LEMMA QuitShows ==
    ASSUME PagerQuit
    PROVE  ScreenInv'
  <1>1. IsScreen(vga_clear) /\ Runs(vga_clear)
    BY ClearIsScreen DEF PagerQuit
  <1> QED
    BY <1>1, RunsShows

LEMMA ScreenInvariant == Spec => []ScreenInv
  <1>1. Init => ScreenInv
    <2> SUFFICES ASSUME Init PROVE ScreenInv
      OBVIOUS
    <2>1. Prompt \in Seq(STRING) /\ Len(Prompt) \in Nat
      <3>1. Prompt \in Seq(STRING)
        BY TextAssumption
      <3> QED
        BY <3>1
    <2>2. IsScreen(vga)
      BY <2>1, ClearIsScreen, PutsIsScreen DEF Init
    <2> QED
      BY <2>2 DEF Init, ScreenInv, PagerInv
  <1>2. ASSUME HistoryInv, HistoryInv', ScreenInv, [Next]_vars
        PROVE  ScreenInv'
    <2>1. CASE UNCHANGED vars
      BY <1>2, <2>1 DEF vars, ScreenInv, IsScreen, PagerInv, Shows
    <2> QED
      BY <1>2, <2>1, EnterShows, LineShows, TurnShows, QuitShows DEF Next
  <1> QED
    BY <1>1, <1>2, HistoryHoldsLast, PTL DEF Spec

(* vga_putchar stores into the cell at the cursor without a test: the      *)
(* cursor never leaves the screen, whatever is printed, rubbed out,        *)
(* recalled, scrolled or paged.                                            *)
THEOREM CursorStaysOnScreen == Spec => []CursorOnScreen
  <1>1. ScreenInv => CursorOnScreen
    BY DEF ScreenInv, IsScreen, CursorOnScreen
  <1> QED
    BY <1>1, ScreenInvariant, PTL

(* While the pager is open its rows are the lines the status row counts,   *)
(* and rows are left over only when the whole page is shown, for pages and *)
(* screens of every size.                                                  *)
THEOREM PagerShowsPage == Spec => []PageOnScreen
  <1>1. ASSUME ScreenInv, Paging
        PROVE  PageOnScreen
    <2>0. PICK doc \in Docs : \E top \in 0..MaxTop(Len(doc)) : Shows(doc, top)
      BY <1>1 DEF ScreenInv, PagerInv, Paging, NoPage
    <2>1. PICK top \in 0..MaxTop(Len(doc)) : Shows(doc, top)
      BY <2>0
    <2> DEFINE n == Len(doc)
               bottom == Least(top + PAGER_TEXT_ROWS, n)
               cells == render_page(doc, top, VGA_WIDTH, Blank)
    <2>2. pager.doc = doc /\ pager.bar = render_status_bar(n, top) /\ vga.cells = cells
      BY <2>1 DEF Shows, PageAt
    <2>3. /\ n \in Nat \ {0} /\ top \in Nat /\ PAGER_TEXT_ROWS \in Nat \ {0}
          /\ top + 1 <= bottom /\ bottom <= n /\ bottom \in 0..n
          /\ bottom <= top + PAGER_TEXT_ROWS
          /\ bottom - top < PAGER_TEXT_ROWS => top = 0 /\ bottom = n
      BY PageSize, WdidAssumption DEF Least
    <2>4. /\ pager.bar.first = top + 1 /\ pager.bar.last = bottom
          /\ pager.bar.percent = (bottom * 100) \div n
      BY <2>2, <2>3 DEF render_status_bar
    <2>5. pager.bar.percent = 100 <=> bottom = n
      BY <2>3, <2>4, PercentIsExact
    <2> HIDE DEF bottom
    <2>6. \A r \in 0..(PAGER_TEXT_ROWS - 1) :
             vga.cells[r] = Row(doc, top + r + 1, VGA_WIDTH, Blank)
      BY <2>2, <2>3 DEF render_page
    <2>7. ASSUME NEW k \in (top + 1)..bottom
          PROVE  OnRow(k - (top + 1), doc[k])
      <3>1. /\ k - (top + 1) \in 0..(PAGER_TEXT_ROWS - 1)
            /\ top + (k - (top + 1)) + 1 = k /\ ~(k > n)
        <4> HIDE DEF n
        <4>1. k \in Int /\ top + 1 <= k /\ k <= bottom
          BY <2>3
        <4>2. bottom <= top + PAGER_TEXT_ROWS
          BY <2>3
        <4> QED
          BY <2>3, <4>1, <4>2
      <3>2. vga.cells[k - (top + 1)] = Row(doc, k, VGA_WIDTH, Blank)
        BY <2>6, <3>1
      <3> QED
        BY <3>1, <3>2 DEF OnRow, Row, Cols
    <2>8. ASSUME NEW r \in Rows, r \in (bottom - (top + 1) + 1)..(PAGER_TEXT_ROWS - 1)
          PROVE  top + 1 = 1 /\ bottom = n /\ OnRow(r, <<"~">>)
      <3>1. /\ r \in 0..(PAGER_TEXT_ROWS - 1) /\ top = 0 /\ bottom = n
            /\ top + r + 1 > n
        BY <2>3, <2>8
      <3>2. vga.cells[r] = Row(doc, top + r + 1, VGA_WIDTH, Blank)
        BY <2>6, <3>1
      <3>3. \A c \in Cols : vga.cells[r][c] = IF c = 0 THEN "~" ELSE Blank
        BY <3>1, <3>2 DEF Row, Cols
      <3>4. \A c \in Cols : c < Len(<<"~">>) <=> c = 0
        BY VgaAssumption DEF Cols
      <3>5. <<"~">>[0 + 1] = "~"
        OBVIOUS
      <3> QED
        BY <3>1, <3>3, <3>4, <3>5 DEF OnRow
    <2> QED
      BY <2>2, <2>3, <2>4, <2>5, <2>7, <2>8 DEF PageOnScreen
  <1>2. ScreenInv => PageOnScreen
    BY <1>1 DEF PageOnScreen
  <1> QED
    BY <1>2, ScreenInvariant, PTL

-----------------------------------------------------------------------------
(* The line on the screen                                                  *)

(* Row and column of the n-th place behind the beginning of a row.         *)
LEMMA PlaceSplits ==
    ASSUME NEW r \in Nat, NEW c \in Cols
    PROVE  /\ (r * VGA_WIDTH + c) \div VGA_WIDTH = r
           /\ (r * VGA_WIDTH + c) % VGA_WIDTH = c
  <1> DEFINE w == VGA_WIDTH
             n == r * w + c
             q == n \div w
  <1>1. w \in Nat /\ w > 0 /\ c \in 0..(w - 1) /\ n \in Nat
    BY VgaAssumption DEF Cols
  <1>2. q \in Int /\ n % w \in 0..(w - 1) /\ n = w * q + (n % w)
    <2> HIDE DEF n
    <2> QED
      BY <1>1
  <1>3. w * q \in Int /\ r * w = w * r /\ w * r \in Int
    BY <1>1, <1>2
  <1>4. n = w * r + c
    BY <1>3
  <1> HIDE DEF n, q, w
  <1>5. CASE q < r
    <2>1. w * (q + 1) <= w * r /\ w * (q + 1) = w * q + w
      BY <1>1, <1>2, <1>5
    <2> QED
      BY <1>1, <1>2, <1>3, <1>4, <2>1
  <1>6. CASE q > r
    <2>1. w * (r + 1) <= w * q /\ w * (r + 1) = w * r + w
      BY <1>1, <1>2, <1>6
    <2> QED
      BY <1>1, <1>2, <1>3, <1>4, <2>1
  <1>7. ASSUME q = r
        PROVE  n % w = c
    <2>1. w * q = w * r
      BY <1>7
    <2>2. n % w \in Int /\ c \in Int
      BY <1>1, <1>2
    <2> QED
      BY <1>2, <1>3, <1>4, <2>1, <2>2
  <1>8. q = r /\ n % w = c
    BY <1>1, <1>2, <1>3, <1>4, <1>5, <1>6, <1>7
  <1> QED
    BY <1>8 DEF n, q, w

LEMMA NumberSplits ==
    ASSUME NEW n \in Nat
    PROVE  /\ n \div VGA_WIDTH \in Nat /\ n % VGA_WIDTH \in Cols
           /\ n = (n \div VGA_WIDTH) * VGA_WIDTH + (n % VGA_WIDTH)
  <1> DEFINE w == VGA_WIDTH
             q == n \div w
  <1>1. w \in Nat /\ w > 0
    BY VgaAssumption
  <1>2. q \in Nat /\ n % w \in 0..(w - 1) /\ n = w * q + (n % w)
    <2> HIDE DEF w
    <2> QED
      BY <1>1
  <1> HIDE DEF q, w
  <1>3. w * q = q * w
    BY <1>1, <1>2
  <1> QED
    BY <1>2, <1>3 DEF q, w, Cols

LEMMA NextSplits ==
    ASSUME NEW n \in Nat
    PROVE  /\ (n % VGA_WIDTH) + 1 < VGA_WIDTH =>
                /\ (n + 1) \div VGA_WIDTH = n \div VGA_WIDTH
                /\ (n + 1) % VGA_WIDTH = (n % VGA_WIDTH) + 1
           /\ ~((n % VGA_WIDTH) + 1 < VGA_WIDTH) =>
                /\ (n % VGA_WIDTH) + 1 = VGA_WIDTH
                /\ (n + 1) \div VGA_WIDTH = (n \div VGA_WIDTH) + 1
                /\ (n + 1) % VGA_WIDTH = 0
  <1> DEFINE w == VGA_WIDTH
             q == n \div w
             c == n % w
  <1>1. w \in Nat /\ w > 0
    BY VgaAssumption
  <1>2. q \in Nat /\ c \in Cols /\ n = q * w + c
    BY NumberSplits
  <1>3. c \in 0..(w - 1) /\ 0 \in Cols
    BY <1>1, <1>2 DEF Cols
  <1> HIDE DEF q, c
  <1>4. ASSUME c + 1 < w
        PROVE  (n + 1) \div w = q /\ (n + 1) % w = c + 1
    <2>1. c + 1 \in Cols /\ q * w \in Nat
      BY <1>1, <1>2, <1>3, <1>4 DEF Cols
    <2>2. n + 1 = q * w + (c + 1)
      BY <1>2, <1>3, <2>1
    <2> QED
      BY <1>2, <2>1, <2>2, PlaceSplits
  <1>5. ASSUME ~(c + 1 < w)
        PROVE  c + 1 = w /\ (n + 1) \div w = q + 1 /\ (n + 1) % w = 0
    <2>1. c + 1 = w /\ q + 1 \in Nat
      BY <1>1, <1>2, <1>3, <1>5
    <2>2. (q + 1) * w = q * w + w /\ q * w \in Nat
      BY <1>1, <1>2
    <2>3. n + 1 = (q + 1) * w + 0
      BY <1>1, <1>2, <1>3, <2>1, <2>2
    <2> QED
      BY <1>3, <2>1, <2>3, PlaceSplits
  <1> QED
    BY <1>4, <1>5 DEF q, c

(* An earlier place is in no later row and is another place.               *)
LEMMA EarlierPlace ==
    ASSUME NEW k \in Nat, NEW n \in Nat, k < n
    PROVE  /\ k \div VGA_WIDTH <= n \div VGA_WIDTH
           /\ k \div VGA_WIDTH = n \div VGA_WIDTH => k % VGA_WIDTH < n % VGA_WIDTH
  <1> DEFINE w == VGA_WIDTH
             p == k \div w
             q == n \div w
             c == k % w
             d == n % w
  <1>1. w \in Nat /\ w > 0
    BY VgaAssumption
  <1>2. /\ p \in Nat /\ c \in 0..(w - 1) /\ k = p * w + c
        /\ q \in Nat /\ d \in 0..(w - 1) /\ n = q * w + d
    BY NumberSplits DEF Cols
  <1> HIDE DEF p, q, c, d, w
  <1>3. p * w \in Nat /\ q * w \in Nat
    BY <1>1, <1>2
  <1>4. p <= q
    <2> SUFFICES ASSUME p >= q + 1 PROVE FALSE
      BY <1>2
    <2>1. p * w >= (q + 1) * w /\ (q + 1) * w = q * w + w
      BY <1>1, <1>2
    <2> QED
      BY <1>1, <1>2, <1>3, <2>1
  <1>5. ASSUME p = q PROVE c < d
    <2>1. p * w = q * w
      BY <1>5
    <2> QED
      BY <1>2, <1>3, <2>1
  <1> QED
    BY <1>4, <1>5 DEF p, q, c, d, w

-----------------------------------------------------------------------------
BlankRow == [c \in Cols |-> Blank]

(* Nothing is written below a row.                                         *)
Ruled(cells, row) ==
    /\ cells = [r \in Rows |-> cells[r]]
    /\ \A r \in Rows : /\ cells[r] = [c \in Cols |-> cells[r][c]]
                       /\ r > row => cells[r] = BlankRow

Sheet(v) == IsScreen(v) /\ Ruled(v.cells, v.row)

(* From the beginning of row s on the screen reads the first n characters  *)
(* of u, up to the cursor, and nothing behind them.                        *)
ReadsFrom(v, u, n, s) ==
    /\ Sheet(v)
    /\ v.row = s + (n \div VGA_WIDTH)
    /\ v.col = n % VGA_WIDTH
    /\ \A k \in 0..(n - 1) :
         v.cells[s + (k \div VGA_WIDTH)][k % VGA_WIDTH] = u[k + 1]
    /\ \A c \in Cols : c >= v.col => v.cells[v.row][c] = Blank

Reads(v, u, n) == \E s \in Nat : ReadsFrom(v, u, n, s)

LEMMA ReadsSheet ==
    ASSUME NEW v, NEW u, NEW n, Reads(v, u, n)
    PROVE  Sheet(v)
  BY DEF Reads, ReadsFrom

(* At the beginning of an empty row nothing is read yet.                   *)
LEMMA EmptyRowReads ==
    ASSUME NEW v, NEW u, Sheet(v), v.col = 0, v.cells[v.row] = BlankRow
    PROVE  Reads(v, u, 0)
  <1>1. 0 \div VGA_WIDTH = 0 /\ 0 % VGA_WIDTH = 0
    <2>1. 0 * VGA_WIDTH + 0 = 0 /\ 0 \in Cols /\ 0 \in Nat
      BY VgaAssumption DEF Cols
    <2> QED
      BY <2>1, PlaceSplits
  <1>2. v.row \in Nat
    BY VgaAssumption DEF Sheet, IsScreen, Rows
  <1>3. v.row + 0 = v.row /\ 0..(0 - 1) = {}
    BY <1>2
  <1>4. \A c \in Cols : v.cells[v.row][c] = Blank
    BY DEF BlankRow
  <1>5. ReadsFrom(v, u, 0, v.row)
    BY <1>1, <1>3, <1>4 DEF ReadsFrom
  <1> QED
    BY <1>2, <1>5 DEF Reads

LEMMA ClearReads ==
    ASSUME NEW u
    PROVE  Reads(vga_clear, u, 0)
  <1>1. /\ vga_clear.row = 0 /\ vga_clear.col = 0
        /\ vga_clear.cells = [r \in Rows |-> BlankRow]
    BY DEF vga_clear, Console, BlankRow
  <1>2. 0 \in Rows
    BY VgaAssumption DEF Rows
  <1>3. Sheet(vga_clear)
    BY <1>1, <1>2, ClearIsScreen DEF Sheet, Ruled, BlankRow
  <1> QED
    BY <1>1, <1>2, <1>3, EmptyRowReads

LEMMA SameReads ==
    ASSUME NEW v, NEW u, NEW w, NEW n \in Nat, Reads(v, u, n),
           \A k \in 1..n : w[k] = u[k]
    PROVE  Reads(v, w, n)
  <1>1. \A k \in 0..(n - 1) : k + 1 \in 1..n
    OBVIOUS
  <1>2. PICK s \in Nat : ReadsFrom(v, u, n, s)
    BY DEF Reads
  <1>3. ReadsFrom(v, w, n, s)
    BY <1>1, <1>2 DEF ReadsFrom
  <1> QED
    BY <1>3 DEF Reads

(* A character is stored into one cell.                                    *)
Stored(cells, row, col, ch) == [cells EXCEPT ![row][col] = ch]

LEMMA StoreInRow ==
    ASSUME NEW row \in Rows, NEW col \in Cols, NEW ch, NEW cells,
           Ruled(cells, row)
    PROVE  /\ Ruled(Stored(cells, row, col, ch), row)
           /\ \A c \in Cols : Stored(cells, row, col, ch)[row][c] =
                                IF c = col THEN ch ELSE cells[row][c]
           /\ \A r \in Rows : r # row => Stored(cells, row, col, ch)[r] = cells[r]
  <1> DEFINE stored == [cells[row] EXCEPT ![col] = ch]
             new == Stored(cells, row, col, ch)
  <1>1. cells[row] = [c \in Cols |-> cells[row][c]] /\ cells = [r \in Rows |-> cells[r]]
    BY DEF Ruled
  <1>2. /\ stored = [c \in Cols |-> stored[c]]
        /\ \A c \in Cols : stored[c] = IF c = col THEN ch ELSE cells[row][c]
    BY <1>1
  <1>3. new = [cells EXCEPT ![row] = stored]
    BY DEF Stored
  <1> HIDE DEF stored, new
  <1>4. /\ new = [r \in Rows |-> new[r]]
        /\ new[row] = stored
        /\ \A r \in Rows : r # row => new[r] = cells[r]
    BY <1>1, <1>3
  <1>5. \A r \in Rows : r > row => r # row
    BY DEF Rows
  <1>6. Ruled(new, row)
    BY <1>2, <1>4, <1>5 DEF Ruled
  <1> QED
    BY <1>2, <1>4, <1>6 DEF new

(* Beyond the right edge the next row is begun, and beyond the last row    *)
(* everything moves up.                                                    *)
Scrolled(cells) ==
    [r \in Rows |-> IF r < VGA_HEIGHT - 1 THEN cells[r + 1] ELSE BlankRow]

LEMMA SettleKeepsSheet ==
    ASSUME NEW row \in Rows \cup {VGA_HEIGHT}, NEW col \in Nat, NEW cells,
           row = VGA_HEIGHT => col = 0, Ruled(cells, row)
    PROVE  LET v == vga_scroll(Wrap(Console(row, col, cells)))
           IN  /\ Sheet(v)
               /\ row \in Rows /\ col \in Cols => v = Console(row, col, cells)
               /\ row = VGA_HEIGHT => v = Console(VGA_HEIGHT - 1, 0, Scrolled(cells))
               /\ row \in Rows /\ col = VGA_WIDTH =>
                    v = IF row + 1 = VGA_HEIGHT
                        THEN Console(VGA_HEIGHT - 1, 0, Scrolled(cells))
                        ELSE Console(row + 1, 0, cells)
  <1> DEFINE w == Wrap(Console(row, col, cells))
  <1>0. VGA_HEIGHT - 1 \in Rows /\ VGA_HEIGHT \notin Rows /\ 0 \in Cols
    BY VgaAssumption DEF Rows, Cols
  <1>1. PICK r \in Rows \cup {VGA_HEIGHT}, c \in Cols :
           /\ w = Console(r, c, cells) /\ r >= row
           /\ row \in Rows /\ col \in Cols => r = row /\ c = col
           /\ row = VGA_HEIGHT => r = row /\ c = 0
           /\ row \in Rows /\ col = VGA_WIDTH => r = row + 1 /\ c = 0
    <2>1. CASE col >= VGA_WIDTH
      <3>1. w = Console(row + 1, 0, cells)
        BY <2>1 DEF Wrap, Console
      <3>2. /\ row + 1 \in Rows \cup {VGA_HEIGHT} /\ 0 \in Cols /\ row + 1 >= row
            /\ col \notin Cols /\ row # VGA_HEIGHT
        BY <2>1, VgaAssumption DEF Rows, Cols
      <3> QED
        BY <3>1, <3>2
    <2>2. CASE ~(col >= VGA_WIDTH)
      <3>1. /\ w = Console(row, col, cells) /\ col \in Cols /\ row >= row
            /\ col # VGA_WIDTH
        BY <2>2, VgaAssumption DEF Wrap, Console, Cols, Rows
      <3> QED
        BY <3>1
    <2> QED
      BY <2>1, <2>2
  <1>2. Ruled(cells, r)
    <2>1. \A k \in Rows : k > r => k > row
      BY <1>1, VgaAssumption DEF Rows
    <2> QED
      BY <2>1 DEF Ruled
  <1> HIDE DEF w
  <1>3. CASE r = VGA_HEIGHT
    <2> DEFINE low == Scrolled(cells)
    <2>1. vga_scroll(w) = Console(VGA_HEIGHT - 1, c, low)
      BY <1>1, <1>3, VgaAssumption DEF vga_scroll, Console, Scrolled, BlankRow
    <2>2. Ruled(low, VGA_HEIGHT - 1) /\ low[VGA_HEIGHT - 1] = BlankRow
      <3>1. /\ low = [k \in Rows |-> low[k]]
            /\ \A k \in Rows : k < VGA_HEIGHT - 1 => k + 1 \in Rows /\ low[k] = cells[k + 1]
            /\ \A k \in Rows : ~(k < VGA_HEIGHT - 1) => low[k] = BlankRow
        BY VgaAssumption DEF Rows, BlankRow, Scrolled
      <3>2. \A k \in Rows : ~(k > VGA_HEIGHT - 1)
        BY VgaAssumption DEF Rows
      <3>3. BlankRow = [k \in Cols |-> BlankRow[k]]
        BY DEF BlankRow
      <3>4. ~(VGA_HEIGHT - 1 < VGA_HEIGHT - 1)
        BY VgaAssumption
      <3> HIDE DEF low
      <3> QED
        BY <1>0, <1>2, <3>1, <3>2, <3>3, <3>4 DEF Ruled
    <2> HIDE DEF low
    <2>3. LET v == Console(VGA_HEIGHT - 1, c, low)
          IN  Sheet(v) /\ v.col = c /\ v.row = VGA_HEIGHT - 1 /\ v.cells = low
      BY <1>0, <1>1, <2>2 DEF Sheet, IsScreen, Console
    <2>4. ~(row \in Rows /\ col \in Cols)
      BY <1>0, <1>1, <1>3
    <2>5. row \in Rows /\ col = VGA_WIDTH => row + 1 = VGA_HEIGHT /\ c = 0
      BY <1>1, <1>3
    <2>6. row = VGA_HEIGHT => c = 0
      BY <1>1
    <2>7. vga_scroll(w) = Console(VGA_HEIGHT - 1, c, Scrolled(cells))
      BY <2>1 DEF low
    <2>8. Sheet(vga_scroll(w))
      BY <2>1, <2>3
    <2> QED
      BY <2>4, <2>5, <2>6, <2>7, <2>8 DEF w
  <1>4. CASE r \in Rows
    <2>1. vga_scroll(w) = w
      BY <1>1, <1>4, VgaAssumption DEF vga_scroll, Rows, Console
    <2>2. Sheet(w)
      BY <1>1, <1>2, <1>4 DEF Sheet, IsScreen, Console
    <2>3. row # VGA_HEIGHT /\ (row \in Rows /\ col = VGA_WIDTH => row + 1 # VGA_HEIGHT)
      BY <1>0, <1>1, <1>4
    <2> QED
      BY <1>0, <1>1, <1>4, <2>1, <2>2, <2>3 DEF w
  <1> QED
    BY <1>3, <1>4

LEMMA BackspaceKeepsSheet ==
    ASSUME NEW v, Sheet(v)
    PROVE  /\ Sheet(vga_backspace(v))
           /\ v.col > 0 =>
                /\ vga_backspace(v).row = v.row
                /\ vga_backspace(v).col = v.col - 1
                /\ \A c \in Cols : vga_backspace(v).cells[v.row][c] =
                     IF c = v.col - 1 THEN Blank ELSE v.cells[v.row][c]
                /\ \A r \in Rows : r # v.row =>
                     vga_backspace(v).cells[r] = v.cells[r]
  <1>1. CASE v.col > 0
    <2> DEFINE cells == [v.cells EXCEPT ![v.row][v.col - 1] = Blank]
    <2>1. vga_backspace(v) = Console(v.row, v.col - 1, cells)
      BY <1>1 DEF vga_backspace
    <2>2. v.row \in Rows /\ v.col - 1 \in Cols
      BY <1>1, VgaAssumption DEF Sheet, IsScreen, Cols
    <2>2a. Ruled(v.cells, v.row) /\ cells = Stored(v.cells, v.row, v.col - 1, Blank)
      BY DEF Sheet, Stored
    <2> HIDE DEF cells
    <2>3. /\ Ruled(cells, v.row)
          /\ \A c \in Cols : cells[v.row][c] = IF c = v.col - 1 THEN Blank
                                               ELSE v.cells[v.row][c]
          /\ \A r \in Rows : r # v.row => cells[r] = v.cells[r]
      BY <2>2, <2>2a, StoreInRow
    <2> QED
      BY <2>1, <2>2, <2>3 DEF Sheet, IsScreen, Console
  <1>2. CASE ~(v.col > 0)
    BY <1>2 DEF vga_backspace
  <1> QED
    BY <1>1, <1>2

LEMMA PutcharKeepsSheet ==
    ASSUME NEW v, NEW ch, Sheet(v)
    PROVE  Sheet(vga_putchar(v, ch))
  <1>1. CASE ch = Rubout
    BY <1>1, BackspaceKeepsSheet DEF vga_putchar
  <1>2. CASE ch # Rubout
    <2> DEFINE cells == [v.cells EXCEPT ![v.row][v.col] = ch]
               tab == ((v.col + 4) \div 4) * 4
    <2>1. vga_putchar(v, ch) \in
             {vga_scroll(Wrap(Console(v.row + 1, 0, v.cells))),
              vga_scroll(Wrap(Console(v.row, 0, v.cells))),
              vga_scroll(Wrap(Console(v.row, tab, v.cells))),
              vga_scroll(Wrap(Console(v.row, v.col + 1, cells)))}
      BY <1>2 DEF vga_putchar
    <2>2. v.row \in Rows /\ v.col \in Cols /\ Ruled(v.cells, v.row)
      BY DEF Sheet, IsScreen
    <2>3. Ruled(cells, v.row)
      BY <2>2, StoreInRow DEF Stored
    <2>4. /\ v.row + 1 \in Rows \cup {VGA_HEIGHT} /\ v.row # VGA_HEIGHT
          /\ v.col + 1 \in Nat /\ tab \in Nat /\ 0 \in Nat
      BY <2>2, VgaAssumption DEF Rows, Cols
    <2>5. Ruled(v.cells, v.row + 1)
      <3>1. \A r \in Rows : r > v.row + 1 => r > v.row
        BY <2>2 DEF Rows
      <3> QED
        BY <2>2, <3>1 DEF Ruled
    <2> HIDE DEF cells, tab
    <2>6. Sheet(vga_scroll(Wrap(Console(v.row + 1, 0, v.cells))))
      BY <2>4, <2>5, SettleKeepsSheet
    <2>7. Sheet(vga_scroll(Wrap(Console(v.row, 0, v.cells))))
      BY <2>2, <2>4, SettleKeepsSheet
    <2>8. Sheet(vga_scroll(Wrap(Console(v.row, tab, v.cells))))
      BY <2>2, <2>4, SettleKeepsSheet
    <2>9. Sheet(vga_scroll(Wrap(Console(v.row, v.col + 1, cells))))
      BY <2>2, <2>3, <2>4, SettleKeepsSheet
    <2> QED
      BY <2>1, <2>6, <2>7, <2>8, <2>9
  <1> QED
    BY <1>1, <1>2

LEMMA ControlsDiffer ==
    /\ Newline # Return /\ Newline # Tabulator /\ Newline # Rubout
    /\ Return # Tabulator /\ Return # Rubout /\ Tabulator # Rubout
  BY DEF Newline, Return, Tabulator, Rubout

(* A newline ends what the screen showed before: the cursor is at the      *)
(* beginning of an empty row.                                              *)
LEMMA NewlineReads ==
    ASSUME NEW v, Sheet(v), NEW u
    PROVE  Reads(vga_putchar(v, Newline), u, 0)
  <1> DEFINE w == vga_scroll(Wrap(Console(v.row + 1, 0, v.cells)))
  <1>1. vga_putchar(v, Newline) = w
    BY ControlsDiffer DEF vga_putchar
  <1>2. v.row \in Rows /\ Ruled(v.cells, v.row)
    BY DEF Sheet, IsScreen
  <1>3. /\ v.row + 1 \in Rows \cup {VGA_HEIGHT} /\ v.row + 1 > v.row
        /\ 0 \in Cols /\ 0 \in Nat
    BY <1>2, VgaAssumption DEF Rows, Cols
  <1>4. Ruled(v.cells, v.row + 1)
    <2>1. \A r \in Rows : r > v.row + 1 => r > v.row
      BY <1>2 DEF Rows
    <2> QED
      BY <1>2, <2>1 DEF Ruled
  <1>5. /\ Sheet(w)
        /\ v.row + 1 \in Rows => w = Console(v.row + 1, 0, v.cells)
        /\ v.row + 1 = VGA_HEIGHT =>
             w = Console(VGA_HEIGHT - 1, 0, Scrolled(v.cells))
    BY <1>3, <1>4, SettleKeepsSheet
  <1> HIDE DEF w
  <1>6. w.col = 0 /\ w.cells[w.row] = BlankRow
    <2>1. CASE v.row + 1 \in Rows
      <3>1. w.col = 0 /\ w.row = v.row + 1 /\ w.cells = v.cells
        BY <1>5, <2>1 DEF Console
      <3> QED
        BY <1>2, <1>3, <2>1, <3>1 DEF Ruled
    <2>2. CASE v.row + 1 = VGA_HEIGHT
      <3>1. w.col = 0 /\ w.row = VGA_HEIGHT - 1 /\ w.cells = Scrolled(v.cells)
        BY <1>5, <2>2 DEF Console
      <3>2. VGA_HEIGHT - 1 \in Rows /\ ~(VGA_HEIGHT - 1 < VGA_HEIGHT - 1)
        BY VgaAssumption DEF Rows
      <3> QED
        BY <3>1, <3>2 DEF Scrolled
    <2> QED
      BY <1>3, <2>1, <2>2
  <1> QED
    BY <1>1, <1>5, <1>6, EmptyRowReads

(* A character that moves no cursor goes behind the others, in the same    *)
(* row or, scrolled if need be, at the beginning of the next one.          *)
LEMMA LetterReads ==
    ASSUME NEW v, NEW u, NEW n \in Nat, NEW ch, Reads(v, u, n),
           n + 1 < VGA_WIDTH * VGA_HEIGHT, ch \notin Controls, ch = u[n + 1]
    PROVE  Reads(vga_putchar(v, ch), u, n + 1)
  <1> DEFINE cells == [v.cells EXCEPT ![v.row][v.col] = ch]
             w == vga_putchar(v, ch)
             W == VGA_WIDTH
             H == VGA_HEIGHT
             q == n \div W
  <1>1. PICK s \in Nat : ReadsFrom(v, u, n, s)
    BY DEF Reads
  <1>2. w = vga_scroll(Wrap(Console(v.row, v.col + 1, cells)))
    BY DEF vga_putchar, Controls
  <1>3. /\ v.row \in Rows /\ v.col \in Cols /\ v.row # H /\ v.row \notin {H}
        /\ v.col = n % W /\ v.row = s + q /\ v.col + 1 \in Nat
    BY <1>1, VgaAssumption DEF ReadsFrom, Sheet, IsScreen, Cols, Rows
  <1>4. Ruled(v.cells, v.row) /\ cells = Stored(v.cells, v.row, v.col, ch)
    BY <1>1 DEF ReadsFrom, Sheet, Stored
  <1> HIDE DEF cells
  <1>5. /\ Ruled(cells, v.row)
        /\ \A c \in Cols : cells[v.row][c] = IF c = v.col THEN ch ELSE v.cells[v.row][c]
        /\ \A r \in Rows : r # v.row => cells[r] = v.cells[r]
    BY <1>3, <1>4, StoreInRow
  <1>6. /\ Sheet(w)
        /\ v.col + 1 \in Cols => w = Console(v.row, v.col + 1, cells)
        /\ v.col + 1 = W => w = IF v.row + 1 = H
                                THEN Console(H - 1, 0, Scrolled(cells))
                                ELSE Console(v.row + 1, 0, cells)
    BY <1>2, <1>3, <1>5, SettleKeepsSheet
  <1> HIDE DEF w
  <1>7. /\ W \in Nat /\ W > 0 /\ H \in Nat /\ H > 0 /\ q \in Nat
        /\ \A k \in 0..n : k \in Nat /\ k \div W \in Nat /\ k % W \in Cols
    BY NumberSplits, VgaAssumption
  <1>8. ASSUME NEW k \in 0..n
        PROVE  /\ s + (k \div W) \in Rows /\ s + (k \div W) <= v.row
               /\ cells[s + (k \div W)][k % W] = u[k + 1]
    <2>1. k \in Nat /\ (k = n \/ k < n)
      OBVIOUS
    <2>2. CASE k = n
      BY <1>3, <1>5, <2>2, VgaAssumption DEF Rows
    <2>3. CASE k < n
      <3>1. k \div W <= q /\ (k \div W = q => k % W < n % W)
        BY <2>1, <2>3, EarlierPlace
      <3>2. s + (k \div W) \in Rows /\ s + (k \div W) <= v.row
        BY <1>3, <1>7, <3>1 DEF Rows
      <3>3. v.cells[s + (k \div W)][k % W] = u[k + 1]
        <4>1. k \in 0..(n - 1)
          BY <2>3
        <4> QED
          BY <1>1, <4>1 DEF ReadsFrom
      <3>4. CASE s + (k \div W) = v.row
        <4>1. k % W \in Cols /\ k % W # v.col
          BY <1>3, <1>7, <3>1, <3>4 DEF Cols
        <4> QED
          BY <1>5, <3>2, <3>3, <3>4, <4>1
      <3>5. CASE s + (k \div W) # v.row
        BY <1>5, <3>2, <3>3, <3>5
      <3> QED
        BY <3>4, <3>5, <3>2
    <2> QED
      BY <2>1, <2>2, <2>3
  <1>9. CASE (n % W) + 1 < W
    <2>1. (n + 1) \div W = q /\ (n + 1) % W = (n % W) + 1
      BY <1>9, NextSplits
    <2>2. v.col + 1 \in Cols
      BY <1>3, <1>7, <1>9 DEF Cols
    <2>3. w.row = v.row /\ w.col = v.col + 1 /\ w.cells = cells
      BY <1>6, <2>2 DEF Console
    <2>4. ASSUME NEW c \in Cols, c >= v.col + 1
          PROVE  cells[v.row][c] = Blank
      <3>1. c >= v.col /\ c # v.col
        BY <1>3, <2>4 DEF Cols
      <3> QED
        BY <1>1, <1>5, <3>1 DEF ReadsFrom
    <2>5. \A k \in 0..((n + 1) - 1) : k \in 0..n
      OBVIOUS
    <2>6. ReadsFrom(w, u, n + 1, s)
      BY <1>3, <1>6, <1>8, <2>1, <2>3, <2>4, <2>5 DEF ReadsFrom
    <2> QED
      BY <2>6 DEF Reads, w
  <1>10. CASE ~((n % W) + 1 < W)
    <2>1. (n % W) + 1 = W /\ (n + 1) \div W = q + 1 /\ (n + 1) % W = 0
      BY <1>10, NextSplits
    <2>2. v.col + 1 = W /\ v.row + 1 = s + (q + 1)
      BY <1>3, <1>7, <2>1
    <2>5. \A k \in 0..((n + 1) - 1) : k \in 0..n
      OBVIOUS
    <2>6. CASE v.row + 1 # H
      <3>1. w.row = v.row + 1 /\ w.col = 0 /\ w.cells = cells
        BY <1>6, <2>2, <2>6 DEF Console
      <3>2. cells[v.row + 1] = BlankRow
        <4>1. v.row + 1 \in Rows /\ v.row + 1 > v.row
          BY <1>3, <1>7, <2>6 DEF Rows
        <4> QED
          BY <1>5, <4>1 DEF Ruled
      <3>3. \A c \in Cols : cells[v.row + 1][c] = Blank
        BY <3>2 DEF BlankRow
      <3>4. ReadsFrom(w, u, n + 1, s)
        BY <1>6, <1>8, <2>1, <2>2, <2>5, <3>1, <3>3 DEF ReadsFrom
      <3> QED
        BY <3>4 DEF Reads, w
    <2>7. CASE v.row + 1 = H
      <3>1. w.row = H - 1 /\ w.col = 0 /\ w.cells = Scrolled(cells)
        BY <1>6, <2>2, <2>7 DEF Console
      <3>2. s >= 1
        <4> SUFFICES ASSUME s = 0 PROVE FALSE
          OBVIOUS
        <4>1. q + 1 = H
          BY <1>7, <2>2, <2>7
        <4>2. n = q * W + (n % W)
          BY NumberSplits
        <4>3. H * W = (q + 1) * W /\ (q + 1) * W = q * W + W /\ W * H = H * W
          BY <1>7, <4>1
        <4>4. q * W \in Nat /\ n % W \in Int
          BY <1>7, <2>1
        <4> QED
          BY <1>7, <2>1, <4>2, <4>3, <4>4
      <3>3. s - 1 \in Nat /\ H - 1 = (s - 1) + (q + 1)
        BY <1>7, <2>2, <2>7, <3>2
      <3>4. ASSUME NEW k \in 0..n
            PROVE  w.cells[(s - 1) + (k \div W)][k % W] = u[k + 1]
        <4>1. /\ s + (k \div W) \in Rows /\ s + (k \div W) <= v.row
              /\ cells[s + (k \div W)][k % W] = u[k + 1]
          BY <1>8
        <4>2. k \div W \in Nat
          BY <1>7
        <4>3. /\ (s - 1) + (k \div W) \in Rows /\ (s - 1) + (k \div W) < H - 1
              /\ ((s - 1) + (k \div W)) + 1 = s + (k \div W)
          BY <1>3, <1>7, <2>7, <3>3, <4>1, <4>2 DEF Rows
        <4> QED
          BY <3>1, <4>1, <4>3 DEF Scrolled
      <3>5. \A c \in Cols : w.cells[H - 1][c] = Blank
        <4>1. H - 1 \in Rows /\ ~(H - 1 < H - 1)
          BY <1>7 DEF Rows
        <4> QED
          BY <3>1, <4>1 DEF Scrolled, BlankRow
      <3>6. ReadsFrom(w, u, n + 1, s - 1)
        BY <1>6, <2>1, <2>5, <3>1, <3>3, <3>4, <3>5 DEF ReadsFrom
      <3> QED
        BY <3>3, <3>6 DEF Reads, w
    <2> QED
      BY <2>6, <2>7
  <1> QED
    BY <1>9, <1>10

(* Rubbing out takes the last character away as long as it is in the row   *)
(* of the cursor.                                                          *)
LEMMA RubReads ==
    ASSUME NEW v, NEW u, NEW n \in Nat, Reads(v, u, n + 1), v.col > 0
    PROVE  Reads(vga_backspace(v), u, n) /\ vga_backspace(v).col = v.col - 1
  <1> DEFINE W == VGA_WIDTH
             w == vga_backspace(v)
             q == n \div W
  <1>1. PICK s \in Nat : ReadsFrom(v, u, n + 1, s)
    BY DEF Reads
  <1>2. /\ Sheet(v) /\ v.row = s + ((n + 1) \div W) /\ v.col = (n + 1) % W
        /\ v.row \in Rows /\ v.col \in Cols
    BY <1>1 DEF ReadsFrom, Sheet, IsScreen
  <1>3. /\ (n + 1) \div W = q /\ (n + 1) % W = (n % W) + 1
        /\ q \in Nat /\ n % W \in Cols
    BY <1>2, NextSplits, NumberSplits
  <1>4. v.row = s + q /\ v.col - 1 = n % W /\ n % W \in Nat
    BY <1>2, <1>3 DEF Cols
  <1>5. /\ Sheet(w) /\ w.row = v.row /\ w.col = v.col - 1
        /\ \A c \in Cols : w.cells[v.row][c] =
             IF c = v.col - 1 THEN Blank ELSE v.cells[v.row][c]
        /\ \A r \in Rows : r # v.row => w.cells[r] = v.cells[r]
    BY <1>2, BackspaceKeepsSheet
  <1> HIDE DEF w
  <1>6. ASSUME NEW k \in 0..(n - 1)
        PROVE  w.cells[s + (k \div W)][k % W] = u[k + 1]
    <2>1. k \in Nat /\ k < n /\ k \in 0..((n + 1) - 1)
      OBVIOUS
    <2>2. /\ k \div W <= q /\ (k \div W = q => k % W < n % W)
          /\ k \div W \in Nat /\ k % W \in Cols
      BY <2>1, EarlierPlace, NumberSplits
    <2>3. s + (k \div W) \in Rows
      BY <1>2, <1>3, <1>4, <2>2, VgaAssumption DEF Rows
    <2>4. v.cells[s + (k \div W)][k % W] = u[k + 1]
      BY <1>1, <2>1 DEF ReadsFrom
    <2>5. CASE s + (k \div W) = v.row
      <3>1. k % W # v.col - 1
        BY <1>3, <1>4, <2>2, <2>5 DEF Cols
      <3> QED
        BY <1>5, <2>2, <2>4, <2>5, <3>1
    <2>6. CASE s + (k \div W) # v.row
      BY <1>5, <2>3, <2>4, <2>6
    <2> QED
      BY <2>5, <2>6
  <1>7. ASSUME NEW c \in Cols, c >= v.col - 1
        PROVE  w.cells[v.row][c] = Blank
    <2>1. c = v.col - 1 \/ c >= v.col
      BY <1>2, <1>7 DEF Cols
    <2> QED
      BY <1>1, <1>5, <2>1 DEF ReadsFrom
  <1>8. ReadsFrom(w, u, n, s)
    BY <1>4, <1>5, <1>6, <1>7 DEF ReadsFrom
  <1> QED
    BY <1>5, <1>8 DEF Reads, w

(* A walk of vga_putchar over the rest of s from its e-th character on     *)
(* shows the rest, if it moves no cursor and fits on the screen.           *)
LEMMA WalkReads ==
    ASSUME NEW s, Len(s) \in Nat, NEW e \in 0..Len(s), NEW m,
           \A j \in 1..Len(s) : m[j] = vga_putchar(m[j - 1], s[j]),
           NEW u, NEW n \in Nat, Reads(m[e], u, n),
           n + (Len(s) - e) < VGA_WIDTH * VGA_HEIGHT,
           \A k \in 1..(Len(s) - e) : s[e + k] \notin Controls /\ s[e + k] = u[n + k]
    PROVE  Reads(m[Len(s)], u, n + (Len(s) - e))
  <1> DEFINE rest == Len(s) - e
             Good == {k \in 0..rest : Reads(m[e + k], u, n + k)}
  <1>0. rest \in Nat /\ e \in Nat
    OBVIOUS
  <1>1. 0 \in Good
    BY <1>0
  <1>2. ASSUME NEW k \in 0..(rest - 1), k \in Good
        PROVE  k + 1 \in Good
    <2>1. /\ k \in Nat /\ k + 1 \in 1..rest /\ k + 1 \in 0..rest
          /\ e + (k + 1) \in 1..Len(s) /\ (e + (k + 1)) - 1 = e + k
          /\ n + k \in Nat /\ (n + k) + 1 = n + (k + 1)
          /\ (n + k) + 1 <= n + rest
      BY <1>0
    <2>1a. (n + k) + 1 < VGA_WIDTH * VGA_HEIGHT
      <3> DEFINE size == VGA_WIDTH * VGA_HEIGHT
      <3>1. size \in Nat /\ n + rest < size
        BY VgaAssumption
      <3> HIDE DEF size, rest
      <3>2. (n + k) + 1 < size
        BY <1>0, <2>1, <3>1
      <3> QED
        BY <3>2 DEF size
    <2>2. /\ m[e + (k + 1)] = vga_putchar(m[e + k], s[e + (k + 1)])
          /\ s[e + (k + 1)] \notin Controls /\ s[e + (k + 1)] = u[(n + k) + 1]
          /\ Reads(m[e + k], u, n + k)
      BY <1>2, <2>1
    <2>3. Reads(m[e + (k + 1)], u, (n + k) + 1)
      BY <2>1, <2>1a, <2>2, LetterReads
    <2> QED
      BY <2>1, <2>3
  <1>3. rest \in Good
    <2> HIDE DEF Good, rest
    <2>1. \A k \in 0..rest : k \in Good
      BY <1>0, <1>1, <1>2, CountUp
    <2> QED
      BY <1>0, <2>1
  <1>4. e + rest = Len(s)
    OBVIOUS
  <1> QED
    BY <1>3, <1>4

LEMMA WalkKeepsSheet ==
    ASSUME NEW last \in Nat, NEW s, NEW m, Sheet(m[0]),
           \A j \in 1..last : m[j] = vga_putchar(m[j - 1], s[j])
    PROVE  \A k \in 0..last : Sheet(m[k])
  <1> DEFINE Good == {k \in 0..last : Sheet(m[k])}
  <1>1. 0 \in Good
    OBVIOUS
  <1>2. ASSUME NEW k \in 0..(last - 1), k \in Good
        PROVE  k + 1 \in Good
    <2>1. k + 1 \in 1..last /\ (k + 1) - 1 = k
      OBVIOUS
    <2>2. m[k + 1] = vga_putchar(m[k], s[k + 1]) /\ Sheet(m[k])
      BY <1>2, <2>1
    <2> QED
      BY <2>1, <2>2, PutcharKeepsSheet
  <1>3. \A k \in 0..last : k \in Good
    <2> HIDE DEF Good
    <2> QED
      BY <1>1, <1>2, CountUp
  <1> QED
    BY <1>3

(* A string that moves no cursor goes behind the others.                   *)
LEMMA TextReads ==
    ASSUME NEW v, NEW u, NEW n \in Nat, Reads(v, u, n),
           NEW s, Len(s) \in Nat, n + Len(s) < VGA_WIDTH * VGA_HEIGHT,
           \A k \in 1..Len(s) : s[k] \notin Controls /\ s[k] = u[n + k]
    PROVE  Reads(vga_puts(v, s), u, n + Len(s))
  <1>1. PICK m : /\ m[0] = v
                 /\ \A j \in 1..Len(s) : m[j] = vga_putchar(m[j - 1], s[j])
                 /\ vga_puts(v, s) = m[Len(s)]
    BY PutsExists
  <1>2. 0 \in 0..Len(s) /\ Len(s) - 0 = Len(s) /\ \A k \in 1..Len(s) : 0 + k = k
    OBVIOUS
  <1>3. Reads(m[Len(s)], u, n + (Len(s) - 0))
    BY <1>1, <1>2, WalkReads
  <1> QED
    BY <1>1, <1>2, <1>3

(* What stands behind the last newline of a string is all that is left on  *)
(* its row.                                                                *)
LEMMA RestReads ==
    ASSUME NEW v, NEW u, Reads(v, u, 0), NEW s, Len(s) \in Nat,
           NEW e \in 0..Len(s), e = 0 \/ s[e] = Newline,
           Len(s) - e < VGA_WIDTH * VGA_HEIGHT,
           \A k \in 1..(Len(s) - e) : s[e + k] \notin Controls /\ s[e + k] = u[k]
    PROVE  Reads(vga_puts(v, s), u, Len(s) - e)
  <1>1. PICK m : /\ m[0] = v
                 /\ \A j \in 1..Len(s) : m[j] = vga_putchar(m[j - 1], s[j])
                 /\ vga_puts(v, s) = m[Len(s)]
    BY PutsExists
  <1>2. /\ e \in Nat /\ Len(s) - e \in Nat
        /\ 0 + (Len(s) - e) = Len(s) - e /\ \A k \in 1..(Len(s) - e) : 0 + k = k
    OBVIOUS
  <1>3. Reads(m[e], u, 0)
    <2>1. CASE e = 0
      BY <1>1, <2>1
    <2>2. CASE s[e] = Newline /\ e > 0
      <3>1. e \in 1..Len(s) /\ e - 1 \in 0..Len(s)
        BY <1>2, <2>2
      <3>2. m[e] = vga_putchar(m[e - 1], Newline)
        BY <1>1, <2>2, <3>1
      <3>3. Sheet(m[0])
        BY <1>1, ReadsSheet
      <3>4. \A k \in 0..Len(s) : Sheet(m[k])
        BY <1>1, <3>3, WalkKeepsSheet
      <3> QED
        BY <3>1, <3>2, <3>4, NewlineReads
    <2> QED
      BY <1>2, <2>1, <2>2
  <1>4. Reads(m[Len(s)], u, 0 + (Len(s) - e))
    BY <1>1, <1>2, <1>3, WalkReads
  <1> QED
    BY <1>1, <1>2, <1>4

(* What a command prints ends at the beginning of an empty row.            *)
LEMMA OutputReads ==
    ASSUME NEW v, NEW u, Reads(v, u, 0), NEW out, out \in Outputs
    PROVE  Reads(vga_puts(v, out), u, 0)
  <1>1. out \in Seq(STRING) /\ (out = <<>> \/ out[Len(out)] = Newline)
    BY TextAssumption
  <1>2. Len(out) \in Nat /\ (out = <<>> => Len(out) = 0)
    BY <1>1
  <1> DEFINE e == Len(out)
  <1>3. e \in 0..Len(out) /\ (e = 0 \/ out[e] = Newline)
    BY <1>1, <1>2
  <1>4. Len(out) - e = 0 /\ 0 < VGA_WIDTH * VGA_HEIGHT
    <2>1. 0 < VGA_WIDTH * VGA_HEIGHT
      BY VgaAssumption
    <2> QED
      BY <1>2, <2>1
  <1> HIDE DEF e
  <1>5. \A k \in 1..(Len(out) - e) : out[e + k] \notin Controls /\ out[e + k] = u[k]
    BY <1>4
  <1>6. Reads(vga_puts(v, out), u, Len(out) - e)
    BY <1>2, <1>3, <1>4, <1>5, RestReads
  <1> QED
    BY <1>4, <1>6

(* Rubbing out as many characters as were typed leaves what was there      *)
(* before them, as long as they stand in the row of the cursor.            *)
LEMMA RuboutsRead ==
    ASSUME NEW v, NEW u, NEW n \in Nat, NEW s, Len(s) \in Nat,
           \A j \in 1..Len(s) : s[j] = Rubout,
           Reads(v, u, n + Len(s)), v.col \in Nat, v.col >= Len(s)
    PROVE  Reads(vga_puts(v, s), u, n)
  <1>1. PICK m : /\ m[0] = v
                 /\ \A j \in 1..Len(s) : m[j] = vga_putchar(m[j - 1], s[j])
                 /\ vga_puts(v, s) = m[Len(s)]
    BY PutsExists
  <1> DEFINE k == Len(s)
  <1> DEFINE Good == {j \in 0..k : /\ Reads(m[j], u, n + (k - j))
                                /\ m[j].col = v.col - j}
  <1>2. 0 \in Good
    BY <1>1
  <1>3. ASSUME NEW j \in 0..(k - 1), j \in Good
        PROVE  j + 1 \in Good
    <2>1. /\ j + 1 \in 1..k /\ j + 1 \in 0..k /\ (j + 1) - 1 = j
          /\ n + (k - (j + 1)) \in Nat
          /\ (n + (k - (j + 1))) + 1 = n + (k - j)
      OBVIOUS
    <2>2. m[j + 1] = vga_backspace(m[j])
      <3>1. m[j + 1] = vga_putchar(m[j], Rubout)
        BY <1>1, <2>1
      <3> QED
        BY <3>1 DEF vga_putchar
    <2>3. /\ Reads(m[j], u, (n + (k - (j + 1))) + 1)
          /\ m[j].col = v.col - j /\ m[j].col > 0
          /\ m[j].col - 1 = v.col - (j + 1)
      <3>1. Reads(m[j], u, n + (k - j)) /\ m[j].col = v.col - j
        BY <1>3
      <3>2. k \in Nat /\ v.col \in Nat /\ v.col >= k
        OBVIOUS
      <3> HIDE DEF k, Good
      <3>3. j \in Nat /\ j < k
        BY <3>2
      <3>4. v.col - j > 0 /\ (v.col - j) - 1 = v.col - (j + 1)
        BY <3>2, <3>3
      <3> QED
        BY <2>1, <3>1, <3>4
    <2>4. Reads(m[j + 1], u, n + (k - (j + 1))) /\ m[j + 1].col = v.col - (j + 1)
      BY <2>1, <2>2, <2>3, RubReads
    <2> QED
      BY <2>1, <2>4
  <1>4. k \in Good
    <2> HIDE DEF Good
    <2>1. \A j \in 0..k : j \in Good
      BY <1>2, <1>3, CountUp
    <2> QED
      BY <2>1
  <1> QED
    BY <1>1, <1>4

LEMMA RubbedReads ==
    ASSUME NEW v, NEW u, NEW n \in Nat, NEW k \in Nat, Reads(v, u, n + k),
           v.col \in Nat, v.col >= k
    PROVE  Reads(Backspaces(v, k), u, n)
  <1> DEFINE s == [j \in 1..k |-> Rubout]
  <1>1. Len(s) = k /\ \A j \in 1..k : s[j] = Rubout
    <2>1. s \in Seq({Rubout})
      OBVIOUS
    <2> QED
      BY <2>1
  <1>2. Backspaces(v, k) = vga_puts(v, s)
    BY DEF Backspaces
  <1> HIDE DEF s
  <1>3. Reads(vga_puts(v, s), u, n)
    BY <1>1, RuboutsRead
  <1> QED
    BY <1>2, <1>3

-----------------------------------------------------------------------------
(* Nothing is rubbed out but what stands in the row of the cursor.         *)
RubsInRow ==
    /\ KeyBackspace /\ cmd_buf # <<>> => vga.col > 0
    /\ KeyUp \/ KeyDown => vga.col >= Len(cmd_buf)

(* Outside the pager the screen reads the line.                            *)
LineRead ==
    IF Paging THEN cmd_buf = <<>>
    ELSE Reads(vga, Prompt \o cmd_buf, Len(Prompt) + Len(cmd_buf))

(* The line as a sequence.                                                 *)
LEMMA LineCharacters ==
    ASSUME NEW buf \in Typed
    PROVE  /\ Len(Prompt) \in Nat /\ Len(buf) \in Nat
           /\ Len(Prompt \o buf) = Len(Prompt) + Len(buf)
           /\ \A k \in 1..Len(Prompt) : (Prompt \o buf)[k] = Prompt[k]
           /\ \A k \in 1..Len(buf) : (Prompt \o buf)[Len(Prompt) + k] = buf[k]
           /\ \A k \in 1..Len(Prompt) : Prompt[k] \notin Controls
           /\ \A k \in 1..Len(buf) : buf[k] \notin Controls
           /\ Len(Prompt) + Len(buf) < VGA_WIDTH * VGA_HEIGHT
           /\ Len(Prompt) < VGA_WIDTH * VGA_HEIGHT
  <1>1. Prompt \in Seq(STRING) /\ buf \in Seq(Letters)
    BY TextAssumption DEF Typed
  <1>2. \A k \in 1..Len(buf) : buf[k] \in Letters
    BY <1>1
  <1>3. /\ Len(Prompt) \in Nat /\ Len(buf) \in Nat
        /\ Len(Prompt \o buf) = Len(Prompt) + Len(buf)
        /\ \A k \in 1..Len(Prompt) : (Prompt \o buf)[k] = Prompt[k]
        /\ \A k \in 1..Len(buf) : (Prompt \o buf)[Len(Prompt) + k] = buf[k]
    BY <1>1
  <1>4. Len(buf) < CMD_MAX_LEN
    BY DEF Typed
  <1>5. /\ Len(Prompt) + Len(buf) < VGA_WIDTH * VGA_HEIGHT
        /\ Len(Prompt) < VGA_WIDTH * VGA_HEIGHT
    <2> DEFINE size == VGA_WIDTH * VGA_HEIGHT
    <2>1. size \in Nat /\ CMD_MAX_LEN \in Nat /\ Len(Prompt) + CMD_MAX_LEN <= size
      BY VgaAssumption, LengthAssumption
    <2> HIDE DEF size
    <2>2. Len(Prompt) + Len(buf) < size /\ Len(Prompt) < size
      BY <1>3, <1>4, <2>1
    <2> QED
      BY <2>2 DEF size
  <1> QED
    BY <1>2, <1>3, <1>5, TextAssumption

(* A new prompt on an empty line.                                          *)
LEMMA EmptyTyped ==
    /\ <<>> \in Typed
    /\ Len(Prompt) \in Nat /\ Len(Prompt) < VGA_WIDTH * VGA_HEIGHT
    /\ \A k \in 1..Len(Prompt) : Prompt[k] \notin Controls
  BY NothingTyped, LineCharacters

LEMMA PromptReads ==
    ASSUME NEW v, Reads(v, Prompt, 0)
    PROVE  Reads(vga_puts(v, Prompt), Prompt, Len(Prompt))
  <1>1. /\ Len(Prompt) \in Nat /\ Len(Prompt) < VGA_WIDTH * VGA_HEIGHT
        /\ \A k \in 1..Len(Prompt) : Prompt[k] \notin Controls
    BY EmptyTyped
  <1>2. 0 + Len(Prompt) = Len(Prompt) /\ \A k \in 1..Len(Prompt) : 0 + k = k
    BY <1>1
  <1> QED
    BY <1>1, <1>2, TextReads

LEMMA EmptyLine ==
    ASSUME NEW v
    PROVE  Reads(v, Prompt, Len(Prompt))
             <=> Reads(v, Prompt \o <<>>, Len(Prompt) + Len(<<>>))
  <1>1. Prompt \in Seq(STRING)
    BY TextAssumption
  <1>2. Prompt \o <<>> = Prompt /\ Len(Prompt) + Len(<<>>) = Len(Prompt)
    BY <1>1
  <1> QED
    BY <1>2

(* What is stored in v is rubbed out and buf is shown in its place.        *)
LEMMA LineReplaced ==
    ASSUME HistoryType, NEW buf \in Typed,
           Reads(vga, Prompt \o cmd_buf, Len(Prompt) + Len(cmd_buf)),
           vga.col >= Len(cmd_buf)
    PROVE  /\ Reads(Backspaces(vga, Len(cmd_buf)), Prompt, Len(Prompt))
           /\ Reads(vga_puts(Backspaces(vga, Len(cmd_buf)), buf),
                    Prompt \o buf, Len(Prompt) + Len(buf))
  <1> DEFINE v == Backspaces(vga, Len(cmd_buf))
  <1>1. cmd_buf \in Typed
    BY DEF HistoryType
  <1>2. /\ Len(Prompt) \in Nat /\ Len(cmd_buf) \in Nat
        /\ \A k \in 1..Len(Prompt) : Prompt[k] = (Prompt \o cmd_buf)[k]
        /\ vga.col \in Nat
    <2>1. vga.col \in Nat
      BY ReadsSheet DEF Sheet, IsScreen, Cols
    <2> QED
      BY <1>1, <2>1, LineCharacters
  <1>3. /\ Len(buf) \in Nat
        /\ \A k \in 1..Len(Prompt) : (Prompt \o buf)[k] = Prompt[k]
        /\ \A k \in 1..Len(buf) : buf[k] \notin Controls
        /\ \A k \in 1..Len(buf) : buf[k] = (Prompt \o buf)[Len(Prompt) + k]
        /\ Len(Prompt) + Len(buf) < VGA_WIDTH * VGA_HEIGHT
    BY LineCharacters
  <1>4. Reads(v, Prompt \o cmd_buf, Len(Prompt))
    BY <1>2, RubbedReads
  <1> HIDE DEF v
  <1>5. Reads(v, Prompt, Len(Prompt))
    BY <1>2, <1>4, SameReads
  <1>6. Reads(v, Prompt \o buf, Len(Prompt))
    BY <1>2, <1>3, <1>5, SameReads
  <1>7. Reads(vga_puts(v, buf), Prompt \o buf, Len(Prompt) + Len(buf))
    BY <1>2, <1>3, <1>6, TextReads
  <1> QED
    BY <1>5, <1>7 DEF v

(* The rest of a line runs over a screen with nothing behind the cursor.   *)
LEMMA RunsReads ==
    ASSUME NEW before, Reads(before, Prompt, 0), Runs(before), cmd_buf' = <<>>
    PROVE  LineRead'
  <1>1. PICK clear \in BOOLEAN, out \in Outputs :
           LET v == vga_puts(IF clear THEN vga_clear ELSE before, out)
           IN  \/ vga' = vga_puts(v, Prompt) /\ pager' = NoPage
               \/ \E doc \in Docs : Draw(v, doc, 0)
    BY DEF Runs
  <1> DEFINE from == IF clear THEN vga_clear ELSE before
             v == vga_puts(from, out)
  <1>2. Reads(from, Prompt, 0)
    BY ClearReads
  <1> HIDE DEF from
  <1>3. Reads(v, Prompt, 0)
    BY <1>2, OutputReads
  <1>4. \/ vga' = vga_puts(v, Prompt) /\ pager' = NoPage
        \/ \E doc \in Docs : Draw(v, doc, 0)
    BY <1>1 DEF from
  <1> HIDE DEF v
  <1>5. CASE vga' = vga_puts(v, Prompt) /\ pager' = NoPage
    <2>1. Reads(vga', Prompt, Len(Prompt))
      BY <1>3, <1>5, PromptReads
    <2>2. Reads(vga', Prompt \o <<>>, Len(Prompt) + Len(<<>>))
      BY <2>1, EmptyLine
    <2>3. ~pager'.open
      BY <1>5 DEF NoPage
    <2> QED
      BY <2>2, <2>3 DEF LineRead, Paging
  <1>6. ASSUME NEW doc \in Docs, Draw(v, doc, 0)
        PROVE  LineRead'
    <2>1. pager'.open
      BY <1>6 DEF Draw
    <2> QED
      BY <2>1 DEF LineRead, Paging
  <1> QED
    BY <1>4, <1>5, <1>6

LEMMA EnterReads ==
    ASSUME LineRead, KeyEnter
    PROVE  LineRead'
  <1>1. ~Paging /\ cmd_buf' = <<>> /\ Runs(vga_putchar(vga, Newline))
    BY DEF KeyEnter
  <1>2. Sheet(vga)
    BY <1>1, ReadsSheet DEF LineRead
  <1>3. Reads(vga_putchar(vga, Newline), Prompt, 0)
    BY <1>2, NewlineReads
  <1> QED
    BY <1>1, <1>3, RunsReads

LEMMA BackspaceReads ==
    ASSUME HistoryType, LineRead, KeyBackspace, RubsInRow
    PROVE  LineRead'
  <1>1. /\ ~Paging /\ pager' = pager
        /\ Reads(vga, Prompt \o cmd_buf, Len(Prompt) + Len(cmd_buf))
    BY DEF KeyBackspace, LineRead
  <1>2. CASE cmd_buf = <<>>
    <2>1. cmd_buf' = cmd_buf /\ vga' = vga
      BY <1>2 DEF KeyBackspace
    <2> QED
      BY <1>1, <2>1 DEF LineRead, Paging
  <1>3. CASE cmd_buf # <<>>
    <2> DEFINE buf == Front(cmd_buf)
    <2>1. cmd_buf' = buf /\ vga' = vga_backspace(vga)
      BY <1>3 DEF KeyBackspace
    <2>2. /\ cmd_buf \in Seq(Letters) /\ Len(cmd_buf) > 0
      <3>1. cmd_buf \in Seq(Letters)
        BY DEF HistoryType, Typed
      <3> QED
        BY <1>3, <3>1
    <2>3. /\ buf \in Typed /\ Len(cmd_buf) = Len(buf) + 1
          /\ \A k \in 1..Len(buf) : buf[k] = cmd_buf[k]
      <3>1. buf = SubSeq(cmd_buf, 1, Len(cmd_buf) - 1)
        BY DEF Front
      <3>2. /\ SubSeq(cmd_buf, 1, Len(cmd_buf) - 1) \in Seq(Letters)
            /\ Len(SubSeq(cmd_buf, 1, Len(cmd_buf) - 1)) = Len(cmd_buf) - 1
            /\ \A k \in 1..(Len(cmd_buf) - 1) :
                  SubSeq(cmd_buf, 1, Len(cmd_buf) - 1)[k] = cmd_buf[k]
        <4> DEFINE n == Len(cmd_buf) - 1
        <4>1. n \in Nat /\ n - 1 + 1 = n
          BY <2>2
        <4>2. SubSeq(cmd_buf, 1, n) \in Seq(Letters) /\ Len(SubSeq(cmd_buf, 1, n)) = n
          BY <2>2, <4>1
        <4>3. \A k \in 1..n : SubSeq(cmd_buf, 1, n)[k] = cmd_buf[k]
          BY <2>2, <4>1
        <4> QED
          BY <4>2, <4>3
      <3>3. Len(cmd_buf) \in Nat /\ Len(cmd_buf) < CMD_MAX_LEN /\ CMD_MAX_LEN \in Nat
        BY <2>2, LengthAssumption DEF HistoryType, Typed
      <3> HIDE DEF buf
      <3> QED
        BY <3>1, <3>2, <3>3 DEF Typed
    <2> HIDE DEF buf
    <2>4. cmd_buf \in Typed
      BY DEF HistoryType
    <2>5. /\ Len(Prompt) \in Nat /\ Len(buf) \in Nat
          /\ \A k \in 1..Len(Prompt) : (Prompt \o buf)[k] = Prompt[k]
          /\ \A k \in 1..Len(buf) : (Prompt \o buf)[Len(Prompt) + k] = buf[k]
      BY <2>3, LineCharacters
    <2>6. /\ \A k \in 1..Len(Prompt) : (Prompt \o cmd_buf)[k] = Prompt[k]
          /\ \A k \in 1..Len(cmd_buf) :
                (Prompt \o cmd_buf)[Len(Prompt) + k] = cmd_buf[k]
      BY <2>4, LineCharacters
    <2> DEFINE n == Len(Prompt) + Len(buf)
    <2>7. n \in Nat /\ Len(Prompt) + Len(cmd_buf) = n + 1
      BY <2>3, <2>5
    <2>8. ASSUME NEW k \in 1..n
          PROVE  (Prompt \o buf)[k] = (Prompt \o cmd_buf)[k]
      <3>1. CASE k <= Len(Prompt)
        <4>1. k \in 1..Len(Prompt)
          BY <2>5, <2>7, <3>1
        <4> QED
          BY <2>5, <2>6, <4>1
      <3>2. CASE k > Len(Prompt)
        <4> DEFINE j == k - Len(Prompt)
        <4>1. j \in 1..Len(buf) /\ j \in 1..Len(cmd_buf) /\ Len(Prompt) + j = k
          BY <2>3, <2>5, <3>2
        <4> HIDE DEF j
        <4>2. /\ (Prompt \o buf)[Len(Prompt) + j] = buf[j]
              /\ (Prompt \o cmd_buf)[Len(Prompt) + j] = cmd_buf[j]
              /\ buf[j] = cmd_buf[j]
          BY <2>3, <2>5, <2>6, <4>1
        <4> QED
          BY <4>1, <4>2
      <3> QED
        BY <2>5, <2>7, <3>1, <3>2
    <2>9. Reads(vga, Prompt \o cmd_buf, n + 1) /\ vga.col > 0
      BY <1>1, <1>3, <2>7 DEF RubsInRow
    <2> HIDE DEF n
    <2>10. Reads(vga_backspace(vga), Prompt \o cmd_buf, n)
      BY <2>7, <2>9, RubReads
    <2>11. Reads(vga_backspace(vga), Prompt \o buf, n)
      BY <2>7, <2>8, <2>10, SameReads
    <2>12. Reads(vga', Prompt \o cmd_buf', Len(Prompt) + Len(cmd_buf'))
      BY <2>1, <2>11 DEF n
    <2>13. ~pager'.open
      BY <1>1 DEF Paging
    <2> QED
      BY <2>12, <2>13 DEF LineRead, Paging
  <1> QED
    BY <1>2, <1>3

LEMMA LetterKeyReads ==
    ASSUME HistoryType, HistoryType', LineRead, KeyLetter
    PROVE  LineRead'
  <1>1. /\ ~Paging /\ pager' = pager
        /\ Reads(vga, Prompt \o cmd_buf, Len(Prompt) + Len(cmd_buf))
    BY DEF KeyLetter, LineRead
  <1>2. PICK ch \in Letters : /\ cmd_buf' = Append(cmd_buf, ch)
                              /\ vga' = vga_putchar(vga, ch)
    BY DEF KeyLetter
  <1> DEFINE buf == Append(cmd_buf, ch)
             n == Len(Prompt) + Len(cmd_buf)
  <1>3. cmd_buf \in Seq(Letters) /\ cmd_buf \in Typed
    BY DEF HistoryType, Typed
  <1>4. /\ buf \in Typed /\ Len(buf) = Len(cmd_buf) + 1
        /\ buf[Len(cmd_buf) + 1] = ch
        /\ \A k \in 1..Len(cmd_buf) : buf[k] = cmd_buf[k]
    <2>1. buf \in Typed
      BY <1>2 DEF HistoryType
    <2> QED
      BY <1>3, <2>1
  <1>5. /\ Len(Prompt) \in Nat /\ Len(cmd_buf) \in Nat
        /\ \A k \in 1..Len(Prompt) : (Prompt \o cmd_buf)[k] = Prompt[k]
        /\ \A k \in 1..Len(cmd_buf) :
              (Prompt \o cmd_buf)[Len(Prompt) + k] = cmd_buf[k]
    BY <1>3, LineCharacters
  <1> HIDE DEF buf
  <1>6. /\ \A k \in 1..Len(Prompt) : (Prompt \o buf)[k] = Prompt[k]
        /\ \A k \in 1..Len(buf) : (Prompt \o buf)[Len(Prompt) + k] = buf[k]
    BY <1>4, LineCharacters
  <1>7. n \in Nat /\ Len(Prompt) + Len(buf) = n + 1
    BY <1>4, <1>5
  <1>8. ASSUME NEW k \in 1..n
        PROVE  (Prompt \o buf)[k] = (Prompt \o cmd_buf)[k]
    <2>1. CASE k <= Len(Prompt)
      <3>1. k \in 1..Len(Prompt)
        BY <1>5, <1>7, <2>1
      <3> QED
        BY <1>5, <1>6, <3>1
    <2>2. CASE k > Len(Prompt)
      <3> DEFINE j == k - Len(Prompt)
      <3>1. j \in 1..Len(buf) /\ j \in 1..Len(cmd_buf) /\ Len(Prompt) + j = k
        BY <1>4, <1>5, <2>2
      <3> HIDE DEF j
      <3>2. /\ (Prompt \o buf)[Len(Prompt) + j] = buf[j]
            /\ (Prompt \o cmd_buf)[Len(Prompt) + j] = cmd_buf[j]
            /\ buf[j] = cmd_buf[j]
        BY <1>4, <1>5, <1>6, <3>1
      <3> QED
        BY <3>1, <3>2
    <2> QED
      BY <1>5, <1>7, <2>1, <2>2
  <1>9. ch = (Prompt \o buf)[n + 1] /\ ch \notin Controls
    <2>1. Len(buf) \in 1..Len(buf) /\ Len(buf) = Len(cmd_buf) + 1
      BY <1>4, <1>5
    <2>2. (Prompt \o buf)[Len(Prompt) + Len(buf)] = ch
      BY <1>4, <1>6, <2>1
    <2> QED
      BY <1>7, <2>2, TextAssumption
  <1>10. n + 1 < VGA_WIDTH * VGA_HEIGHT
    BY <1>4, <1>7, LineCharacters
  <1>11. Reads(vga, Prompt \o cmd_buf, n)
    BY <1>1
  <1>12. cmd_buf' = buf
    BY <1>2 DEF buf
  <1> HIDE DEF n
  <1>13. Reads(vga, Prompt \o buf, n)
    BY <1>7, <1>8, <1>11, SameReads
  <1>14. Reads(vga', Prompt \o buf, n + 1)
    BY <1>2, <1>7, <1>9, <1>10, <1>13, LetterReads
  <1>15. Reads(vga', Prompt \o cmd_buf', Len(Prompt) + Len(cmd_buf'))
    BY <1>7, <1>12, <1>14
  <1>16. ~pager'.open
    BY <1>1 DEF Paging
  <1> QED
    BY <1>15, <1>16 DEF LineRead, Paging

LEMMA RecallReads ==
    ASSUME HistoryType, HistoryType', LineRead, KeyUp \/ KeyDown,
           RubsInRow
    PROVE  LineRead'
  <1> DEFINE rubbed == Backspaces(vga, Len(cmd_buf))
  <1>1. /\ ~Paging /\ pager' = pager
        /\ \/ vga' = vga_puts(rubbed, cmd_buf')
           \/ vga' = rubbed /\ cmd_buf' = <<>>
    BY DEF KeyUp, KeyDown, Recall
  <1>2. Reads(vga, Prompt \o cmd_buf, Len(Prompt) + Len(cmd_buf))
    BY <1>1 DEF LineRead
  <1>3. cmd_buf' \in Typed /\ vga.col >= Len(cmd_buf)
    BY DEF HistoryType, RubsInRow
  <1>4. /\ Reads(rubbed, Prompt, Len(Prompt))
        /\ Reads(vga_puts(rubbed, cmd_buf'),
                 Prompt \o cmd_buf', Len(Prompt) + Len(cmd_buf'))
    BY <1>2, <1>3, LineReplaced
  <1>5. Reads(rubbed, Prompt \o <<>>, Len(Prompt) + Len(<<>>))
    BY <1>4, EmptyLine
  <1> HIDE DEF rubbed
  <1>6. Reads(vga', Prompt \o cmd_buf', Len(Prompt) + Len(cmd_buf'))
    BY <1>1, <1>4, <1>5
  <1>7. ~pager'.open
    BY <1>1 DEF Paging
  <1> QED
    BY <1>6, <1>7 DEF LineRead, Paging

LEMMA PagerReads ==
    ASSUME LineRead,
           PagerWheel \/ PagerLine \/ PagerPage \/ PagerHomeEnd \/ PagerQuit
    PROVE  LineRead'
  <1>1. Paging /\ cmd_buf' = <<>>
    BY PagerKeepsLine
       DEF LineRead, line, PagerWheel, PagerLine, PagerPage, PagerHomeEnd,
           PagerQuit, Turn
  <1>2. CASE PagerQuit
    <2>1. Runs(vga_clear)
      BY <1>2 DEF PagerQuit
    <2>2. Reads(vga_clear, Prompt, 0)
      BY ClearReads
    <2> QED
      BY <1>1, <2>1, <2>2, RunsReads
  <1>3. CASE PagerWheel \/ PagerLine \/ PagerPage \/ PagerHomeEnd
    <2>1. pager'.open
      BY <1>3 DEF PagerWheel, PagerLine, PagerPage, PagerHomeEnd, Turn, Draw
    <2> QED
      BY <1>1, <2>1 DEF LineRead, Paging
  <1> QED
    BY <1>2, <1>3

LEMMA FirstLineRead ==
    ASSUME Init
    PROVE  LineRead
  <1>1. Reads(vga, Prompt, Len(Prompt)) /\ cmd_buf = <<>> /\ pager = NoPage
    BY ClearReads, PromptReads DEF Init
  <1>2. Reads(vga, Prompt \o cmd_buf, Len(Prompt) + Len(cmd_buf))
    BY <1>1, EmptyLine
  <1> QED
    BY <1>1, <1>2 DEF LineRead, Paging, NoPage

LEMMA StepReads ==
    ASSUME HistoryInv, HistoryInv', LineRead, [Next]_vars, [RubsInRow]_vars
    PROVE  LineRead'
  <1>1. CASE UNCHANGED vars
    BY <1>1 DEF vars, line, LineRead, Paging
  <1>2. CASE Next /\ RubsInRow
    BY <1>2, EnterReads, BackspaceReads, LetterKeyReads, RecallReads, PagerReads
       DEF Next, HistoryInv
  <1> QED
    BY <1>1, <1>2

(* What reads the line shows it, in the numbering of the cells.            *)
LEMMA ReadShows ==
    ASSUME HistoryType, LineRead, ~Paging
    PROVE  ScreenShowsLine
  <1> DEFINE shown == Prompt \o cmd_buf
             n == Len(Prompt) + Len(cmd_buf)
             W == VGA_WIDTH
             row == vga.row
  <1>1. cmd_buf \in Typed
    BY DEF HistoryType
  <1>2. Len(shown) = n /\ n \in Nat /\ W \in Nat /\ W > 0
    BY <1>1, LineCharacters, VgaAssumption
  <1>3. PICK s \in Nat : ReadsFrom(vga, shown, n, s)
    BY DEF LineRead, Reads
  <1>4. /\ row \in Rows /\ row \in Nat /\ vga.col \in Cols
        /\ row = s + (n \div W) /\ vga.col = n % W
        /\ Ruled(vga.cells, row)
    BY <1>3 DEF ReadsFrom, Sheet, IsScreen, Rows
  <1> HIDE DEF shown, n
  <1>5. CursorOnScreen
    BY <1>4 DEF CursorOnScreen
  <1>6. /\ Position = s * W + n /\ s * W \in Nat
        /\ Position = row * W + vga.col /\ row * W \in Nat /\ vga.col \in Nat
    <2>1. n \div W \in Nat /\ n = (n \div W) * W + (n % W) /\ n % W \in Nat
      BY <1>2, NumberSplits DEF Cols
    <2> DEFINE q == n \div W
    <2>2. (s + q) * W = s * W + q * W /\ s * W \in Nat /\ q * W \in Nat
      BY <1>2, <2>1
    <2>3. Position = (s + q) * W + (n % W)
      BY <1>4 DEF Position
    <2> QED
      BY <1>2, <1>4, <2>1, <2>2, <2>3 DEF Position
  <1>7. ASSUME NEW k \in 1..n
        PROVE  Cell(Position - n + k - 1) = shown[k]
    <2> DEFINE j == k - 1
               q == j \div W
               c == j % W
    <2>1. j \in 0..(n - 1) /\ j \in Nat /\ j + 1 = k
      BY <1>2
    <2>2. q \in Nat /\ c \in Cols /\ j = q * W + c
      BY <2>1, NumberSplits
    <2>3. vga.cells[s + q][c] = shown[k]
      <3> HIDE DEF j
      <3> QED
        BY <1>3, <2>1 DEF ReadsFrom
    <2>4. Position - n + k - 1 = s * W + j
      BY <1>2, <1>6
    <2> HIDE DEF q, c, j
    <2>5. (s + q) * W = s * W + q * W /\ q * W \in Nat /\ s + q \in Nat /\ c \in Nat
      BY <1>2, <2>2 DEF Cols
    <2>6. Position - n + k - 1 = (s + q) * W + c
      BY <1>6, <2>2, <2>4, <2>5
    <2>7. Cell(Position - n + k - 1) = vga.cells[s + q][c]
      BY <2>2, <2>5, <2>6, PlaceSplits DEF Cell
    <2> QED
      BY <2>3, <2>7
  <1>8. ASSUME NEW p \in Position..(W * VGA_HEIGHT - 1)
        PROVE  Cell(p) = Blank
    <2> DEFINE r == p \div W
               c == p % W
    <2>1. p \in Nat /\ p >= Position /\ p < VGA_HEIGHT * W /\ VGA_HEIGHT \in Nat
      <3>1. W * VGA_HEIGHT \in Nat /\ W * VGA_HEIGHT = VGA_HEIGHT * W /\ VGA_HEIGHT \in Nat
        BY <1>2, VgaAssumption
      <3>2. Position \in Nat
        BY <1>2, <1>6
      <3> QED
        BY <3>1, <3>2
    <2>2. r \in Nat /\ c \in Cols /\ p = r * W + c
      BY <2>1, NumberSplits
    <2>3. Cell(p) = vga.cells[r][c]
      BY DEF Cell
    <2> HIDE DEF r, c
    <2>4. c \in Nat /\ c < W /\ r * W \in Nat
      BY <1>2, <2>2 DEF Cols
    <2>5. r < VGA_HEIGHT
      <3> SUFFICES ASSUME r >= VGA_HEIGHT PROVE FALSE
        BY <2>1, <2>2
      <3>1. r * W >= VGA_HEIGHT * W
        BY <1>2, <2>1, <2>2
      <3>2. VGA_HEIGHT * W \in Nat
        BY <1>2, <2>1
      <3> QED
        BY <2>1, <2>2, <2>4, <3>1, <3>2
    <2>6. r \in Rows
      BY <2>1, <2>2, <2>5 DEF Rows
    <2>7. CASE r > row
      <3>1. vga.cells[r] = BlankRow
        BY <1>4, <2>6, <2>7 DEF Ruled
      <3>2. BlankRow[c] = Blank
        BY <2>2 DEF BlankRow
      <3> QED
        BY <2>3, <3>1, <3>2
    <2>8. CASE r = row
      <3>1. c >= vga.col
        BY <1>6, <2>1, <2>2, <2>4, <2>8
      <3>2. vga.cells[row][c] = Blank
        BY <1>3, <2>2, <3>1 DEF ReadsFrom
      <3> QED
        BY <2>3, <2>8, <3>2
    <2>9. CASE r < row
      <3>1. r + 1 <= row
        BY <1>4, <2>2, <2>9
      <3>2. (r + 1) * W <= row * W /\ (r + 1) * W = r * W + W
        BY <1>2, <1>4, <2>2, <3>1
      <3> QED
        BY <1>2, <1>6, <2>1, <2>2, <2>4, <3>2
    <2> QED
      BY <1>4, <2>2, <2>7, <2>8, <2>9
  <1>9. Position >= n
    BY <1>2, <1>6
  <1> QED
    BY <1>2, <1>5, <1>7, <1>8, <1>9 DEF ScreenShowsLine, shown

(* As long as nothing is rubbed out that stands in a row above the cursor, *)
(* the screen shows the line that Enter will run, wrapped and scrolled or  *)
(* not: the prompt and the command buffer stand before the cursor and      *)
(* nothing of an earlier line, of a command's output or of a page behind   *)
(* it, whatever is typed, rubbed out, recalled, printed and paged.         *)
THEOREM ScreenIsTheLine == Spec /\ [][RubsInRow]_vars => []ScreenShowsLine
  <1>1. Init => LineRead
    BY FirstLineRead
  <1>2. HistoryInv /\ HistoryInv' /\ LineRead /\ [Next]_vars /\ [RubsInRow]_vars
          => LineRead'
    BY StepReads
  <1>3. HistoryInv /\ LineRead => ScreenShowsLine
    BY ReadShows DEF HistoryInv, ScreenShowsLine
  <1> QED
    BY <1>1, <1>2, <1>3, HistoryHoldsLast, PTL DEF Spec

(* No line has reached the right edge of the screen.                       *)
LineFits == Len(Prompt) + Len(cmd_buf) < VGA_WIDTH

(* In particular it shows every line that is shorter than a row.           *)
THEOREM ShortLinesAreShown == Spec /\ []LineFits => []ScreenShowsLine
  <1>1. ASSUME HistoryInv, LineRead, LineFits
        PROVE  RubsInRow
    <2> SUFFICES ASSUME ~Paging PROVE RubsInRow
      BY DEF RubsInRow, KeyBackspace, KeyUp, KeyDown
    <2>1. cmd_buf \in Typed
      BY <1>1 DEF HistoryInv, HistoryType
    <2>2. /\ Len(Prompt) \in Nat /\ Len(cmd_buf) \in Nat
          /\ (cmd_buf # <<>> => Len(cmd_buf) > 0)
      <3>1. cmd_buf \in Seq(Letters)
        BY <2>1 DEF Typed
      <3>2. cmd_buf # <<>> => Len(cmd_buf) > 0
        BY <3>1
      <3> QED
        BY <2>1, <3>2, LineCharacters
    <2>3. vga.col = (Len(Prompt) + Len(cmd_buf)) % VGA_WIDTH
      BY <1>1 DEF LineRead, Reads, ReadsFrom
    <2>4. (Len(Prompt) + Len(cmd_buf)) % VGA_WIDTH = Len(Prompt) + Len(cmd_buf)
      <3> DEFINE n == Len(Prompt) + Len(cmd_buf)
      <3>1. n \in Cols /\ n \in Nat /\ 0 \in Nat
        BY <1>1, <2>2, VgaAssumption DEF LineFits, Cols
      <3>2. n = 0 * VGA_WIDTH + n
        BY <3>1, VgaAssumption
      <3> HIDE DEF n
      <3> QED
        BY <3>1, <3>2, PlaceSplits DEF n
    <2>5. vga.col = Len(Prompt) + Len(cmd_buf)
      BY <2>3, <2>4
    <2> QED
      BY <2>2, <2>5 DEF RubsInRow
  <1>2. HistoryInv /\ LineRead /\ LineFits => RubsInRow
    BY <1>1
  <1>3. Init => LineRead
    BY FirstLineRead
  <1>4. HistoryInv /\ HistoryInv' /\ LineRead /\ LineFits /\ [Next]_vars => LineRead'
    BY <1>2, StepReads
  <1>5. HistoryInv /\ LineRead => ScreenShowsLine
    BY ReadShows DEF HistoryInv, ScreenShowsLine
  <1> QED
    BY <1>3, <1>4, <1>5, HistoryHoldsLast, PTL DEF Spec
=============================================================================
