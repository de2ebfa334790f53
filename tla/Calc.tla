-------------------------------- MODULE Calc --------------------------------
(***************************************************************************)
(* Numbers typed on the command line: parse_num and the recursive-descent  *)
(* calculator of src/src/shell/shell.c, and itoa of src/src/lib/string.c,  *)
(* which prints what it computes.                                          *)
(*                                                                         *)
(* A text is a sequence of characters.  calc_ptr is the position p in the  *)
(* text, calc_err and the value are passed along with it: each parser      *)
(* returns [v, p, err].  calc_err is 0, 1 (syntax), 2 (division by zero)   *)
(* or Fault: the processor traps on the quotient that does not fit, and    *)
(* the handler returns to the same instruction for ever.  Letters are      *)
(* lower case; upper case hexadecimal digits mean the same.                *)
(***************************************************************************)
EXTENDS Integers, Sequences, SequencesExt

CONSTANTS CALC_BITS,   \* 64 in the program: int64_t and uint64_t
          INT_BITS     \* 32: int

Digits    == <<"0", "1", "2", "3", "4", "5", "6", "7", "8", "9">>
HexDigits == <<"0", "1", "2", "3", "4", "5", "6", "7", "8", "9",
               "a", "b", "c", "d", "e", "f">>

IsDigit(ch)    == ch \in {Digits[i] : i \in DOMAIN Digits}
IsHexDigit(ch) == ch \in {HexDigits[i] : i \in DOMAIN HexDigits}
DigitValue(ch) == CHOOSE n \in 0..15 : HexDigits[n + 1] = ch

(* The character at a position, the terminating zero behind the end.       *)
At(s, p) == IF p <= Len(s) THEN s[p] ELSE "nul"

(* What is left of an integer in a register of so many bits.               *)
Signed(n, bits) == LET m == n % 2^bits
                   IN  IF m >= 2^(bits - 1) THEN m - 2^bits ELSE m
Int64(n) == Signed(n, CALC_BITS)

(* The first position from p on whose character is not of the kind.        *)
EndOf(s, p, Kind(_)) ==
    CHOOSE q \in p..(Len(s) + 1) : /\ q = Len(s) + 1 \/ ~Kind(s[q])
                                   /\ \A k \in p..(q - 1) : Kind(s[k])

HexPrefix(s, p) == At(s, p) = "0" /\ At(s, p + 1) \in {"x", "X"}

Accumulate(s, base) ==
    LET value[n \in 0..Len(s)] ==
          IF n = 0 THEN 0
          ELSE (value[n - 1] * base + DigitValue(s[n])) % 2^CALC_BITS
    IN  value[Len(s)]

(* Without the prefix 0x a number is decimal, and ends where its digits    *)
(* end; with it, a character that is no digit costs a factor of 16.        *)
parse_num(s) ==
    IF HexPrefix(s, 1)
    THEN LET end == EndOf(s, 3, IsHexDigit)
             n == Accumulate(SubSeq(s, 3, end - 1), 16)
         IN  IF end <= Len(s) THEN (n * 16) % 2^CALC_BITS ELSE n
    ELSE Accumulate(SubSeq(s, 1, EndOf(s, 1, IsDigit) - 1), 10)

-----------------------------------------------------------------------------
Blanks == {" ", "tab"}

calc_skip(s, p) == EndOf(s, p, LAMBDA ch : ch \in Blanks)

Fault == 3

(* Division truncates towards zero.                                        *)
Abs(n) == IF n < 0 THEN -n ELSE n
Quotient(a, b) == IF (a < 0) = (b < 0) THEN Abs(a) \div Abs(b)
                                       ELSE -(Abs(a) \div Abs(b))

Overflows(a, b) == a = -(2^(CALC_BITS - 1)) /\ b = -1

Apply(op, a, b) ==
    CASE op = "+" -> Int64(a + b)
      [] op = "-" -> Int64(a - b)
      [] op = "*" -> Int64(a * b)
      [] op = "/" -> Quotient(a, b)
      [] op = "%" -> a - b * Quotient(a, b)

OpError(op, a, b) ==
    IF op \notin {"/", "%"} THEN 0
    ELSE IF b = 0 THEN 2
    ELSE IF Overflows(a, b) THEN Fault
    ELSE 0

(* The number at p.  The parser goes on behind its digits; parse_num is    *)
(* handed all of the text that is left, so that a hexadecimal number with  *)
(* anything behind it is read as sixteen times what it is.                 *)
Number(s, p) ==
    LET end == IF HexPrefix(s, p) THEN EndOf(s, p + 2, IsHexDigit)
                                  ELSE EndOf(s, p, IsDigit)
    IN  [v |-> Int64(parse_num(SubSeq(s, p, Len(s)))), p |-> end, err |-> 0]

(* A sign, a parenthesis or a number at p, where the text is not blank;    *)
(* factor and expr are what these parsers find behind the character there. *)
(* A parenthesis that does not close where the expression stopped is a     *)
(* syntax error, also when it stopped at a division by zero.               *)
calc_parse_factor(s, p, factor, expr) ==
    LET ch == At(s, p)
        close == calc_skip(s, expr.p)
    IN  CASE ch = "+" -> factor
          [] ch = "-" -> [factor EXCEPT !.v = Int64(-@)]
          [] ch = "(" -> IF expr.err = Fault THEN expr
                         ELSE IF At(s, close) = ")"
                              THEN [expr EXCEPT !.p = close + 1]
                         ELSE [expr EXCEPT !.p = close, !.err = 1]
          [] IsDigit(ch) -> Number(s, p)
          [] OTHER -> [v |-> 0, p |-> p, err |-> 1]

(* calc_parse_term is level 1 and calc_parse_expr level 2.                 *)
Operators == <<{"*", "/", "%"}, {"+", "-"}>>

(* Mutant: the right operand takes in all that follows at its level.       *)
RightAtSameLevel(level) == level

(* A term's operands are factors, an expression's are terms.               *)
RightOperand(level) == level - 1

Results == [v : Int, p : Nat, err : Nat]

(* Each level reads an operand and goes on, from left to right, while one  *)
(* of its operators follows.                                               *)
calc_parse_expr(s) ==
    LET parse[level \in 0..2, p \in Nat] ==
          LET at == calc_skip(s, p)
              loop[left \in Results] ==
                LET q == calc_skip(s, left.p)
                    op == At(s, q)
                    right == parse[RightOperand(level), q + 1]
                    err == IF right.err # 0 THEN right.err
                                            ELSE OpError(op, left.v, right.v)
                IN  IF left.err # 0 THEN left
                    ELSE IF op \notin Operators[level] THEN [left EXCEPT !.p = q]
                    ELSE IF err # 0 THEN [v |-> left.v, p |-> right.p, err |-> err]
                    ELSE loop[[right EXCEPT !.v = Apply(op, left.v, right.v)]]
          IN  IF level = 0
              THEN calc_parse_factor(s, at, parse[0, at + 1], parse[2, at + 1])
              ELSE loop[parse[level - 1, p]]
    IN  parse[2, 1]

-----------------------------------------------------------------------------
(* itoa, as the number its digits denote.  The smallest int has no         *)
(* negative, so its digits come out below '0'.                             *)
itoa(n) == IF n = -(2^(INT_BITS - 1)) THEN "garbage" ELSE ToString(n)

(* The decimal that is printed: a sign, and the int that is left of the    *)
(* absolute value.                                                         *)
ShownDecimal(v) ==
    IF v < 0 THEN "-" \o itoa(Signed(Int64(-v), INT_BITS))
             ELSE itoa(Signed(v, INT_BITS))

(* strcat over the arguments, with a blank between two.                    *)
FormulaText(args) ==
    FoldLeft(LAMBDA s, x : IF s = <<>> THEN x ELSE s \o <<" ">> \o x, <<>>, args)

(* cmd_calc: its error and, if there is none, what it prints.  Blanks may  *)
(* follow the expression and nothing else.                                 *)
Report(s, r) ==
    IF r.err # 0 THEN [err |-> r.err]
    ELSE IF calc_skip(s, r.p) <= Len(s) THEN [err |-> 1]
    ELSE [err |-> 0, hex |-> r.v, decimal |-> ShownDecimal(r.v)]

cmd_calc(argv) ==
    LET s == FormulaText(Tail(argv))
    IN  Report(s, calc_parse_expr(s))
=============================================================================
